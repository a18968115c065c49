------------------------ MODULE AgentAssignmentProofs ------------------------
(***************************************************************************)
(* For any keys, lifetimes, bounds and environments: a registration is     *)
(* earned by its ticket and its code, a ticket activates once and is the   *)
(* only one of its operation, the agent is in step with the servers, and   *)
(* the device key installed is its own.                                    *)
(***************************************************************************)
EXTENDS AgentAssignment, TLAPS, FiniteSetTheorems

(***************************************************************************)
(* The inductive invariant.  An operation has one key, because the key of  *)
(* an agent cannot change while it is asking; a counter names one request  *)
(* and its reply; a key once enrolled stays, and so does a candidate once  *)
(* drawn.                                                                  *)
(***************************************************************************)
AgentOK ==
    /\ agent.counter <= counter
    /\ agent.ticket <= Len(tickets)
    /\ agent.phase \in {"idle", "asking"} => agent.ticket = 0
    /\ agent.phase \in {"assigned", "coded", "registering"} => agent.ticket # 0
    /\ agent.phase = "asking" => agent.operation # 0

PacketOK(p) ==
    /\ p.key \in Keys /\ p.counter \in 1..counter
    /\ p.type = "initial" => p.fields \in 1..agent.operation
    /\ p.type = "assignment" => p.fields \in 1..Len(tickets)
    /\ p.type = "otp" => kind = "account" /\ p.fields \in 1..Len(tickets)
    /\ p.type = "reg" => p.fields.ticket \in 1..Len(tickets)
    /\ p.type = "rak" => (p.fields = "0" => registered = p.key)
    /\ p.type = "completion" => p.fields = agent.candidate /\ agent.candidate # 0
    /\ p.type = "completed" => p.fields # "52303"

NetworkOK == \A p \in network : PacketOK(p)

\* A packet for an operation and the ticket of an operation.
OneKeyPerOperation ==
    /\ \A p, q \in network :
          p.type = "initial" /\ q.type = "initial" /\ p.fields = q.fields => p.key = q.key
    /\ \A p \in network, t \in 1..Len(tickets) :
          p.type = "initial" /\ tickets[t].operation = p.fields => tickets[t].key = p.key
    /\ agent.phase = "asking" =>
          /\ \A p \in network :
                p.type = "initial" /\ p.fields = agent.operation => p.key = agent.key
          /\ \A t \in 1..Len(tickets) :
                tickets[t].operation = agent.operation => tickets[t].key = agent.key

TicketsDiffer ==
    /\ \A t \in 1..Len(tickets) : tickets[t].operation <= agent.operation
    /\ \A s, t \in 1..Len(tickets) : tickets[s].operation = tickets[t].operation => s = t

CounterNamesRequest ==
    agent.phase = "asking" =>
        \A p \in network : p.counter = agent.counter =>
            /\ p.type = "initial" => p.fields = agent.operation
            /\ p.type = "assignment" => tickets[p.fields].operation = agent.operation

ChallengesMailed ==
    \A c \in challenges :
        \E m \in mailed : /\ m.ticket = c.ticket /\ m.key = c.key /\ m.code = c.code
                          /\ m.at + MinRemaining <= tickets[m.ticket].expires

IInv == /\ TypeOK
        /\ AgentOK
        /\ NetworkOK
        /\ OneKeyPerOperation
        /\ TicketsDiffer
        /\ CounterNamesRequest
        /\ ChallengesMailed
        /\ RegistrationEarned
        /\ TicketIsOneShot
        /\ AgentInStep
        /\ DeviceKeyIsOurs

AgentType == [phase : Phases, key : Keys, operation : 0..MaxOperations,
              ticket : 0..MaxOperations, counter : 0..MaxPackets,
              candidate : 0..MaxPackets + 1]

----------------------------------------------------------------------------
\* Numbers and types used throughout.
LEMMA Numbers ==
    ASSUME TypeOK
    PROVE  /\ counter \in Nat /\ counter <= MaxPackets /\ MaxPackets \in Nat
           /\ now \in Nat /\ MaxTime \in Nat /\ MinRemaining \in Nat /\ MaxLifetime \in Nat
           /\ MaxOperations \in Nat
           /\ agent \in AgentType /\ agent.operation \in Nat /\ agent.ticket \in Nat
           /\ agent.counter \in Nat /\ agent.candidate \in Nat
           /\ \A k \in Keys : k \in Nat /\ k # 0
<1>1. agent \in AgentType
  BY DEF TypeOK, AgentType
<1>. QED
  BY <1>1, LifetimeAssumption, BoundsAssumption DEF TypeOK, AgentType

\* The types of a ticket's operation, key and expiry.
LEMMA TicketFacts ==
    ASSUME TypeOK
    PROVE  /\ Len(tickets) \in Nat /\ Len(tickets) <= MaxOperations
           /\ \A t \in 1..Len(tickets) :
                 /\ tickets[t].operation \in 1..MaxOperations
                 /\ tickets[t].key \in Keys /\ tickets[t].expires \in Nat
<1>1. tickets \in Seq(Ticket) /\ Len(tickets) <= MaxOperations
  BY DEF TypeOK
<1>2. Len(tickets) \in Nat /\ \A t \in 1..Len(tickets) : tickets[t] \in Ticket
  BY <1>1
<1>3. \A t \in Ticket : t.operation \in 1..MaxOperations /\ t.key \in Keys
                         /\ t.expires \in Nat
  BY DEF Ticket
<1>. QED
  BY <1>1, <1>2, <1>3

\* The invariant holds initially.
LEMMA InitInv == Init => IInv
<1>. SUFFICES ASSUME Init PROVE IInv
  OBVIOUS
<1>1. agent = [phase |-> "idle", key |-> 1, operation |-> 0, ticket |-> 0,
               counter |-> 0, candidate |-> 0]
      /\ network = {} /\ tickets = <<>> /\ challenges = {} /\ spent = {}
      /\ now = 0 /\ counter = 0 /\ registered = 0 /\ installed = 0
      /\ mailed = {} /\ activations = {}
  BY DEF Init
<1>2. TypeOK
  <2>1. agent \in AgentType
    BY <1>1, BoundsAssumption DEF AgentType, Phases
  <2>2. tickets \in Seq(Ticket) /\ Len(tickets) = 0
    BY <1>1
  <2>3. faults \in Environments /\ kind \in PublicKinds
    BY DEF Init
  <2>. QED
    BY <1>1, <2>1, <2>2, <2>3, LifetimeAssumption, BoundsAssumption DEF TypeOK, AgentType
<1>3. /\ AgentOK /\ NetworkOK /\ CounterNamesRequest
      /\ ChallengesMailed /\ RegistrationEarned /\ TicketIsOneShot
      /\ AgentInStep /\ DeviceKeyIsOurs
  BY <1>1 DEF AgentOK, NetworkOK, CounterNamesRequest, ChallengesMailed,
              RegistrationEarned, TicketIsOneShot, AgentInStep, DeviceKeyIsOurs
<1>4. OneKeyPerOperation /\ TicketsDiffer
  BY <1>1 DEF OneKeyPerOperation, TicketsDiffer
<1>. QED
  BY <1>2, <1>3, <1>4 DEF IInv

----------------------------------------------------------------------------
\* What the servers hold is not touched by a step of the agent.
LEMMA ServersFrame ==
    ASSUME IInv, UNCHANGED <<kind, tickets, challenges, spent, registered, mailed,
                             activations>>
    PROVE  (ChallengesMailed /\ RegistrationEarned /\ TicketIsOneShot)'
BY DEF IInv, ChallengesMailed, RegistrationEarned, TicketIsOneShot

\* Sending: the packet is new, and says what the agent holds.
LEMMA SendInv ==
    ASSUME IInv, NEW p,
           network' = network \cup {p}, counter' = counter + 1, counter < MaxPackets,
           p.key = agent.key, p.counter = counter + 1,
           UNCHANGED <<faults, kind, now, hub, cell, installed>>,
           agent' \in AgentType, agent'.key = agent.key, agent'.ticket = agent.ticket,
           agent'.counter = counter + 1,
           agent.candidate # 0 => agent'.candidate = agent.candidate,
           \/ agent'.operation = agent.operation
              /\ (agent'.phase = "asking" => agent.phase = "asking")
           \/ agent'.operation = agent.operation + 1
              /\ agent'.phase = "asking" /\ agent.ticket = 0,
           agent'.phase \in {"idle", "asking"} => agent.ticket = 0,
           agent'.phase \in {"assigned", "coded", "registering"} => agent.ticket # 0,
           agent'.phase \in {"active", "complete"} => agent.phase = "active",
           \/ p.type = "initial" /\ p.fields = agent'.operation /\ agent'.phase = "asking"
                /\ agent'.operation # 0
           \/ p.type = "otp" /\ kind = "account" /\ p.fields = agent.ticket
                /\ agent.ticket # 0
           \/ p.type = "reg" /\ p.fields.ticket = agent.ticket /\ agent.ticket # 0
           \/ p.type = "completion" /\ p.fields = agent'.candidate
                /\ agent'.candidate # 0
    PROVE  IInv'
<1>1. UNCHANGED <<faults, kind, now, tickets, challenges, spent, registered, mailed,
                  activations, installed>>
  BY DEF hub, cell
<1>2. /\ counter \in Nat /\ MaxPackets \in Nat /\ MaxOperations \in Nat
      /\ agent.operation \in Nat /\ agent.ticket \in Nat /\ agent.counter \in Nat
      /\ agent \in AgentType /\ Len(tickets) \in Nat
  BY Numbers, TicketFacts DEF IInv
<1>3. agent'.operation \in Nat /\ agent'.phase \in Phases /\ agent.key \in Keys
  BY <1>2 DEF AgentType
<1>4. agent.ticket <= Len(tickets) /\ agent.counter <= counter
  BY DEF IInv, AgentOK
<1>5. TypeOK'
  <2>1. counter' \in 0..MaxPackets
    BY <1>2
  <2>. QED
    BY <1>1, <2>1 DEF IInv, TypeOK, AgentType
<1>6. AgentOK'
  <2>1. agent'.phase = "asking" => agent'.operation # 0
    BY <1>2 DEF IInv, AgentOK
  <2>. QED
    BY <1>1, <1>2, <1>4, <2>1 DEF AgentOK
<1>7. NetworkOK'
  <2>. SUFFICES ASSUME NEW q \in network' PROVE PacketOK(q)'
    BY DEF NetworkOK
  <2>1. CASE q \in network
    <3>1. PacketOK(q)
      BY <2>1 DEF IInv, NetworkOK
    <3>. QED
      BY <1>1, <1>2, <1>3, <3>1 DEF PacketOK
  <2>2. CASE q = p
    BY <1>1, <1>2, <1>3, <1>4, <2>2 DEF PacketOK
  <2>. QED
    BY <2>1, <2>2
<1>8. \A q \in network : /\ q.type = "initial" => q.fields \in 1..agent.operation
                         /\ q.counter < counter + 1
  BY <1>2 DEF IInv, NetworkOK, PacketOK
<1>9. \A t \in 1..Len(tickets) : /\ tickets[t].operation \in Nat
                                 /\ tickets[t].operation <= agent.operation
  BY TicketFacts DEF IInv, TicketsDiffer
<1>10. OneKeyPerOperation'
  <2>1. CASE agent'.operation = agent.operation
             /\ (agent'.phase = "asking" => agent.phase = "asking")
    BY <1>1, <2>1 DEF IInv, OneKeyPerOperation
  <2>2. CASE agent'.operation = agent.operation + 1
    <3>1. \A q \in network : q.type = "initial" => q.fields # agent'.operation
      BY <1>2, <1>8, <2>2
    <3>2. \A t \in 1..Len(tickets) : tickets[t].operation # agent'.operation
      BY <1>2, <1>9, <2>2
    <3>. QED
      BY <1>1, <3>1, <3>2 DEF IInv, OneKeyPerOperation
  <2>. QED
    BY <2>1, <2>2
<1>11. TicketsDiffer'
  <2>1. \A t \in 1..Len(tickets) : tickets[t].operation <= agent'.operation
    BY <1>2, <1>3, <1>9
  <2>. QED
    BY <1>1, <2>1 DEF IInv, TicketsDiffer
<1>12. CounterNamesRequest'
  BY <1>1, <1>2, <1>8 DEF CounterNamesRequest
<1>13. AgentInStep'
  BY <1>1 DEF IInv, AgentInStep
<1>14. DeviceKeyIsOurs'
  <2>1. installed # 0 => installed = agent'.candidate
    BY DEF IInv, DeviceKeyIsOurs
  <2>2. \A q \in network' : q.type = "completed" => q.fields # "52303"
    BY DEF IInv, DeviceKeyIsOurs
  <2>. QED
    BY <1>1, <2>1, <2>2 DEF DeviceKeyIsOurs
<1>. QED
  BY <1>1, <1>5, <1>6, <1>7, <1>10, <1>11, <1>12, <1>13, <1>14, ServersFrame DEF IInv

\* Send as it is used: the packet, its fields, and the bound on counters.
LEMMA SendFacts ==
    ASSUME IInv, NEW type, NEW fields, NEW next \in AgentType, Send(type, fields, next)
    PROVE  \E p :
             /\ network' = network \cup {p} /\ p.type = type /\ p.fields = fields
             /\ p.key = agent.key /\ p.counter = counter + 1
             /\ counter' = counter + 1 /\ counter < MaxPackets
             /\ UNCHANGED <<faults, kind, now, hub, cell, installed>>
             /\ agent' = [next EXCEPT !.counter = counter + 1]
             /\ agent' \in AgentType
<1>1. counter \in Nat /\ counter < MaxPackets /\ MaxPackets \in Nat
  <2>1. counter < IF faults = {} THEN MaxPackets ELSE MaxFaulty
    BY DEF Send
  <2>2. counter \in Nat
    BY Numbers DEF IInv
  <2>. QED
    BY <2>1, <2>2, BoundsAssumption
<1>2. counter + 1 \in 0..MaxPackets
  BY <1>1
<1>3. agent' = [next EXCEPT !.counter = counter + 1]
  BY DEF Send, NextCounter
<1>4. agent' \in AgentType
  BY <1>2, <1>3 DEF AgentType
<1>5. PICK p : p = Packet(type, fields) /\ network' = network \cup {p}
  BY DEF Send
<1>6. p.type = type /\ p.fields = fields /\ p.key = agent.key /\ p.counter = counter + 1
  BY <1>5 DEF Packet, NextCounter
<1>7. counter' = counter + 1 /\ UNCHANGED <<faults, kind, now, hub, cell, installed>>
  BY DEF Send, NextCounter
<1>. QED
  BY <1>1, <1>3, <1>4, <1>5, <1>6, <1>7

\* A new operation: nothing speaks of it yet.
LEMMA BeginAssignmentInv == ASSUME IInv, BeginAssignment PROVE IInv'
<1>. DEFINE next == [agent EXCEPT !.phase = "asking", !.operation = @ + 1]
<1>1. /\ agent.phase = "idle" /\ agent.operation < MaxOperations
      /\ Send("initial", agent.operation + 1, next)
  BY DEF BeginAssignment
<1>2. agent \in AgentType /\ agent.operation \in Nat /\ MaxOperations \in Nat
  BY Numbers DEF IInv
<1>3. next \in AgentType
  <2>1. agent.operation + 1 \in 0..MaxOperations
    BY <1>1, <1>2
  <2>. QED
    BY <1>2, <2>1 DEF AgentType, Phases
<1>4. PICK p :
         /\ network' = network \cup {p} /\ p.type = "initial"
         /\ p.fields = agent.operation + 1
         /\ p.key = agent.key /\ p.counter = counter + 1
         /\ counter' = counter + 1 /\ counter < MaxPackets
         /\ UNCHANGED <<faults, kind, now, hub, cell, installed>>
         /\ agent' = [next EXCEPT !.counter = counter + 1]
         /\ agent' \in AgentType
  <2>. HIDE DEF next
  <2>. QED
    BY <1>1, <1>3, SendFacts
<1>5. /\ agent'.key = agent.key /\ agent'.ticket = agent.ticket
      /\ agent'.counter = counter + 1 /\ agent'.candidate = agent.candidate
      /\ agent'.phase = "asking" /\ agent'.operation = agent.operation + 1
      /\ agent'.operation # 0
  BY <1>2, <1>4 DEF AgentType
<1>6. agent.ticket = 0
  BY <1>1 DEF IInv, AgentOK
<1>. HIDE DEF next
<1>. QED
  BY <1>4, <1>5, <1>6, SendInv

\* A retry: a new counter under the nonce of the operation in progress.
LEMMA RetryAssignmentInv == ASSUME IInv, RetryAssignment PROVE IInv'
<1>1. agent.phase = "asking" /\ Send("initial", agent.operation, agent)
  BY DEF RetryAssignment, RetriedNonce
<1>2. agent \in AgentType
  BY Numbers DEF IInv
<1>3. PICK p :
         /\ network' = network \cup {p} /\ p.type = "initial" /\ p.fields = agent.operation
         /\ p.key = agent.key /\ p.counter = counter + 1
         /\ counter' = counter + 1 /\ counter < MaxPackets
         /\ UNCHANGED <<faults, kind, now, hub, cell, installed>>
         /\ agent' = [agent EXCEPT !.counter = counter + 1]
         /\ agent' \in AgentType
  BY <1>1, <1>2, SendFacts
<1>4. /\ agent'.key = agent.key /\ agent'.ticket = agent.ticket
      /\ agent'.counter = counter + 1 /\ agent'.candidate = agent.candidate
      /\ agent'.phase = "asking" /\ agent'.operation = agent.operation
  BY <1>1, <1>2, <1>3 DEF AgentType
<1>5. agent.ticket = 0 /\ agent.operation # 0
  BY <1>1 DEF IInv, AgentOK
<1>. QED
  BY <1>1, <1>3, <1>4, <1>5, SendInv

\* Asking for a code names the ticket the agent holds.
LEMMA RequestCodeInv == ASSUME IInv, RequestCode PROVE IInv'
<1>. DEFINE next == [agent EXCEPT !.phase = "coded"]
<1>1. /\ kind = "account" /\ agent.phase \in {"assigned", "coded"}
      /\ Send("otp", agent.ticket, next)
  BY DEF RequestCode
<1>2. agent \in AgentType
  BY Numbers DEF IInv
<1>3. next \in AgentType
  BY <1>2 DEF AgentType, Phases
<1>4. PICK p :
         /\ network' = network \cup {p} /\ p.type = "otp" /\ p.fields = agent.ticket
         /\ p.key = agent.key /\ p.counter = counter + 1
         /\ counter' = counter + 1 /\ counter < MaxPackets
         /\ UNCHANGED <<faults, kind, now, hub, cell, installed>>
         /\ agent' = [next EXCEPT !.counter = counter + 1]
         /\ agent' \in AgentType
  <2>. HIDE DEF next
  <2>. QED
    BY <1>1, <1>3, SendFacts
<1>5. /\ agent'.key = agent.key /\ agent'.ticket = agent.ticket
      /\ agent'.counter = counter + 1 /\ agent'.candidate = agent.candidate
      /\ agent'.phase = "coded" /\ agent'.operation = agent.operation
  BY <1>2, <1>4 DEF AgentType
<1>6. agent.ticket # 0
  BY <1>1 DEF IInv, AgentOK
<1>. HIDE DEF next
<1>. QED
  BY <1>1, <1>4, <1>5, <1>6, SendInv

\* A registration names the ticket, the key and the code the agent holds.
LEMMA RegisterInv == ASSUME IInv, Register PROVE IInv'
<1>. DEFINE next == [agent EXCEPT !.phase = "registering"]
<1>1. agent.phase \in {"assigned", "coded", "registering"}
  BY DEF Register
<1>2. PICK code \in Codes : Send("reg", [ticket |-> agent.ticket, code |-> code], next)
  BY DEF Register
<1>3. agent \in AgentType
  BY Numbers DEF IInv
<1>4. next \in AgentType
  BY <1>3 DEF AgentType, Phases
<1>5. PICK p :
         /\ network' = network \cup {p} /\ p.type = "reg"
         /\ p.fields = [ticket |-> agent.ticket, code |-> code]
         /\ p.key = agent.key /\ p.counter = counter + 1
         /\ counter' = counter + 1 /\ counter < MaxPackets
         /\ UNCHANGED <<faults, kind, now, hub, cell, installed>>
         /\ agent' = [next EXCEPT !.counter = counter + 1]
         /\ agent' \in AgentType
  <2>. HIDE DEF next
  <2>. QED
    BY <1>2, <1>4, SendFacts
<1>6. /\ agent'.key = agent.key /\ agent'.ticket = agent.ticket
      /\ agent'.counter = counter + 1 /\ agent'.candidate = agent.candidate
      /\ agent'.phase = "registering" /\ agent'.operation = agent.operation
  BY <1>3, <1>5 DEF AgentType
<1>7. agent.ticket # 0 /\ p.fields.ticket = agent.ticket
  BY <1>1, <1>5 DEF IInv, AgentOK
<1>. HIDE DEF next
<1>. QED
  BY <1>5, <1>6, <1>7, SendInv

\* A completion: the candidate is drawn once.
LEMMA CompleteInv == ASSUME IInv, Complete PROVE IInv'
<1>. DEFINE next == [agent EXCEPT !.candidate = Candidate]
<1>1. agent.phase = "active" /\ Send("completion", Candidate, next)
  BY DEF Complete
<1>2. agent \in AgentType /\ counter \in Nat /\ counter <= MaxPackets /\ MaxPackets \in Nat
  BY Numbers DEF IInv
<1>3. /\ Candidate \in 0..MaxPackets + 1 /\ Candidate # 0
      /\ agent.candidate # 0 => Candidate = agent.candidate
  BY <1>2 DEF Candidate, NextCounter, AgentType
<1>4. next \in AgentType
  BY <1>2, <1>3 DEF AgentType
<1>5. PICK p :
         /\ network' = network \cup {p} /\ p.type = "completion" /\ p.fields = Candidate
         /\ p.key = agent.key /\ p.counter = counter + 1
         /\ counter' = counter + 1 /\ counter < MaxPackets
         /\ UNCHANGED <<faults, kind, now, hub, cell, installed>>
         /\ agent' = [next EXCEPT !.counter = counter + 1]
         /\ agent' \in AgentType
  <2>. HIDE DEF next
  <2>. QED
    BY <1>1, <1>4, SendFacts
<1>6. /\ agent'.key = agent.key /\ agent'.ticket = agent.ticket
      /\ agent'.counter = counter + 1 /\ agent'.candidate = Candidate
      /\ agent'.phase = "active" /\ agent'.operation = agent.operation
  BY <1>1, <1>2, <1>5 DEF AgentType
<1>. HIDE DEF next
<1>. QED
  BY <1>1, <1>3, <1>5, <1>6, SendInv

----------------------------------------------------------------------------
\* What an agent does when it reads, gives up, restarts or takes another key.
LEMMA MoveInv ==
    ASSUME IInv, network' \subseteq network,
           UNCHANGED <<faults, kind, now, counter, hub, cell, installed>>,
           agent' \in AgentType, agent'.phase # "asking",
           agent'.operation = agent.operation, agent'.counter = agent.counter,
           agent'.candidate = agent.candidate,
           agent'.ticket <= Len(tickets),
           agent'.phase = "idle" => agent'.ticket = 0,
           agent'.phase \in {"assigned", "coded", "registering"} => agent'.ticket # 0,
           agent'.ticket # 0 => tickets[agent'.ticket].operation = agent.operation,
           agent'.phase \in {"active", "complete"} => registered = agent'.key
    PROVE  IInv'
<1>1. UNCHANGED <<faults, kind, now, counter, tickets, challenges, spent, registered,
                  mailed, activations, installed>>
  BY DEF hub, cell
<1>2. TypeOK'
  BY <1>1 DEF IInv, TypeOK, AgentType
<1>3. AgentOK'
  BY <1>1 DEF IInv, AgentOK
<1>4. NetworkOK'
  <2>. SUFFICES ASSUME NEW q \in network PROVE PacketOK(q)'
    BY DEF NetworkOK
  <2>. QED
    BY <1>1 DEF IInv, NetworkOK, PacketOK
<1>5. OneKeyPerOperation' /\ TicketsDiffer'
  BY <1>1 DEF IInv, OneKeyPerOperation, TicketsDiffer
<1>6. CounterNamesRequest' /\ AgentInStep'
  BY <1>1 DEF CounterNamesRequest, AgentInStep
<1>7. DeviceKeyIsOurs'
  BY <1>1 DEF IInv, DeviceKeyIsOurs
<1>. QED
  BY <1>1, <1>2, <1>3, <1>4, <1>5, <1>6, <1>7, ServersFrame DEF IInv

\* A result is read only under the counter of the last request: its ticket is of
\* this operation.
LEMMA ReadAssignmentInv == ASSUME IInv, ReadAssignment PROVE IInv'
<1>1. PICK p \in network :
         /\ agent.phase = "asking" /\ p.type = "assignment" /\ p.counter = agent.counter
         /\ network' = network \ {p}
         /\ agent' = [agent EXCEPT !.phase = "assigned", !.ticket = p.fields]
         /\ UNCHANGED <<faults, kind, now, counter, hub, cell, installed>>
  BY DEF ReadAssignment, Answers, Read
<1>2. /\ agent \in AgentType /\ MaxOperations \in Nat
      /\ Len(tickets) \in Nat /\ Len(tickets) <= MaxOperations
  BY Numbers, TicketFacts DEF IInv
<1>3. /\ p.fields \in 1..Len(tickets)
      /\ tickets[p.fields].operation = agent.operation
  BY <1>1 DEF IInv, NetworkOK, PacketOK, CounterNamesRequest
<1>4. p.fields \in 0..MaxOperations /\ p.fields # 0 /\ p.fields <= Len(tickets)
  BY <1>2, <1>3
<1>5. agent' \in AgentType
  BY <1>1, <1>2, <1>4 DEF AgentType, Phases
<1>6. /\ agent'.phase = "assigned" /\ agent'.ticket = p.fields
      /\ agent'.operation = agent.operation /\ agent'.counter = agent.counter
      /\ agent'.candidate = agent.candidate
  BY <1>1, <1>2 DEF AgentType
<1>. QED
  BY <1>1, <1>3, <1>4, <1>5, <1>6, MoveInv

\* An agent that is idle again has no ticket.
LEMMA BackToIdle ==
    ASSUME IInv, network' \subseteq network, agent' = Idle(agent),
           UNCHANGED <<faults, kind, now, counter, hub, cell, installed>>
    PROVE  IInv'
<1>1. agent \in AgentType /\ MaxOperations \in Nat /\ Len(tickets) \in Nat
  BY Numbers, TicketFacts DEF IInv
<1>2. agent' \in AgentType
  <2>1. 0 \in 0..MaxOperations /\ "idle" \in Phases
    BY <1>1 DEF Phases
  <2>2. \A a \in AgentType : Idle(a) \in AgentType
    BY <2>1 DEF Idle, AgentType
  <2>. QED
    BY <1>1, <2>2
<1>3. /\ agent'.phase = "idle" /\ agent'.ticket = 0
      /\ agent'.operation = agent.operation /\ agent'.counter = agent.counter
      /\ agent'.candidate = agent.candidate
  BY <1>1 DEF Idle, AgentType
<1>4. agent'.ticket <= Len(tickets)
  BY <1>1, <1>3
<1>. QED
  BY <1>2, <1>3, <1>4, MoveInv

\* An agent that only changes its phase, to one with or after a registration.
LEMMA ToPhase ==
    ASSUME IInv, NEW phase \in {"active", "complete", "stopped"},
           network' \subseteq network, agent' = [agent EXCEPT !.phase = phase],
           UNCHANGED <<faults, kind, now, counter, hub, cell, installed>>,
           phase # "stopped" => registered = agent.key
    PROVE  IInv'
<1>1. agent \in AgentType
  BY Numbers DEF IInv
<1>2. agent' \in AgentType
  BY <1>1 DEF AgentType, Phases
<1>3. /\ agent'.phase = phase /\ agent'.ticket = agent.ticket /\ agent'.key = agent.key
      /\ agent'.operation = agent.operation /\ agent'.counter = agent.counter
      /\ agent'.candidate = agent.candidate
  BY <1>1 DEF AgentType
<1>4. /\ agent.ticket <= Len(tickets)
      /\ agent.ticket # 0 => tickets[agent.ticket].operation = agent.operation
  BY DEF IInv, AgentOK, AgentInStep
<1>. QED
  BY <1>2, <1>3, <1>4, MoveInv

\* A RAK that answers the last REG says that the agent's own key was enrolled.
LEMMA ReadRegistrationInv == ASSUME IInv, ReadRegistration PROVE IInv'
<1>1. PICK p \in network :
         /\ p.type = "rak" /\ p.key = agent.key
         /\ network' = network \ {p}
         /\ agent' = CASE p.fields = "0" -> [agent EXCEPT !.phase = "active"]
                        [] p.fields = "52103" -> [agent EXCEPT !.phase = "stopped"]
                        [] OTHER -> Idle(agent)
         /\ UNCHANGED <<faults, kind, now, counter, hub, cell, installed>>
  BY DEF ReadRegistration, Answers, Read
<1>2. CASE p.fields = "0"
  <2>1. registered = agent.key
    BY <1>1, <1>2 DEF IInv, NetworkOK, PacketOK
  <2>2. agent' = [agent EXCEPT !.phase = "active"]
    BY <1>1, <1>2
  <2>. QED
    BY <1>1, <2>1, <2>2, ToPhase
<1>3. CASE p.fields = "52103"
  <2>1. agent' = [agent EXCEPT !.phase = "stopped"]
    BY <1>1, <1>3
  <2>. QED
    BY <1>1, <2>1, ToPhase
<1>4. CASE p.fields # "0" /\ p.fields # "52103"
  <2>1. agent' = Idle(agent)
    BY <1>1, <1>4
  <2>. QED
    BY <1>1, <2>1, BackToIdle
<1>. QED
  BY <1>2, <1>3, <1>4

\* The answer to the last completion ends the enrollment.
LEMMA ReadCompletionInv == ASSUME IInv, ReadCompletion PROVE IInv'
<1>1. PICK p \in network :
         /\ agent.phase = "active" /\ network' = network \ {p}
         /\ agent' = [agent EXCEPT !.phase = IF p.fields = "0" THEN "complete"
                                             ELSE "stopped"]
         /\ UNCHANGED <<faults, kind, now, counter, hub, cell, installed>>
  BY DEF ReadCompletion, Read
<1>2. registered = agent.key
  BY <1>1 DEF IInv, AgentInStep
<1>. QED
  BY <1>1, <1>2, ToPhase

\* An agent that gives up or restarts asks for an assignment again.
LEMMA GiveUpInv == ASSUME IInv, Abandon \/ Restart PROVE IInv'
<1>1. /\ agent' = Idle(agent) /\ UNCHANGED network
      /\ UNCHANGED <<faults, kind, now, counter, hub, cell, installed>>
  BY DEF Abandon, Restart
<1>. QED
  BY <1>1, BackToIdle

\* Another key is only taken while no assignment is asked for.
LEMMA RekeyInv == ASSUME IInv, Rekey PROVE IInv'
<1>1. /\ agent.phase \in {"idle", "assigned", "coded", "registering"}
      /\ agent.key + 1 \in Keys
      /\ agent' = [agent EXCEPT !.key = @ + 1] /\ UNCHANGED network
      /\ UNCHANGED <<faults, kind, now, counter, hub, cell, installed>>
  BY DEF Rekey
<1>2. agent \in AgentType
  BY Numbers DEF IInv
<1>3. agent' \in AgentType
  BY <1>1, <1>2 DEF AgentType
<1>4. /\ agent'.phase = agent.phase /\ agent'.ticket = agent.ticket
      /\ agent'.operation = agent.operation /\ agent'.counter = agent.counter
      /\ agent'.candidate = agent.candidate
  BY <1>1, <1>2 DEF AgentType
<1>5. /\ agent.ticket <= Len(tickets)
      /\ agent.phase = "idle" => agent.ticket = 0
      /\ agent.phase \in {"assigned", "coded", "registering"} => agent.ticket # 0
      /\ agent.ticket # 0 => tickets[agent.ticket].operation = agent.operation
  BY DEF IInv, AgentOK, AgentInStep
<1>. QED
  BY <1>1, <1>3, <1>4, <1>5, MoveInv

\* Time passes: nothing that was earned is lost by it.
LEMMA TickInv == ASSUME IInv, Tick PROVE IInv'
<1>1. /\ now' = now + 1 /\ now < MaxTime
      /\ UNCHANGED <<faults, kind, agent, network, counter, tickets, challenges, spent,
                     registered, mailed, activations, installed>>
  BY DEF Tick, hub, cell
<1>2. now \in Nat /\ MaxTime \in Nat
  BY Numbers DEF IInv
<1>3. TypeOK'
  <2>1. now' \in 0..MaxTime
    BY <1>1, <1>2
  <2>2. \A m \in mailed : m.ticket \in 1..Len(tickets) /\ m.at \in 0..now'
    BY <1>1, <1>2 DEF IInv, TypeOK
  <2>. QED
    BY <1>1, <2>1, <2>2 DEF IInv, TypeOK
<1>4. (AgentOK /\ CounterNamesRequest /\ AgentInStep /\ DeviceKeyIsOurs)'
  BY <1>1 DEF IInv, AgentOK, CounterNamesRequest, AgentInStep, DeviceKeyIsOurs
<1>5. NetworkOK'
  BY <1>1 DEF IInv, NetworkOK, PacketOK
<1>6. (OneKeyPerOperation /\ TicketsDiffer)'
  BY <1>1 DEF IInv, OneKeyPerOperation, TicketsDiffer
<1>. QED
  BY <1>1, <1>3, <1>4, <1>5, <1>6, ServersFrame DEF IInv

----------------------------------------------------------------------------
\* A reply takes the place of the request it answers, under its key and counter.
LEMMA ReplyFacts ==
    ASSUME NEW request, NEW type, NEW fields, Reply(request, type, fields)
    PROVE  \E r : /\ network' = (network \ {request}) \cup {r}
                  /\ r.type = type /\ r.fields = fields
                  /\ r.key = request.key /\ r.counter = request.counter
<1>1. PICK r : r = [type |-> type, key |-> request.key, counter |-> request.counter,
                    fields |-> fields]
  OBVIOUS
<1>2. network' = (network \ {request}) \cup {r}
  BY <1>1 DEF Reply
<1>3. /\ r.type = type /\ r.fields = fields
      /\ r.key = request.key /\ r.counter = request.counter
  BY <1>1
<1>. QED
  BY <1>2, <1>3

\* An answer to an assignment request, with a ticket of its operation and key.
LEMMA AnswerInv ==
    ASSUME IInv, TypeOK', TicketsDiffer', NEW p \in network, NEW r,
           p.type = "initial", network' = (network \ {p}) \cup {r},
           r.type = "assignment", r.key = p.key, r.counter = p.counter,
           r.fields \in 1..Len(tickets'), tickets'[r.fields].operation = p.fields,
           Len(tickets) <= Len(tickets'), Len(tickets') \in Nat,
           \A t \in 1..Len(tickets) : tickets'[t] = tickets[t],
           \A t \in 1..Len(tickets') :
              t \in 1..Len(tickets)
                \/ (tickets'[t].operation = p.fields /\ tickets'[t].key = p.key),
           UNCHANGED <<kind, agent, counter, cell, installed>>
    PROVE  IInv'
<1>1. UNCHANGED <<kind, agent, counter, challenges, spent, registered, mailed,
                  activations, installed>>
  BY DEF cell
<1>2. /\ Len(tickets) \in Nat /\ agent.ticket \in Nat
      /\ 1..Len(tickets) \subseteq 1..Len(tickets')
  BY Numbers, TicketFacts DEF IInv
<1>3. AgentOK'
  BY <1>1, <1>2 DEF IInv, AgentOK
<1>4. NetworkOK'
  <2>. SUFFICES ASSUME NEW q \in network' PROVE PacketOK(q)'
    BY DEF NetworkOK
  <2>1. CASE q \in network
    BY <1>1, <1>2, <2>1 DEF IInv, NetworkOK, PacketOK
  <2>2. CASE q = r
    BY <1>1, <2>2 DEF IInv, NetworkOK, PacketOK
  <2>. QED
    BY <2>1, <2>2
<1>5. OneKeyPerOperation'
  <2>1. \A q \in network' : q.type = "initial" => q \in network
    OBVIOUS
  <2>2. \A q \in network : q.type = "initial" /\ q.fields = p.fields => q.key = p.key
    BY DEF IInv, OneKeyPerOperation
  <2>3. agent.phase = "asking" /\ p.fields = agent.operation => p.key = agent.key
    BY DEF IInv, OneKeyPerOperation
  <2>4. \A q \in network', t \in 1..Len(tickets') :
           q.type = "initial" /\ tickets'[t].operation = q.fields
             => tickets'[t].key = q.key
    BY <2>1, <2>2 DEF IInv, OneKeyPerOperation
  <2>5. agent.phase = "asking" =>
           \A t \in 1..Len(tickets') :
              tickets'[t].operation = agent.operation => tickets'[t].key = agent.key
    BY <2>3 DEF IInv, OneKeyPerOperation
  <2>6. /\ \A q, u \in network' :
              q.type = "initial" /\ u.type = "initial" /\ q.fields = u.fields
                => q.key = u.key
        /\ agent.phase = "asking" =>
              \A q \in network' :
                 q.type = "initial" /\ q.fields = agent.operation => q.key = agent.key
    BY <2>1 DEF IInv, OneKeyPerOperation
  <2>. QED
    BY <1>1, <2>4, <2>5, <2>6 DEF OneKeyPerOperation
<1>6. CounterNamesRequest'
  <2>. SUFFICES ASSUME agent.phase = "asking", NEW q \in network',
                       q.counter = agent.counter
                PROVE  /\ q.type = "initial" => q.fields = agent.operation
                       /\ q.type = "assignment" =>
                             tickets'[q.fields].operation = agent.operation
    BY <1>1 DEF CounterNamesRequest
  <2>1. CASE q \in network
    <3>1. q.type = "assignment" => q.fields \in 1..Len(tickets)
      BY <2>1 DEF IInv, NetworkOK, PacketOK
    <3>. QED
      BY <2>1, <3>1 DEF IInv, CounterNamesRequest
  <2>2. CASE q = r
    <3>1. p.fields = agent.operation
      BY <2>2 DEF IInv, CounterNamesRequest
    <3>. QED
      BY <2>2, <3>1
  <2>. QED
    BY <2>1, <2>2
<1>7. ChallengesMailed'
  <2>. SUFFICES ASSUME NEW c \in challenges
                PROVE  \E m \in mailed :
                          /\ m.ticket = c.ticket /\ m.key = c.key /\ m.code = c.code
                          /\ m.at + MinRemaining <= tickets'[m.ticket].expires
    BY <1>1 DEF ChallengesMailed
  <2>1. PICK m \in mailed : /\ m.ticket = c.ticket /\ m.key = c.key /\ m.code = c.code
                            /\ m.at + MinRemaining <= tickets[m.ticket].expires
    BY DEF IInv, ChallengesMailed
  <2>2. tickets'[m.ticket] = tickets[m.ticket]
    BY DEF IInv, TypeOK
  <2>. QED
    BY <2>1, <2>2
<1>8. RegistrationEarned'
  <2>1. \A x \in activations : tickets'[x.ticket] = tickets[x.ticket]
    BY DEF IInv, TypeOK
  <2>2. \A m \in mailed : tickets'[m.ticket] = tickets[m.ticket]
    BY DEF IInv, TypeOK
  <2>. QED
    BY <1>1, <2>1, <2>2 DEF IInv, RegistrationEarned
<1>9. TicketIsOneShot' /\ DeviceKeyIsOurs'
  BY <1>1 DEF IInv, TicketIsOneShot, DeviceKeyIsOurs
<1>10. AgentInStep'
  <2>1. agent.ticket # 0 => agent.ticket \in 1..Len(tickets)
    BY <1>2 DEF IInv, AgentOK
  <2>. QED
    BY <1>1, <2>1 DEF IInv, AgentInStep
<1>. QED
  BY <1>3, <1>4, <1>5, <1>6, <1>7, <1>8, <1>9, <1>10 DEF IInv

\* The Hub: the one ticket of a nonce, whether issued now or before.
LEMMA AssignInv == ASSUME IInv, NEW p \in network, Assign(p) PROVE IInv'
<1>1. p.type = "initial" /\ UNCHANGED <<faults, kind, now, agent, counter, cell, installed>>
  BY DEF Assign
<1>2. UNCHANGED <<challenges, spent, registered, mailed, activations>>
  BY <1>1 DEF cell
<1>3. /\ Len(tickets) \in Nat /\ MaxOperations \in Nat /\ agent.operation \in Nat
      /\ agent.operation <= MaxOperations
      /\ now \in Nat /\ MaxLifetime \in Nat /\ tickets \in Seq(Ticket)
  BY Numbers, TicketFacts DEF IInv, TypeOK, AgentType
<1>4. p.fields \in 1..agent.operation /\ p.key \in Keys
  BY <1>1 DEF IInv, NetworkOK, PacketOK
<1>5. CASE /\ Issued(p.fields, p.key) = {} /\ Len(tickets) < MaxOperations
           /\ tickets' = Append(tickets, [operation |-> p.fields, key |-> p.key,
                                          expires |-> now + MaxLifetime])
           /\ Reply(p, "assignment", Len(tickets) + 1)
  <2>1. PICK r : /\ network' = (network \ {p}) \cup {r}
                 /\ r.type = "assignment" /\ r.fields = Len(tickets) + 1
                 /\ r.key = p.key /\ r.counter = p.counter
    BY <1>5, ReplyFacts
  <2>2. PICK ticket : /\ ticket = [operation |-> p.fields, key |-> p.key,
                                   expires |-> now + MaxLifetime]
                      /\ tickets' = Append(tickets, ticket)
    BY <1>5
  <2>3. ticket \in Ticket /\ ticket.operation = p.fields /\ ticket.key = p.key
    <3>1. p.fields \in 1..MaxOperations /\ now + MaxLifetime \in Nat
      BY <1>3, <1>4
    <3>. QED
      BY <1>4, <2>2, <3>1 DEF Ticket
  <2>. DEFINE n == Len(tickets) + 1
  <2>4. /\ tickets' \in Seq(Ticket) /\ Len(tickets') = n /\ tickets'[n] = ticket
        /\ \A t \in 1..Len(tickets) : tickets'[t] = tickets[t]
    BY <1>3, <2>2, <2>3
  <2>5. n \in 1..n /\ \A t \in 1..n : t \in 1..Len(tickets) \/ t = n
    BY <1>3
  <2>6. TypeOK'
    <3>1. spent \subseteq 1..n
      BY <1>3 DEF IInv, TypeOK
    <3>2. \A m \in mailed : m.ticket \in 1..n /\ m.at \in 0..now
      BY <1>3 DEF IInv, TypeOK
    <3>3. Len(tickets') <= MaxOperations
      BY <1>3, <1>5, <2>4
    <3>. QED
      BY <1>1, <1>2, <2>4, <3>1, <3>2, <3>3 DEF IInv, TypeOK
  <2>7. TicketsDiffer'
    <3>1. \A t \in 1..Len(tickets) : tickets[t].operation # p.fields
      BY <1>1, <1>5 DEF IInv, OneKeyPerOperation, Issued
    <3>2. \A t \in 1..n : tickets'[t].operation <= agent.operation
      BY <1>3, <1>4, <2>3, <2>4, <2>5 DEF IInv, TicketsDiffer
    <3>3. \A s, t \in 1..n : tickets'[s].operation = tickets'[t].operation => s = t
      <4>. HIDE DEF n
      <4>. QED
        BY <2>3, <2>4, <2>5, <3>1 DEF IInv, TicketsDiffer
    <3>. QED
      BY <1>1, <2>4, <3>2, <3>3 DEF TicketsDiffer
  <2>8. /\ r.fields \in 1..Len(tickets') /\ tickets'[r.fields].operation = p.fields
        /\ Len(tickets) <= Len(tickets') /\ Len(tickets') \in Nat
        /\ \A t \in 1..Len(tickets') :
              t \in 1..Len(tickets)
                \/ (tickets'[t].operation = p.fields /\ tickets'[t].key = p.key)
    BY <1>3, <2>1, <2>3, <2>4, <2>5
  <2>. QED
    BY <1>1, <2>1, <2>4, <2>6, <2>7, <2>8, AnswerInv
<1>6. CASE (\E t \in Issued(p.fields, p.key) : Reply(p, "assignment", t))
           /\ UNCHANGED tickets
  <2>1. PICK t \in Issued(p.fields, p.key) : Reply(p, "assignment", t)
    BY <1>6
  <2>2. PICK r : /\ network' = (network \ {p}) \cup {r}
                 /\ r.type = "assignment" /\ r.fields = t
                 /\ r.key = p.key /\ r.counter = p.counter
    BY <2>1, ReplyFacts
  <2>3. t \in 1..Len(tickets) /\ tickets[t].operation = p.fields
    BY DEF Issued
  <2>4. TypeOK' /\ TicketsDiffer'
    BY <1>1, <1>2, <1>6 DEF IInv, TypeOK, TicketsDiffer
  <2>. QED
    BY <1>1, <1>3, <1>6, <2>2, <2>3, <2>4, AnswerInv
<1>. QED
  BY <1>5, <1>6 DEF Assign

----------------------------------------------------------------------------
\* The assigned cell sends nothing that speaks of operations.
LEMMA CellFrame ==
    ASSUME IInv, UNCHANGED <<agent, counter, tickets>>,
           \A q \in network' : q \in network \/ q.type \in {"rak", "completed"}
    PROVE  (AgentOK /\ OneKeyPerOperation /\ TicketsDiffer /\ CounterNamesRequest)'
<1>1. \A q \in network' : q.type \in {"initial", "assignment"} => q \in network
  OBVIOUS
<1>2. (AgentOK /\ TicketsDiffer)'
  BY DEF IInv, AgentOK, TicketsDiffer
<1>3. OneKeyPerOperation'
  BY <1>1 DEF IInv, OneKeyPerOperation
<1>4. CounterNamesRequest'
  BY <1>1 DEF IInv, CounterNamesRequest
<1>. QED
  BY <1>2, <1>3, <1>4

\* A mailed code is for the key of the ticket, in time.
LEMMA DispatchInv == ASSUME IInv, NEW p \in network, Dispatch(p) PROVE IInv'
<1>1. /\ p.type = "otp" /\ network' = network \ {p}
      /\ UNCHANGED <<faults, kind, now, agent, counter, tickets, spent, registered,
                     activations, installed>>
  BY DEF Dispatch, hub
<1>2. kind = "account" /\ p.fields \in 1..Len(tickets) /\ p.key \in Keys
      /\ p.counter \in Nat
  <2>1. counter \in Nat
    BY Numbers DEF IInv
  <2>. QED
    BY <1>1, <2>1 DEF IInv, NetworkOK, PacketOK
<1>3. (AgentOK /\ OneKeyPerOperation /\ TicketsDiffer /\ CounterNamesRequest)'
  BY <1>1, CellFrame
<1>4. NetworkOK'
  BY <1>1 DEF IInv, NetworkOK, PacketOK
<1>5. (TicketIsOneShot /\ AgentInStep /\ DeviceKeyIsOurs)'
  BY <1>1 DEF IInv, TicketIsOneShot, AgentInStep, DeviceKeyIsOurs
<1>6. (TypeOK /\ ChallengesMailed /\ RegistrationEarned)'
  <2>1. CASE UNCHANGED <<challenges, mailed>>
    BY <1>1, <2>1 DEF IInv, TypeOK, ChallengesMailed, RegistrationEarned
  <2>2. CASE Dispatchable(p, tickets[p.fields]) /\ ~UNCHANGED <<challenges, mailed>>
    <3>1. PICK c, m :
             /\ c = [ticket |-> p.fields, key |-> p.key, code |-> p.counter]
             /\ m = [ticket |-> p.fields, key |-> p.key, code |-> p.counter, at |-> now]
      OBVIOUS
    <3>2. challenges' = Store(c) /\ mailed' = mailed \cup {m}
      BY <2>2, <3>1 DEF Dispatch
    <3>3. /\ c.ticket = p.fields /\ m.ticket = c.ticket /\ m.key = c.key /\ m.code = c.code
          /\ m.at = now
      BY <3>1
    <3>4. now \in Nat /\ MaxOperations \in Nat /\ Len(tickets) \in Nat
          /\ Len(tickets) <= MaxOperations
      BY Numbers, TicketFacts DEF IInv
    <3>5. m.at + MinRemaining <= tickets[m.ticket].expires
      BY <2>2, <3>3 DEF Dispatchable
    <3>6. TypeOK'
      <4>1. c \in Challenge
        BY <1>2, <3>1, <3>4 DEF Challenge
      <4>2. challenges' \subseteq Challenge
        BY <3>2, <4>1 DEF IInv, TypeOK, Store
      <4>3. \A d, e \in challenges' : d.ticket = e.ticket => d = e
        BY <3>2 DEF IInv, TypeOK, Store
      <4>4. \A k \in mailed' : k.ticket \in 1..Len(tickets) /\ k.at \in 0..now
        BY <1>2, <3>2, <3>3, <3>4 DEF IInv, TypeOK
      <4>. QED
        BY <1>1, <4>2, <4>3, <4>4 DEF IInv, TypeOK
    <3>7. ChallengesMailed'
      <4>. SUFFICES ASSUME NEW d \in challenges'
                    PROVE  \E k \in mailed' :
                              /\ k.ticket = d.ticket /\ k.key = d.key /\ k.code = d.code
                              /\ k.at + MinRemaining <= tickets[k.ticket].expires
        BY <1>1 DEF ChallengesMailed
      <4>1. CASE d = c
        BY <3>2, <3>3, <3>5, <4>1
      <4>2. CASE d \in challenges
        BY <3>2, <4>2 DEF IInv, ChallengesMailed
      <4>. QED
        BY <3>2, <4>1, <4>2 DEF Store
    <3>8. RegistrationEarned'
      <4>1. mailed \subseteq mailed'
        BY <3>2
      <4>. QED
        BY <1>1, <1>2, <4>1 DEF IInv, RegistrationEarned
    <3>. QED
      BY <3>6, <3>7, <3>8
  <2>. QED
    BY <2>1, <2>2 DEF Dispatch
<1>. QED
  BY <1>3, <1>4, <1>5, <1>6 DEF IInv

\* An activation: nothing refuses it, so its ticket is fresh and its key and code are
\* those of the ticket.
LEMMA ActivateInv == ASSUME IInv, NEW p \in network, Activate(p) PROVE IInv'
<1>. DEFINE t == p.fields.ticket
<1>1. /\ p.type = "reg"
      /\ UNCHANGED <<faults, kind, now, agent, counter, tickets, mailed, installed>>
  BY DEF Activate, hub
<1>2. t \in 1..Len(tickets) /\ p.key \in Keys /\ p.counter \in 1..counter
  BY <1>1 DEF IInv, NetworkOK, PacketOK
<1>3. CASE Refusals(p) # {}
  <2>1. PICK code \in Refusals(p) : Reply(p, "rak", code)
    BY <1>3 DEF Activate
  <2>2. UNCHANGED <<spent, registered, activations, challenges>>
    BY <1>3 DEF Activate
  <2>3. code # "0"
    BY DEF Refusals
  <2>4. PICK r : /\ network' = (network \ {p}) \cup {r}
                 /\ r.type = "rak" /\ r.fields = code
                 /\ r.key = p.key /\ r.counter = p.counter
    BY <2>1, ReplyFacts
  <2>5. NetworkOK'
    BY <1>1, <1>2, <2>2, <2>3, <2>4 DEF IInv, NetworkOK, PacketOK
  <2>6. (AgentOK /\ OneKeyPerOperation /\ TicketsDiffer /\ CounterNamesRequest)'
    BY <1>1, <2>4, CellFrame
  <2>7. (AgentInStep /\ DeviceKeyIsOurs)'
    BY <1>1, <2>2, <2>4 DEF IInv, AgentInStep, DeviceKeyIsOurs
  <2>8. TypeOK'
    BY <1>1, <2>2 DEF IInv, TypeOK
  <2>. QED
    BY <1>1, <2>2, <2>5, <2>6, <2>7, <2>8, ServersFrame DEF IInv
<1>4. CASE Refusals(p) = {}
  <2>1. /\ spent' = spent \cup {t} /\ registered' = p.key
        /\ challenges' = {c \in challenges : c.ticket # t}
        /\ Reply(p, "rak", "0")
    BY <1>4 DEF Activate, Spend
  <2>2. PICK x : /\ activations' = activations \cup {x}
                 /\ x.ticket = t /\ x.key = p.key /\ x.code = p.fields.code
    <3>1. PICK x : x = [ticket |-> p.fields.ticket, key |-> p.key,
                        code |-> p.fields.code, counter |-> p.counter]
      OBVIOUS
    <3>2. activations' = activations \cup {x}
      BY <1>4, <3>1 DEF Activate
    <3>. QED
      BY <3>1, <3>2
  <2>3. /\ p.key = tickets[t].key /\ t \notin spent
        /\ kind = "account" => Challenged(p)
        /\ registered \in {0, p.key}
    BY <1>4 DEF Refusals, EnrolledElsewhere
  <2>4. PICK r : /\ network' = (network \ {p}) \cup {r}
                 /\ r.type = "rak" /\ r.fields = "0"
                 /\ r.key = p.key /\ r.counter = p.counter
    BY <2>1, ReplyFacts
  <2>5. \A k \in Keys : k # 0
    BY Numbers DEF IInv
  <2>6. TypeOK'
    <3>1. spent' \subseteq 1..Len(tickets)
      BY <1>2, <2>1 DEF IInv, TypeOK
    <3>2. /\ challenges' \subseteq Challenge
          /\ \A c, d \in challenges' : c.ticket = d.ticket => c = d
      BY <2>1 DEF IInv, TypeOK
    <3>3. \A y \in activations' : y.ticket \in spent'
      BY <2>1, <2>2 DEF IInv, TypeOK
    <3>. QED
      BY <1>1, <1>2, <2>1, <3>1, <3>2, <3>3 DEF IInv, TypeOK
  <2>7. NetworkOK'
    <3>. SUFFICES ASSUME NEW q \in network' PROVE PacketOK(q)'
      BY DEF NetworkOK
    <3>1. CASE q = r
      BY <1>1, <1>2, <2>1, <2>4, <3>1 DEF PacketOK
    <3>2. CASE q \in network
      <4>1. q.type = "rak" /\ q.fields = "0" => q.key = p.key
        BY <2>3, <2>5, <3>2 DEF IInv, NetworkOK, PacketOK
      <4>. QED
        BY <1>1, <2>1, <3>2, <4>1 DEF IInv, NetworkOK, PacketOK
    <3>. QED
      BY <2>4, <3>1, <3>2
  <2>8. (AgentOK /\ OneKeyPerOperation /\ TicketsDiffer /\ CounterNamesRequest)'
    BY <1>1, <2>4, CellFrame
  <2>9. ChallengesMailed'
    BY <1>1, <2>1 DEF IInv, ChallengesMailed
  <2>10. RegistrationEarned'
    <3>1. kind = "account" =>
             \E m \in mailed :
                /\ m.ticket = t /\ m.key = p.key /\ m.code = p.fields.code
                /\ m.at + MinRemaining <= tickets[t].expires
      BY <2>3 DEF IInv, ChallengesMailed, Challenged
    <3>2. \A y \in activations' : y \in activations \/ y = x
      BY <2>2
    <3>. HIDE DEF t
    <3>. QED
      BY <1>1, <2>2, <2>3, <3>1, <3>2 DEF IInv, RegistrationEarned
  <2>11. TicketIsOneShot'
    <3>1. \A y \in activations : y.ticket # t
      BY <2>3 DEF IInv, TypeOK
    <3>. HIDE DEF t
    <3>. QED
      BY <2>2, <3>1 DEF IInv, TicketIsOneShot
  <2>12. AgentInStep'
    <3>1. agent.phase \in {"active", "complete"} => p.key = agent.key
      <4>1. agent.key \in Keys
        BY Numbers DEF IInv, AgentType
      <4>. QED
        BY <2>3, <2>5, <4>1 DEF IInv, AgentInStep
    <3>. QED
      BY <1>1, <2>1, <3>1 DEF IInv, AgentInStep
  <2>13. DeviceKeyIsOurs'
    BY <1>1, <2>4 DEF IInv, DeviceKeyIsOurs
  <2>. QED
    BY <2>6, <2>7, <2>8, <2>9, <2>10, <2>11, <2>12, <2>13 DEF IInv
<1>. QED
  BY <1>3, <1>4

\* An installation: every completion carries the one candidate.
LEMMA InstallInv == ASSUME IInv, NEW p \in network, Install(p) PROVE IInv'
<1>1. /\ p.type = "completion"
      /\ UNCHANGED <<faults, kind, now, agent, counter, tickets, challenges, spent,
                     registered, mailed, activations>>
  BY DEF Install, hub, cell
<1>2. /\ p.fields = agent.candidate /\ agent.candidate # 0
      /\ p.key \in Keys /\ p.counter \in 1..counter
  BY <1>1 DEF IInv, NetworkOK, PacketOK
<1>3. ~Conflicts(p)
  BY <1>2 DEF IInv, DeviceKeyIsOurs, Conflicts
<1>4. \E code \in {"0", "52301"} : Reply(p, "completed", code)
  BY <1>3 DEF Install
<1>5. installed' \in {installed, agent.candidate}
  BY <1>2, <1>3 DEF Install
<1>6. PICK r : /\ network' = (network \ {p}) \cup {r}
               /\ r.type = "completed" /\ r.fields \in {"0", "52301"}
               /\ r.key = p.key /\ r.counter = p.counter
  <2>1. PICK code \in {"0", "52301"} : Reply(p, "completed", code)
    BY <1>4
  <2>. QED
    BY <2>1, ReplyFacts
<1>7. TypeOK'
  <2>1. agent.candidate \in 0..MaxPackets + 1
    BY Numbers DEF IInv, AgentType
  <2>. QED
    BY <1>1, <1>5, <2>1 DEF IInv, TypeOK
<1>8. NetworkOK'
  BY <1>1, <1>2, <1>6 DEF IInv, NetworkOK, PacketOK
<1>9. (AgentOK /\ OneKeyPerOperation /\ TicketsDiffer /\ CounterNamesRequest)'
  BY <1>1, <1>6, CellFrame
<1>10. AgentInStep'
  BY <1>1 DEF IInv, AgentInStep
<1>11. DeviceKeyIsOurs'
  BY <1>1, <1>5, <1>6 DEF IInv, DeviceKeyIsOurs
<1>. QED
  BY <1>1, <1>7, <1>8, <1>9, <1>10, <1>11, ServersFrame DEF IInv

\* Every step keeps the invariant.
LEMMA StepInv == IInv /\ [Next]_vars => IInv'
<1>. SUFFICES ASSUME IInv, [Next]_vars PROVE IInv'
  OBVIOUS
<1>1. CASE Tick
  BY <1>1, TickInv
<1>2. CASE AgentNext
  BY <1>2, BeginAssignmentInv, RetryAssignmentInv, ReadAssignmentInv, RequestCodeInv,
     RegisterInv, ReadRegistrationInv, GiveUpInv, CompleteInv, ReadCompletionInv,
     RekeyInv DEF AgentNext
<1>3. CASE ServerNext
  BY <1>3, AssignInv, DispatchInv, ActivateInv, InstallInv DEF ServerNext
<1>4. CASE UNCHANGED vars
  <2>1. UNCHANGED <<faults, kind, now, agent, network, counter, tickets, challenges,
                    spent, registered, mailed, activations, installed>>
    BY <1>4 DEF vars, hub, cell
  <2>2. (TypeOK /\ AgentInStep /\ DeviceKeyIsOurs)'
    BY <2>1 DEF IInv, TypeOK, AgentInStep, DeviceKeyIsOurs
  <2>3. NetworkOK'
    BY <2>1 DEF IInv, NetworkOK, PacketOK
  <2>. QED
    BY <2>1, <2>2, <2>3, CellFrame, ServersFrame DEF IInv
<1>. QED
  BY <1>1, <1>2, <1>3, <1>4 DEF Next

----------------------------------------------------------------------------
\* The inductive invariant holds of every reachable state.
THEOREM Invariance == Spec => []IInv
BY InitInv, StepInv, PTL DEF Spec

\* The enrollment keeps its types: no counter, ticket or candidate leaves its bounds.
THEOREM TypeCorrect == Spec => []TypeOK
<1>1. IInv => TypeOK
  BY DEF IInv
<1>. QED
  BY <1>1, Invariance, PTL

\* A registration has the key of its ticket, and an account key its mailed code, and
\* a ticket activates once.
THEOREM Earned == Spec => []RegisteredOnce
<1>1. IInv => RegisteredOnce
  BY DEF IInv, RegisteredOnce
<1>. QED
  BY <1>1, Invariance, PTL

\* The retries inside an operation cost no second ticket: tickets have operations of
\* their own, and there are no more operations than were begun.
THEOREM OneTicket == Spec => []OneTicketPerOperation
<1>1. ASSUME IInv PROVE OneTicketPerOperation
  <2>. DEFINE n == Len(tickets)
              o == agent.operation
              f == [t \in 1..n |-> tickets[t].operation]
  <2>1. n \in Nat /\ o \in Nat
    BY <1>1, Numbers, TicketFacts DEF IInv
  <2>2. f \in [1..n -> 1..o]
    <3>1. \A t \in 1..n : tickets[t].operation \in 1..o
      BY <1>1, <2>1, TicketFacts DEF IInv, TicketsDiffer
    <3>. QED
      BY <3>1
  <2>3. \A s, t \in 1..n : f[s] = f[t] => s = t
    BY <1>1 DEF IInv, TicketsDiffer
  <2>4. /\ IsFiniteSet(1..n) /\ Cardinality(1..n) = n
        /\ IsFiniteSet(1..o) /\ Cardinality(1..o) = o
    <3>1. \A k \in Nat : IsFiniteSet(1..k) /\ Cardinality(1..k) = k
      <4>. SUFFICES ASSUME NEW k \in Nat
                    PROVE  IsFiniteSet(1..k) /\ Cardinality(1..k) = k
        OBVIOUS
      <4>1. 1 \in Int /\ k \in Int
        OBVIOUS
      <4>2. /\ IsFiniteSet(1..k)
            /\ Cardinality(1..k) = IF 1 > k THEN 0 ELSE k - 1 + 1
        BY <4>1, FS_Interval, Zenon
      <4>. QED
        BY <4>2
    <3>. QED
      BY <2>1, <3>1
  <2>. HIDE DEF n, o, f
  <2>5. ~(o < n)
    <3>. SUFFICES ASSUME o < n PROVE FALSE
      OBVIOUS
    <3>1. Cardinality(1..o) < Cardinality(1..n)
      BY <2>4
    <3>2. \E s, t \in 1..n : s # t /\ f[s] = f[t]
      BY <2>2, <2>4, <3>1, FS_PigeonHole, Zenon
    <3>. QED
      BY <2>3, <3>2
  <2>. QED
    BY <2>1, <2>5 DEF OneTicketPerOperation, n, o
<1>. QED
  BY <1>1, Invariance, PTL

\* The ticket the agent uses is of its current operation, and a success it has read
\* means that its own key is the one enrolled.
THEOREM InStep == Spec => []AgentInStep
<1>1. IInv => AgentInStep
  BY DEF IInv
<1>. QED
  BY <1>1, Invariance, PTL

\* The device key installed is the candidate the agent persisted.
THEOREM OwnDeviceKey == Spec => []DeviceKeyIsOurs
<1>1. IInv => DeviceKeyIsOurs
  BY DEF IInv
<1>. QED
  BY <1>1, Invariance, PTL
=============================================================================
