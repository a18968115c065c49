------------------------- MODULE CredentialRecovery -------------------------
(***************************************************************************)
(* Replacing the lost device credential of an agent, as                    *)
(* agent_credential_recovery.go pins it.  The operator revokes the device  *)
(* credential and starts a recovery; the Hub issues a short-lived grant    *)
(* for a request nonce; the agent draws a new secret, the candidate, seals *)
(* it with the grant on its disk, and asks the assigned cell to complete.  *)
(* Datagrams are lost, repeated, delayed and reordered, the process dies   *)
(* between any two steps, grants expire, an episode ends at its horizon,   *)
(* the assignment moves and recovery credentials are withdrawn.            *)
(*                                                                         *)
(* The Hub and the cells act on one platform state.  Every principal is    *)
(* honest.  A device key id is named by the candidate it stands for.       *)
(***************************************************************************)
EXTENDS Naturals

CONSTANTS Agents,         \* agents, each one authenticated peer
          Creds,          \* recovery credentials of kind agent
          Nonces,         \* request nonces
          None,           \* no value
          Lifetime,       \* lifetime of a grant
          Horizon,        \* how long an episode lasts after its anchor
          MaxTime,        \* bound: the last instant
          MaxFence,       \* bound: revocations of a device credential
          MaxGeneration,  \* bound: assignments of an agent
          MaxSends,       \* bound: LSTs an agent sends
          Faults          \* the disturbances allowed

ASSUME TimesAssumption == Lifetime \in Nat \ {0} /\ Horizon \in Nat \ {0}
ASSUME BoundsAssumption ==
    /\ MaxTime \in Nat /\ MaxFence \in Nat /\ MaxSends \in Nat
    /\ MaxGeneration \in Nat \ {0}
ASSUME FaultsAssumption == Faults \subseteq {"stop", "time", "move", "withdraw"}

Fences == 1..MaxFence
Counters == 0..MaxSends
Times == 0..MaxTime
Candidates == 1..MaxSends

Request == [nonce : Nonces, cred : Creds]
Grant == [agent : Agents, nonce : Nonces, cred : Creds, fence : Fences,
          generation : 1..MaxGeneration, expires : Nat]
Pending == [candidate : Candidates, grant : Grant]
Issued == [agent : Agents, cred : Creds, grant : Grant]
Completion == [candidate : Candidates, grant : Grant, at : Times]

ASSUME NoneAssumption ==
    None \notin Request \cup Grant \cup Pending \cup Issued \cup Completion
             \cup [secret : Candidates, id : Candidates] \cup Candidates

\* LSTs and LRTs of the two exchanges.
Message ==
    [type : {"issue"}, agent : Agents, counter : Counters, request : Request]
    \cup [type : {"granted"}, agent : Agents, counter : Counters, grant : Grant]
    \cup [type : {"not issued"}, agent : Agents, counter : Counters]
    \cup [type : {"complete"}, agent : Agents, counter : Counters, pending : Pending]
    \cup [type : {"completed"}, agent : Agents, counter : Counters, key : Candidates]
    \cup [type : {"grant_rejected", "credential_conflict"},
          agent : Agents, counter : Counters]

VARIABLES
    \* memory of the agent's process
    phase,      \* idle, hub, granted, sealed, cell, done or refused
    request,    \* the Hub request of the operation in progress
    grant,      \* the grant received, until it is sealed
    \* disk of the agent
    pending,    \* candidate and grant, sealed together
    installed,  \* the credential in use: secret and device key id
    counter,    \* counter of the last LST sent
    used,       \* request nonces drawn so far
    drawn,      \* candidates drawn so far
    \* the platform
    now,
    revoked,    \* is the current device credential revoked
    fence,      \* number of that revocation: the recovery episode
    generation, \* of the current assignment
    active,     \* the recovery credentials in force
    issued,     \* replay record of every request nonce
    anchor,     \* expiry of the first grant of an episode, 0 before it
    committed,  \* the replacement recorded for an episode
    net         \* every datagram ever sent

memory == <<phase, request, grant>>
disk == <<pending, installed, counter, used, drawn>>
operator == <<now, revoked, fence, generation, active>>
records == <<issued, anchor, committed>>
vars == <<memory, disk, operator, records, net>>

Resting == {"idle", "done", "refused"}

TypeOK ==
    /\ phase \in [Agents -> Resting \cup {"hub", "granted", "sealed", "cell"}]
    /\ request \in [Agents -> Request \cup {None}]
    /\ grant \in [Agents -> Grant \cup {None}]
    /\ pending \in [Agents -> Pending \cup {None}]
    /\ installed \in [Agents -> [secret : Candidates, id : Candidates] \cup {None}]
    /\ counter \in [Agents -> Counters]
    /\ used \in [Agents -> SUBSET Nonces]
    /\ drawn \in [Agents -> 0..MaxSends]
    /\ now \in Times
    /\ revoked \in [Agents -> BOOLEAN]
    /\ fence \in [Agents -> 0..MaxFence]
    /\ generation \in [Agents -> 1..MaxGeneration]
    /\ active \subseteq Creds
    /\ issued \in [Nonces -> Issued \cup {None}]
    /\ anchor \in [Agents -> [Fences -> Nat]]
    /\ committed \in [Agents -> [Fences -> Completion \cup {None}]]
    /\ net \subseteq Message

Init ==
    /\ phase = [a \in Agents |-> "idle"]
    /\ request = [a \in Agents |-> None] /\ grant = [a \in Agents |-> None]
    /\ pending = [a \in Agents |-> None] /\ installed = [a \in Agents |-> None]
    /\ counter = [a \in Agents |-> 0]
    /\ used = [a \in Agents |-> {}] /\ drawn = [a \in Agents |-> 0]
    /\ now = 0
    /\ revoked = [a \in Agents |-> FALSE] /\ fence = [a \in Agents |-> 0]
    /\ generation = [a \in Agents |-> 1]
    /\ active = Creds
    /\ issued = [n \in Nonces |-> None]
    /\ anchor = [a \in Agents |-> [f \in Fences |-> 0]]
    /\ committed = [a \in Agents |-> [f \in Fences |-> None]]
    /\ net = {}

----------------------------------------------------------------------------
\* The agent.

Send(a, m) == /\ counter[a] < MaxSends
              /\ counter' = [counter EXCEPT ![a] = @ + 1]
              /\ net' = net \cup {m}

IssueLST(a, r) == [type |-> "issue", agent |-> a, counter |-> counter[a] + 1,
                   request |-> r]

\* A sealed candidate is resumed instead.
MayBegin(a) == phase[a] \in Resting /\ pending[a] = None

\* An explicit operation: one fresh nonce, one body.  The bound leaves an LST for the cell, here and in Repeat.
Begin(a) ==
    /\ MayBegin(a)
    /\ counter[a] + 1 < MaxSends
    /\ \E n \in Nonces \ used[a], c \in Creds :
          LET r == [nonce |-> n, cred |-> c]
          IN  /\ request' = [request EXCEPT ![a] = r]
              /\ used' = [used EXCEPT ![a] = @ \cup {n}]
              /\ Send(a, IssueLST(a, r))
    /\ phase' = [phase EXCEPT ![a] = "hub"]
    /\ UNCHANGED <<grant, pending, installed, drawn, operator, records>>

\* No answer, or the answer was to retry: the same body, a fresh counter.
Repeat(a) ==
    /\ phase[a] = "hub"
    /\ counter[a] + 1 < MaxSends
    /\ Send(a, IssueLST(a, request[a]))
    /\ UNCHANGED <<memory, pending, installed, used, drawn, operator, records>>

\* The counter of an answer is not compared.
Answers_AnyCounter(m, a, types) ==
    m \in net /\ m.type \in types /\ m.agent = a

Answers(m, a, types) ==
    m \in net /\ m.type \in types /\ m.agent = a /\ m.counter = counter[a]

TakeGrant(a) ==
    /\ phase[a] = "hub"
    /\ \E m \in net : /\ Answers(m, a, {"granted"})
                      /\ m.grant.agent = a
                      /\ grant' = [grant EXCEPT ![a] = m.grant]
    /\ phase' = [phase EXCEPT ![a] = "granted"]
    /\ request' = [request EXCEPT ![a] = None]
    /\ UNCHANGED <<disk, operator, records, net>>

\* A terminal Hub error.
NotGranted(a) ==
    /\ phase[a] = "hub"
    /\ \E m \in net : Answers(m, a, {"not issued"})
    /\ phase' = [phase EXCEPT ![a] = "refused"]
    /\ request' = [request EXCEPT ![a] = None]
    /\ UNCHANGED <<grant, disk, operator, records, net>>

\* The candidate drawn before.
Draw_Stale(a) == drawn[a]

Draw(a) == drawn[a] + 1

\* The candidate is durable before the cell hears of it.
Seal(a) ==
    /\ phase[a] = "granted"
    /\ drawn' = [drawn EXCEPT ![a] = @ + 1]
    /\ pending' = [pending EXCEPT ![a] = [candidate |-> Draw(a), grant |-> grant[a]]]
    /\ phase' = [phase EXCEPT ![a] = "sealed"]
    /\ grant' = [grant EXCEPT ![a] = None]
    /\ UNCHANGED <<request, installed, counter, used, operator, records, net>>

\* The deadline of an episode is its first grant's expiry plus the horizon,
\* and is outside it.
Before(expiry) == now < expiry + Horizon

SendPending(a) ==
    /\ pending[a] # None
    /\ Before(pending[a].grant.expires)
    /\ Send(a, [type |-> "complete", agent |-> a, counter |-> counter[a] + 1,
                pending |-> pending[a]])
    /\ phase' = [phase EXCEPT ![a] = "cell"]
    /\ UNCHANGED <<request, grant, pending, installed, used, drawn, operator, records>>

SendComplete(a) == phase[a] = "sealed" /\ SendPending(a)

\* The candidate is rotated after an ambiguous reply.
Resume_Rotates(a) ==
    /\ phase[a] \in {"cell"} \cup Resting
    /\ pending[a] # None
    /\ LET p == [pending[a] EXCEPT !.candidate = drawn[a] + 1]
       IN  /\ pending' = [pending EXCEPT ![a] = p]
           /\ Send(a, [type |-> "complete", agent |-> a, counter |-> counter[a] + 1,
                       pending |-> p])
    /\ drawn' = [drawn EXCEPT ![a] = @ + 1]
    /\ phase' = [phase EXCEPT ![a] = "cell"]
    /\ UNCHANGED <<request, grant, installed, used, operator, records>>

\* No answer, or a restart: the very candidate again.
Resume(a) == phase[a] \in {"cell"} \cup Resting /\ SendPending(a)

FailClosed(a) ==
    /\ phase[a] \in {"sealed", "cell"}
    /\ ~Before(pending[a].grant.expires)
    /\ phase' = [phase EXCEPT ![a] = "refused"]
    /\ UNCHANGED <<request, grant, disk, operator, records, net>>

Finish(a) ==
    /\ phase[a] = "cell"
    /\ \E m \in net :
          /\ Answers(m, a, {"completed"})
          /\ installed' = [installed EXCEPT ![a] = [secret |-> pending[a].candidate,
                                                    id |-> m.key]]
    /\ pending' = [pending EXCEPT ![a] = None]
    /\ phase' = [phase EXCEPT ![a] = "done"]
    /\ UNCHANGED <<request, grant, counter, used, drawn, operator, records, net>>

\* After a rejected grant the agent may forget the candidate; a conflict is
\* never escaped that way.
Rejected(a) ==
    /\ phase[a] = "cell"
    /\ \E m \in net, p \in {pending[a], None} :
          /\ Answers(m, a, {"grant_rejected", "credential_conflict"})
          /\ m.type = "credential_conflict" => p # None
          /\ pending' = [pending EXCEPT ![a] = p]
    /\ phase' = [phase EXCEPT ![a] = "refused"]
    /\ UNCHANGED <<request, grant, installed, counter, used, drawn, operator,
                   records, net>>

\* The process dies, or the caller's bound on the operation passes.
Stop(a) ==
    /\ "stop" \in Faults
    /\ phase[a] \notin Resting
    /\ phase' = [phase EXCEPT ![a] = "idle"]
    /\ request' = [request EXCEPT ![a] = None]
    /\ grant' = [grant EXCEPT ![a] = None]
    /\ UNCHANGED <<disk, operator, records, net>>

----------------------------------------------------------------------------
\* The Hub.  An unavailable or rate-limited Hub leaves a request as it was.

\* A recovery is open until the deadline of the episode.
Open(a, f) == anchor[a][f] = 0 \/ Before(anchor[a][f])

\* The fingerprint is not compared.
Same_AnyFingerprint(m, stored) == TRUE

\* The semantic fingerprint of a request is the stored one.
Same(m, stored) == stored.agent = m.agent /\ stored.cred = m.request.cred

Granted(m, g) == [type |-> "granted", agent |-> m.agent, counter |-> m.counter,
                  grant |-> g]

MayIssue(a, c) == c \in active /\ revoked[a] /\ Open(a, fence[a])

\* Every grant moves the anchor.
Anchored_Latest(old, g) == g.expires

Anchored(old, g) == IF old = 0 THEN g.expires ELSE old

IssueFirst(m) ==
    /\ m.type = "issue"
    /\ LET a == m.agent
           n == m.request.nonce
           g == [agent |-> a, nonce |-> n, cred |-> m.request.cred,
                 fence |-> fence[a], generation |-> generation[a],
                 expires |-> now + Lifetime]
       IN  /\ issued[n] = None
           /\ MayIssue(a, m.request.cred)
           /\ issued' = [issued EXCEPT ![n] = [agent |-> a, cred |-> g.cred, grant |-> g]]
           /\ anchor' = [anchor EXCEPT ![a][g.fence] = Anchored(@, g)]
           /\ net' = net \cup {Granted(m, g)}
    /\ UNCHANGED <<memory, disk, operator, committed>>

\* The stored result, whatever became of the credential since.
IssueReplay(m) ==
    /\ m.type = "issue"
    /\ LET stored == issued[m.request.nonce]
       IN  /\ stored # None
           /\ Same(m, stored)
           /\ net' = net \cup {Granted(m, stored.grant)}
    /\ UNCHANGED <<memory, disk, operator, records>>

IssueRefused(m) ==
    /\ m.type = "issue"
    /\ LET stored == issued[m.request.nonce]
       IN  \/ stored = None /\ ~MayIssue(m.agent, m.request.cred)
           \/ stored # None /\ ~Same(m, stored)
    /\ net' = net \cup {[type |-> "not issued", agent |-> m.agent, counter |-> m.counter]}
    /\ UNCHANGED <<memory, disk, operator, records>>

----------------------------------------------------------------------------
\* The assigned cell.

\* The fence of the revocation before is expected.
Bound_EarlierFence(a, g) ==
    /\ g.agent = a /\ g.generation = generation[a] /\ g.fence + 1 = fence[a]
    /\ g.cred \in active

\* What the grant was bound to still holds.
Bound(a, g) ==
    /\ g.agent = a /\ g.generation = generation[a] /\ g.fence = fence[a]
    /\ g.cred \in active

Answer(m, type) == net' = net \cup {[type |-> type, agent |-> m.agent,
                                     counter |-> m.counter]}

Commit(m) ==
    /\ m.type = "complete"
    /\ LET a == m.agent
           g == m.pending.grant
       IN  /\ Open(a, g.fence) /\ Bound(a, g) /\ revoked[a]
           /\ committed[a][g.fence] = None
           /\ now < g.expires
           /\ committed' = [committed EXCEPT ![a][g.fence] =
                              [candidate |-> m.pending.candidate, grant |-> g, at |-> now]]
           /\ revoked' = [revoked EXCEPT ![a] = FALSE]
           /\ net' = net \cup {[type |-> "completed", agent |-> a,
                                counter |-> m.counter, key |-> m.pending.candidate]}
    /\ UNCHANGED <<memory, disk, now, fence, generation, active, issued, anchor>>

\* The committed outcome is looked up before the expiry of the grant.  Whether
\* it is also looked up before the bindings is left open.
CommitReplay(m) ==
    /\ m.type = "complete"
    /\ LET a == m.agent
           g == m.pending.grant
           done == committed[a][g.fence]
       IN  /\ Open(a, g.fence)
           /\ done # None /\ done.candidate = m.pending.candidate
           /\ \/ net' = net \cup {[type |-> "completed", agent |-> a,
                                   counter |-> m.counter, key |-> done.candidate]}
              \/ ~Bound(a, g) /\ Answer(m, "grant_rejected")
    /\ UNCHANGED <<memory, disk, operator, records>>

Conflict(m) ==
    /\ m.type = "complete"
    /\ LET a == m.agent
           g == m.pending.grant
           done == committed[a][g.fence]
       IN  /\ Open(a, g.fence)
           /\ done # None /\ done.candidate # m.pending.candidate
           /\ \/ Answer(m, "credential_conflict")
              \/ ~Bound(a, g) /\ Answer(m, "grant_rejected")
    /\ UNCHANGED <<memory, disk, operator, records>>

\* The expiry of the grant is looked at before the committed outcome.
Unusable_ExpiryFirst(a, g) ==
    \/ ~Open(a, g.fence) \/ now >= g.expires
    \/ committed[a][g.fence] = None /\ ~(Bound(a, g) /\ revoked[a])

Unusable(a, g) ==
    \/ ~Open(a, g.fence)
    \/ /\ committed[a][g.fence] = None
       /\ ~(Bound(a, g) /\ revoked[a] /\ now < g.expires)

Reject(m) ==
    /\ m.type = "complete"
    /\ Unusable(m.agent, m.pending.grant)
    /\ Answer(m, "grant_rejected")
    /\ UNCHANGED <<memory, disk, operator, records>>

----------------------------------------------------------------------------
\* The operator and time.

Revoke(a) ==
    /\ ~revoked[a] /\ fence[a] < MaxFence
    /\ revoked' = [revoked EXCEPT ![a] = TRUE]
    /\ fence' = [fence EXCEPT ![a] = @ + 1]
    /\ UNCHANGED <<memory, disk, now, generation, active, records, net>>

Withdraw(c) ==
    /\ "withdraw" \in Faults
    /\ c \in active
    /\ active' = active \ {c}
    /\ UNCHANGED <<memory, disk, now, revoked, fence, generation, records, net>>

Move(a) ==
    /\ "move" \in Faults
    /\ generation[a] < MaxGeneration
    /\ generation' = [generation EXCEPT ![a] = @ + 1]
    /\ UNCHANGED <<memory, disk, now, revoked, fence, active, records, net>>

Tick ==
    /\ "time" \in Faults
    /\ now < MaxTime
    /\ now' = now + 1
    /\ UNCHANGED <<memory, disk, revoked, fence, generation, active, records, net>>

----------------------------------------------------------------------------
AgentStep(a) == \/ TakeGrant(a) \/ NotGranted(a) \/ Seal(a) \/ SendComplete(a)
                \/ FailClosed(a) \/ Finish(a) \/ Rejected(a)

Hub == \E m \in net : IssueFirst(m) \/ IssueReplay(m) \/ IssueRefused(m)

Cell == \E m \in net : Commit(m) \/ CommitReplay(m) \/ Conflict(m) \/ Reject(m)

Next == \/ \E a \in Agents : \/ AgentStep(a) \/ Begin(a) \/ Repeat(a) \/ Resume(a)
                             \/ Stop(a) \/ Revoke(a) \/ Move(a)
        \/ Hub \/ Cell
        \/ \E c \in Creds : Withdraw(c)
        \/ Tick

Spec == Init /\ [][Next]_vars

\* The platform serves what reaches it and an operation in progress goes on.
Fairness == WF_vars(Hub) /\ WF_vars(Cell) /\ \A a \in Agents : WF_vars(AgentStep(a))

FairSpec == Spec /\ Fairness

----------------------------------------------------------------------------
\* A committed replacement that a replay of its own request would still get.
Standing(a) ==
    /\ fence[a] # 0 /\ committed[a][fence[a]] # None
    /\ Open(a, fence[a])
    /\ Bound(a, committed[a][fence[a]].grant)

(***************************************************************************)
(* The candidate is durable before the cell hears of it and never rotated  *)
(* on a retry: as long as a replay would be answered, the agent holds the  *)
(* very secret the platform recorded, whatever was lost and however often  *)
(* the process died, and nobody is left with a credential without owner.   *)
(***************************************************************************)
CandidateNotLost ==
    \A a \in Agents : Standing(a) =>
        LET secret == committed[a][fence[a]].candidate
        IN  \/ pending[a] # None /\ pending[a].candidate = secret
            \/ installed[a] # None /\ installed[a].secret = secret

(***************************************************************************)
(* result_counter_rule and the conflict rule: recovery implements          *)
(* Replacement.  An episode records one candidate for good, and late       *)
(* answers to earlier requests never meet a new candidate, so that a       *)
(* secret in use was recorded and goes with its own key id.                *)
(***************************************************************************)
Recorded == INSTANCE Replacement WITH
    recorded <- [a \in Agents |-> [f \in Fences |->
                    IF committed[a][f] = None THEN None
                    ELSE committed[a][f].candidate]],
    inUse <- installed

RefinesReplacement == Recorded!Spec

(***************************************************************************)
(* later_grant_or_local_clock_extension_allowed is false: a replacement is *)
(* recorded before the horizon of every grant issued in its episode, so of *)
(* the first one too.                                                      *)
(***************************************************************************)
HorizonHolds ==
    \A a \in Agents, f \in Fences, n \in Nonces :
        /\ committed[a][f] # None /\ issued[n] # None
        /\ issued[n].grant.agent = a /\ issued[n].grant.fence = f
        => committed[a][f].at < issued[n].grant.expires + Horizon

(***************************************************************************)
(* issue_replay_rule: a request nonce stands for one grant, the same in    *)
(* every answer, and no agent is sent the grant of another one that drew   *)
(* the same nonce.                                                         *)
(***************************************************************************)
OneGrantPerNonce ==
    \A m1, m2 \in {m \in net : m.type = "granted"} :
        /\ m1.grant.agent = m1.agent
        /\ m1.grant.nonce = m2.grant.nonce => m1.grant = m2.grant

(***************************************************************************)
(* While no process stops, no time passes and nothing is withdrawn or      *)
(* moved, a sealed candidate becomes the credential in use.                *)
(***************************************************************************)
SealedIsInstalled ==
    \A a \in Agents : phase[a] = "sealed" ~> phase[a] = "done"
=============================================================================
