---------------------- MODULE CredentialRecoveryProofs ----------------------
(***************************************************************************)
(* For any agents, credentials, nonces, lifetimes, horizons and faults:    *)
(* the types, that no candidate is lost, that the horizon of an episode    *)
(* holds, that a nonce stands for one grant, and that recovery implements  *)
(* Replacement.                                                            *)
(***************************************************************************)
EXTENDS CredentialRecovery, TLAPS

(***************************************************************************)
(* The inductive invariant.  Whatever an agent or a message holds was      *)
(* issued by the Hub and is on record; a candidate belongs to one sealed   *)
(* pair; what the cell said was so and cannot change any more; and only    *)
(* the pair on disk can still be committed.                                *)
(***************************************************************************)
IsOf(a, g) == g.agent = a /\ issued[g.nonce] # None /\ issued[g.nonce].grant = g

Completes == {m \in net : m.type = "complete"}

RecordedAs(a, p) == /\ committed[a][p.grant.fence] # None
                    /\ committed[a][p.grant.fence].candidate = p.candidate

\* A pair that may be committed now, or later.
MayCommit(a, p) ==
    /\ Open(a, p.grant.fence) /\ Bound(a, p.grant)
    /\ committed[a][p.grant.fence] = None /\ now < p.grant.expires

\* A pair that never will be, or whose replacement does not stand any more.
Spent(a, p) ==
    \/ ~Open(a, p.grant.fence)
    \/ ~Bound(a, p.grant)
    \/ now >= p.grant.expires /\ ~RecordedAs(a, p)

Stages ==
    \A a \in Agents :
        /\ phase[a] = "hub" => request[a] # None
        /\ phase[a] = "granted" => grant[a] # None
        /\ phase[a] \in {"sealed", "cell"} => pending[a] # None
        /\ phase[a] \in {"hub", "granted"} => pending[a] = None /\ drawn[a] < counter[a]
        /\ drawn[a] <= counter[a]
        /\ pending[a] # None => pending[a].candidate = drawn[a]

Held ==
    \A a \in Agents : /\ grant[a] # None => IsOf(a, grant[a])
                      /\ pending[a] # None => IsOf(a, pending[a].grant)

GrantsIssued == \A m \in net : m.type = "granted" => IsOf(m.agent, m.grant)

Issues ==
    \A n \in Nonces : issued[n] # None =>
        LET g == issued[n].grant
        IN  /\ g.nonce = n /\ g.agent = issued[n].agent
            /\ g.fence <= fence[g.agent] /\ g.generation <= generation[g.agent]
            /\ anchor[g.agent][g.fence] # 0 /\ anchor[g.agent][g.fence] <= g.expires

Anchors == \A a \in Agents, f \in Fences : anchor[a][f] <= now + Lifetime

Episodes ==
    \A a \in Agents : /\ revoked[a] => fence[a] # 0
                      /\ fence[a] # 0 /\ ~revoked[a] => committed[a][fence[a]] # None

Commits ==
    \A a \in Agents, f \in Fences : committed[a][f] # None =>
        LET c == committed[a][f]
        IN  /\ f <= fence[a] /\ c.grant.fence = f
            /\ anchor[a][f] # 0 /\ c.at < anchor[a][f] + Horizon
            /\ \E q \in Completes : /\ q.agent = a /\ q.pending.grant = c.grant
                                    /\ q.pending.candidate = c.candidate

InOrder ==
    \A a \in Agents, f, g \in Fences :
        committed[a][f] # None /\ committed[a][g] # None /\ f < g =>
            committed[a][f].candidate < committed[a][g].candidate

Behind == \A m \in net : m.counter <= counter[m.agent]

Proposals ==
    \A q \in Completes :
        /\ IsOf(q.agent, q.pending.grant)
        /\ q.pending.candidate <= drawn[q.agent]
        /\ pending[q.agent] # None /\ q.pending.candidate = drawn[q.agent] =>
              q.pending = pending[q.agent]

OnePair ==
    \A q, r \in Completes :
        q.agent = r.agent /\ q.pending.candidate = r.pending.candidate =>
            q.pending = r.pending

InProgress ==
    \A q \in Completes : phase[q.agent] = "cell" /\ q.counter = counter[q.agent] =>
        q.pending = pending[q.agent]

CompletionsTrue ==
    \A m \in net : m.type = "completed" =>
        \E q \in Completes : /\ q.agent = m.agent /\ q.counter = m.counter
                             /\ q.pending.candidate = m.key
                             /\ RecordedAs(q.agent, q.pending)

RejectionsTrue ==
    \A m \in net : m.type = "grant_rejected" =>
        \E q \in Completes : /\ q.agent = m.agent /\ q.counter = m.counter
                             /\ Spent(q.agent, q.pending)

OnlyPendingCommits ==
    \A q \in Completes : MayCommit(q.agent, q.pending) => pending[q.agent] = q.pending

Platform == Issues /\ Anchors /\ Episodes /\ Commits /\ InOrder
Said == GrantsIssued /\ CompletionsTrue /\ RejectionsTrue /\ Behind
Asked == Proposals /\ OnePair /\ InProgress /\ OnlyPendingCommits
IInv == TypeOK /\ Stages /\ Held /\ Platform /\ Said /\ Asked /\ CandidateNotLost

----------------------------------------------------------------------------
\* The fields of a datagram that was sent.
LEMMA Shapes ==
    ASSUME net \subseteq Message, NEW m \in net
    PROVE  /\ m.agent \in Agents /\ m.counter \in Counters
           /\ m.type = "issue" => m.request \in Request
           /\ m.type = "granted" => m.grant \in Grant
           /\ m.type = "complete" => m.pending \in Pending
           /\ m.type = "completed" => m.key \in Candidates
BY DEF Message

\* Nobody has asked for anything.
LEMMA Init0 == Init => IInv
<1> SUFFICES ASSUME Init PROVE IInv
  OBVIOUS
<1> USE DEF Init
<1>1. TypeOK
  BY BoundsAssumption DEF TypeOK, Resting, Counters, Times
<1>2. Stages /\ Held /\ Platform
  BY TimesAssumption DEF Stages, Held, Platform, Issues, Anchors, Episodes, Commits, InOrder, Resting
<1>3. Said /\ Asked
  BY DEF Said, Asked, GrantsIssued, CompletionsTrue, RejectionsTrue, Behind, Proposals,
         OnePair, InProgress, OnlyPendingCommits, Completes
<1>4. CandidateNotLost
  BY DEF CandidateNotLost, Standing
<1> QED
  BY <1>1, <1>2, <1>3, <1>4 DEF IInv

(***************************************************************************)
(* The types, action by action.                                            *)
(***************************************************************************)
LEMMA AgentTypes ==
    ASSUME TypeOK, Stages, NEW a \in Agents,
           AgentStep(a) \/ Begin(a) \/ Repeat(a) \/ Resume(a) \/ Stop(a)
    PROVE  TypeOK'
<1> USE DEF TypeOK, memory, disk, operator, records, Resting
<1>0. /\ drawn[a] < counter[a] => drawn[a] + 1 \in Candidates
      /\ counter[a] < MaxSends => counter[a] + 1 \in Counters
  BY BoundsAssumption DEF Candidates, Counters
<1>1. CASE TakeGrant(a)
  BY <1>1, Shapes DEF TakeGrant, Answers
<1>2. CASE NotGranted(a)
  BY <1>2 DEF NotGranted
<1>3. CASE Seal(a)
  <2>1. grant[a] \in Grant /\ drawn[a] + 1 \in Candidates /\ drawn[a] + 1 \in 0..MaxSends
    BY <1>3, <1>0, BoundsAssumption DEF Seal, Stages, Candidates
  <2>2. [candidate |-> Draw(a), grant |-> grant[a]] \in Pending
    BY <2>1 DEF Draw, Pending
  <2> QED
    BY <1>3, <2>1, <2>2 DEF Seal
<1>4. CASE SendPending(a)
  <2>1. [type |-> "complete", agent |-> a, counter |-> counter[a] + 1,
         pending |-> pending[a]] \in Message
    BY <1>4, <1>0 DEF SendPending, Send, Message
  <2> QED
    BY <1>4, <1>0, <2>1 DEF SendPending, Send
<1>5. CASE FailClosed(a)
  BY <1>5 DEF FailClosed
<1>6. CASE Finish(a)
  <2>1. pending[a] \in Pending
    BY <1>6 DEF Finish, Stages
  <2>2. pending[a].candidate \in Candidates
    BY <2>1 DEF Pending
  <2> QED
    BY <1>6, <2>2, Shapes DEF Finish, Answers
<1>7. CASE Rejected(a)
  BY <1>7 DEF Rejected
<1>8. CASE Begin(a)
  <2>1. PICK n \in Nonces \ used[a], c \in Creds :
            LET r == [nonce |-> n, cred |-> c]
            IN  /\ request' = [request EXCEPT ![a] = r]
                /\ used' = [used EXCEPT ![a] = @ \cup {n}]
                /\ Send(a, IssueLST(a, r))
    BY <1>8 DEF Begin
  <2>2. [nonce |-> n, cred |-> c] \in Request
    BY DEF Request
  <2>3. counter[a] < MaxSends
    BY <2>1 DEF Send
  <2>4. IssueLST(a, [nonce |-> n, cred |-> c]) \in Message
    BY <2>2, <2>3, <1>0 DEF IssueLST, Message
  <2> QED
    BY <1>8, <1>0, <2>1, <2>2, <2>3, <2>4 DEF Begin, Send
<1>9. CASE Repeat(a)
  <2>1. request[a] \in Request
    BY <1>9 DEF Repeat, Stages
  <2>2. counter[a] < MaxSends
    BY <1>9 DEF Repeat, Send
  <2>4. IssueLST(a, request[a]) \in Message
    BY <2>1, <2>2, <1>0 DEF IssueLST, Message
  <2> QED
    BY <1>9, <1>0, <2>1, <2>2, <2>4 DEF Repeat, Send
<1>10. CASE Stop(a)
  BY <1>10 DEF Stop
<1> QED
  BY <1>1, <1>2, <1>3, <1>4, <1>5, <1>6, <1>7, <1>8, <1>9, <1>10
  DEF AgentStep, SendComplete, Resume

\* What the Hub does with a nonce it has not seen.
FirstGrant(m, g) ==
    LET a == m.agent
        n == m.request.nonce
        stored == [agent |-> a, cred |-> g.cred, grant |-> g]
    IN  /\ a \in Agents /\ n \in Nonces /\ g \in Grant
        /\ stored \in Issued /\ Granted(m, g) \in Message
        /\ g.agent = a /\ g.nonce = n /\ g.expires = now + Lifetime
        /\ g.fence = fence[a] /\ g.generation = generation[a]
        /\ issued[n] = None
        /\ issued' = [issued EXCEPT ![n] = stored]
        /\ anchor' = [anchor EXCEPT ![a][g.fence] = Anchored(@, g)]
        /\ net' = net \cup {Granted(m, g)}
        /\ UNCHANGED <<memory, disk, operator, committed>>

\* A first grant is recorded under a nonce the Hub has not seen.
LEMMA Granting ==
    ASSUME TypeOK, Episodes, NEW m \in net, IssueFirst(m)
    PROVE  \E g : FirstGrant(m, g)
<1> DEFINE a == m.agent
           n == m.request.nonce
           g == [agent |-> a, nonce |-> n, cred |-> m.request.cred, fence |-> fence[a],
                 generation |-> generation[a], expires |-> now + Lifetime]
<1>1. a \in Agents /\ m.counter \in Counters /\ m.request \in Request
  BY Shapes DEF IssueFirst, TypeOK
<1>2. n \in Nonces /\ m.request.cred \in Creds
  BY <1>1 DEF Request
<1>3. fence[a] \in Fences /\ now + Lifetime \in Nat /\ generation[a] \in 1..MaxGeneration
  BY <1>1, TimesAssumption, BoundsAssumption
  DEF IssueFirst, MayIssue, Episodes, Fences, Times, TypeOK
<1>4. g \in Grant
  BY <1>1, <1>2, <1>3 DEF Grant
<1>5. /\ g.agent = a /\ g.nonce = n /\ g.expires = now + Lifetime
      /\ g.fence = fence[a] /\ g.generation = generation[a]
  OBVIOUS
<1>6. /\ issued[n] = None
      /\ issued' = [issued EXCEPT ![n] = [agent |-> a, cred |-> g.cred, grant |-> g]]
      /\ anchor' = [anchor EXCEPT ![a][g.fence] = Anchored(@, g)]
      /\ net' = net \cup {Granted(m, g)}
      /\ UNCHANGED <<memory, disk, operator, committed>>
  BY DEF IssueFirst
<1> HIDE DEF g
<1>7. [agent |-> a, cred |-> g.cred, grant |-> g] \in Issued /\ Granted(m, g) \in Message
  BY <1>1, <1>4 DEF Issued, Grant, Granted, Message
<1>8. FirstGrant(m, g)
  BY <1>1, <1>2, <1>4, <1>5, <1>6, <1>7 DEF FirstGrant
<1> QED
  BY <1>8

\* The steps of Hub and cell keep the types.
LEMMA PlatformTypes ==
    ASSUME TypeOK, Episodes, Hub \/ Cell
    PROVE  TypeOK'
<1> USE DEF TypeOK, memory, disk, operator, records
<1>1. CASE Hub
  <2>1. PICK m \in net : IssueFirst(m) \/ IssueReplay(m) \/ IssueRefused(m)
    BY <1>1 DEF Hub
  <2> DEFINE a == m.agent
             n == m.request.nonce
  <2>2. a \in Agents /\ m.counter \in Counters /\ m.request \in Request
    BY <2>1, Shapes DEF IssueFirst, IssueReplay, IssueRefused
  <2>3. n \in Nonces
    BY <2>2 DEF Request
  <2>4. CASE IssueFirst(m)
    <3>1. PICK g : FirstGrant(m, g)
      BY <2>4, Granting
    <3>2. g.expires \in Nat /\ g.fence \in Fences /\ Anchored(anchor[a][g.fence], g) \in Nat
      BY <3>1, <2>2 DEF FirstGrant, Grant, Anchored
    <3> QED
      BY <3>1, <3>2, <2>2, <2>3 DEF FirstGrant
  <2>5. CASE IssueReplay(m)
    <3>1. issued[n] \in Issued
      BY <2>5, <2>3 DEF IssueReplay
    <3>2. Granted(m, issued[n].grant) \in Message
      BY <3>1, <2>2 DEF Issued, Granted, Message
    <3> QED
      BY <2>5, <3>2 DEF IssueReplay
  <2>6. CASE IssueRefused(m)
    <3>1. [type |-> "not issued", agent |-> a, counter |-> m.counter] \in Message
      BY <2>2 DEF Message
    <3> QED
      BY <2>6, <3>1 DEF IssueRefused
  <2> QED
    BY <2>1, <2>4, <2>5, <2>6
<1>2. CASE Cell
  <2>1. PICK m \in net : Commit(m) \/ CommitReplay(m) \/ Conflict(m) \/ Reject(m)
    BY <1>2 DEF Cell
  <2> DEFINE a == m.agent
             g == m.pending.grant
             k == m.pending.candidate
  <2>2. a \in Agents /\ m.counter \in Counters /\ m.pending \in Pending
    BY <2>1, Shapes DEF Commit, CommitReplay, Conflict, Reject
  <2>3. g \in Grant /\ k \in Candidates
    BY <2>2 DEF Pending
  <2>4. g.fence \in Fences
    BY <2>3 DEF Grant
  <2>5. CASE Commit(m)
    <3>1. [candidate |-> k, grant |-> g, at |-> now] \in Completion
      BY <2>3 DEF Completion
    <3>2. [type |-> "completed", agent |-> a, counter |-> m.counter, key |-> k] \in Message
      BY <2>2, <2>3 DEF Message
    <3>3. /\ committed' = [committed EXCEPT ![a][g.fence] =
                             [candidate |-> k, grant |-> g, at |-> now]]
          /\ revoked' = [revoked EXCEPT ![a] = FALSE]
          /\ net' = net \cup {[type |-> "completed", agent |-> a, counter |-> m.counter,
                               key |-> k]}
          /\ UNCHANGED <<memory, disk, now, fence, generation, active, issued, anchor>>
      BY <2>5 DEF Commit
    <3> HIDE DEF a, g, k
    <3> QED
      BY <2>2, <2>4, <3>1, <3>2, <3>3
  <2>6. CASE /\ Answer(m, "grant_rejected") \/ Answer(m, "credential_conflict")
             /\ UNCHANGED <<memory, disk, operator, records>>
    <3>1. ASSUME NEW t \in {"grant_rejected", "credential_conflict"}
          PROVE  [type |-> t, agent |-> a, counter |-> m.counter] \in Message
      BY <2>2 DEF Message
    <3> QED
      BY <2>6, <3>1 DEF Answer
  <2>7. CASE /\ CommitReplay(m)
             /\ net' = net \cup {[type |-> "completed", agent |-> a, counter |-> m.counter,
                                  key |-> committed[a][g.fence].candidate]}
    <3>1. [type |-> "completed", agent |-> a, counter |-> m.counter,
           key |-> committed[a][g.fence].candidate] \in Message
      BY <2>7, <2>2, <2>3 DEF CommitReplay, Message
    <3> QED
      BY <2>7, <3>1 DEF CommitReplay
  <2> QED
    BY <2>1, <2>5, <2>6, <2>7 DEF CommitReplay, Conflict, Reject
<1> QED
  BY <1>1, <1>2

\* So do revocation, reassignment, withdrawal and time.
LEMMA OperatorTypes ==
    ASSUME TypeOK,
           \/ \E a \in Agents : Revoke(a) \/ Move(a)
           \/ \E c \in Creds : Withdraw(c)
           \/ Tick
    PROVE  TypeOK'
<1> USE BoundsAssumption DEF TypeOK, memory, disk, records, Times
<1>1. CASE \E a \in Agents : Revoke(a)
  BY <1>1 DEF Revoke
<1>2. CASE \E a \in Agents : Move(a)
  BY <1>2 DEF Move
<1>3. CASE \E c \in Creds : Withdraw(c)
  BY <1>3 DEF Withdraw
<1>4. CASE Tick
  BY <1>4 DEF Tick
<1> QED
  BY <1>1, <1>2, <1>3, <1>4

\* Every step keeps the types.
LEMMA TypesKept ==
    ASSUME TypeOK, Stages, Episodes, [Next]_vars
    PROVE  TypeOK'
<1>1. CASE UNCHANGED vars
  BY <1>1 DEF TypeOK, vars, memory, disk, operator, records, Resting
<1> QED
  BY <1>1, AgentTypes, PlatformTypes, OperatorTypes DEF Next

----------------------------------------------------------------------------
(***************************************************************************)
(* Nothing on record is ever changed, and fences, generations, counters,   *)
(* candidates and time only grow: Forward.  Hence what is not open or not  *)
(* bound any more never is again.                                          *)
(***************************************************************************)
Forward ==
    /\ \A a \in Agents : /\ fence[a] <= fence'[a] /\ generation[a] <= generation'[a]
                         /\ counter[a] <= counter'[a] /\ drawn[a] <= drawn'[a]
    /\ now <= now' /\ active' \subseteq active /\ net \subseteq net'
    /\ \A n \in Nonces : issued[n] # None => issued'[n] = issued[n]
    /\ \A a \in Agents, f \in Fences :
          /\ anchor[a][f] # 0 => anchor'[a][f] = anchor[a][f]
          /\ committed[a][f] # None => committed'[a][f] = committed[a][f]

\* The steps one by one; a resumed candidate and a first one are sent alike.
Manages == \/ \E a \in Agents : Revoke(a) \/ Move(a)
           \/ \E c \in Creds : Withdraw(c)
           \/ Tick

Local(a) == \/ TakeGrant(a) \/ NotGranted(a) \/ Seal(a) \/ FailClosed(a)
            \/ Finish(a) \/ Rejected(a) \/ Stop(a)

\* Every step is one of these.
LEMMA Steps ==
    ASSUME Next
    PROVE  \/ \E a \in Agents : Local(a) \/ Begin(a) \/ Repeat(a) \/ SendPending(a)
           \/ \E m \in net : \/ IssueFirst(m) \/ IssueReplay(m) \/ IssueRefused(m)
                             \/ Commit(m) \/ CommitReplay(m) \/ Conflict(m) \/ Reject(m)
           \/ Manages
<1>1. ASSUME NEW a \in Agents, AgentStep(a) \/ Begin(a) \/ Repeat(a) \/ Resume(a) \/ Stop(a)
      PROVE  Local(a) \/ Begin(a) \/ Repeat(a) \/ SendPending(a)
  BY <1>1 DEF AgentStep, SendComplete, Resume, Local
<1> QED
  BY <1>1, Zenon DEF Next, Hub, Cell, Manages

\* The counters are numbers.
LEMMA Numbers ==
    ASSUME TypeOK
    PROVE  /\ now \in Nat
           /\ \A a \in Agents : /\ fence[a] \in Nat /\ generation[a] \in Nat
                                /\ counter[a] \in Nat /\ drawn[a] \in Nat
BY BoundsAssumption DEF TypeOK, Times, Counters

\* An agent that takes an answer or seals sends nothing.
LEMMA LocalEffect ==
    ASSUME NEW a \in Agents, Local(a)
    PROVE  /\ UNCHANGED <<counter, used, operator, records, net>>
           /\ drawn' = drawn \/ drawn' = [drawn EXCEPT ![a] = @ + 1]
BY DEF Local, TakeGrant, NotGranted, Seal, FailClosed, Finish, Rejected, Stop, disk

\* An agent that sends uses a fresh counter and leaves its disk alone.
LEMMA SendEffect ==
    ASSUME NEW a \in Agents, Begin(a) \/ Repeat(a) \/ SendPending(a)
    PROVE  /\ UNCHANGED <<grant, pending, installed, drawn, operator, records>>
           /\ counter' = [counter EXCEPT ![a] = @ + 1]
           /\ net \subseteq net'
BY DEF Begin, Repeat, SendPending, Send, memory

\* An answer without a new record changes the network only.
LEMMA AnswerEffect ==
    ASSUME NEW m \in net,
           IssueReplay(m) \/ IssueRefused(m) \/ CommitReplay(m) \/ Conflict(m) \/ Reject(m)
    PROVE  /\ UNCHANGED <<memory, disk, operator, records>>
           /\ net \subseteq net'
BY DEF IssueReplay, IssueRefused, CommitReplay, Conflict, Reject, Answer

\* Records, fences, generations and counters only grow.
LEMMA MovesForward ==
    ASSUME TypeOK, Next
    PROVE  Forward
<1>0. counter \in [Agents -> Counters] /\ drawn \in [Agents -> 0..MaxSends]
  BY DEF TypeOK
<1>1. ASSUME UNCHANGED <<operator, records>>, net \subseteq net',
             \A a \in Agents : counter[a] <= counter'[a] /\ drawn[a] <= drawn'[a]
      PROVE  Forward
  BY <1>1, Numbers DEF Forward, operator, records
<1>2. ASSUME NEW a \in Agents, Local(a)
      PROVE  Forward
  <2>1. \A b \in Agents : counter[b] <= counter'[b] /\ drawn[b] <= drawn'[b]
    <3>1. counter' = counter /\ (drawn' = drawn \/ drawn' = [drawn EXCEPT ![a] = @ + 1])
      BY <1>2, LocalEffect
    <3> QED
      BY <3>1, Numbers, <1>0
  <2> QED
    BY <2>1, <1>1, <1>2, LocalEffect
<1>3. ASSUME NEW a \in Agents, Begin(a) \/ Repeat(a) \/ SendPending(a)
      PROVE  Forward
  <2>1. \A b \in Agents : counter[b] <= counter'[b] /\ drawn[b] <= drawn'[b]
    <3>1. drawn' = drawn /\ counter' = [counter EXCEPT ![a] = @ + 1]
      BY <1>3, SendEffect
    <3> QED
      BY <3>1, Numbers, <1>0
  <2> QED
    BY <2>1, <1>1, <1>3, SendEffect
<1>4. ASSUME NEW m \in net,
             IssueReplay(m) \/ IssueRefused(m) \/ CommitReplay(m) \/ Conflict(m) \/ Reject(m)
      PROVE  Forward
  <2>1. UNCHANGED <<memory, disk, operator, records>> /\ net \subseteq net'
    BY <1>4, AnswerEffect
  <2> QED
    BY <2>1, <1>1, Numbers DEF disk
<1>5. ASSUME UNCHANGED <<memory, disk, now, fence, generation, active>>, net \subseteq net',
             \A n \in Nonces : issued[n] # None => issued'[n] = issued[n],
             \A a \in Agents, f \in Fences :
                /\ anchor[a][f] # 0 => anchor'[a][f] = anchor[a][f]
                /\ committed[a][f] # None => committed'[a][f] = committed[a][f]
      PROVE  Forward
  BY <1>5, Numbers DEF Forward, disk
<1>6. ASSUME NEW m \in net, IssueFirst(m)
      PROVE  Forward
  <2>1. /\ \A n \in Nonces : issued[n] # None => issued'[n] = issued[n]
        /\ \A a \in Agents, f \in Fences : anchor[a][f] # 0 => anchor'[a][f] = anchor[a][f]
    BY <1>6 DEF IssueFirst, Anchored, TypeOK
  <2> QED
    BY <1>6, <2>1, <1>5 DEF IssueFirst, operator
<1>7. ASSUME NEW m \in net, Commit(m)
      PROVE  Forward
  <2>1. \A a \in Agents, f \in Fences : committed[a][f] # None => committed'[a][f] = committed[a][f]
    BY <1>7 DEF Commit, TypeOK
  <2> QED
    BY <1>7, <2>1, <1>5 DEF Commit
<1>8. ASSUME UNCHANGED <<memory, disk, records, net>>, now <= now', active' \subseteq active,
             \A a \in Agents : fence[a] <= fence'[a] /\ generation[a] <= generation'[a]
      PROVE  Forward
  BY <1>8, Numbers DEF Forward, disk, records
<1>9. CASE Manages
  <2>1. CASE \E a \in Agents : Revoke(a)
    <3>1. \A b \in Agents : fence[b] <= fence'[b]
      BY <2>1, Numbers DEF Revoke, TypeOK
    <3> QED
      BY <2>1, <3>1, <1>8, Numbers DEF Revoke
  <2>2. CASE \E a \in Agents : Move(a)
    <3>1. \A b \in Agents : generation[b] <= generation'[b]
      BY <2>2, Numbers DEF Move, TypeOK
    <3> QED
      BY <2>2, <3>1, <1>8, Numbers DEF Move
  <2>3. CASE \E c \in Creds : Withdraw(c)
    BY <2>3, <1>8, Numbers DEF Withdraw
  <2>4. CASE Tick
    BY <2>4, <1>8, Numbers DEF Tick
  <2> QED
    BY <1>9, <2>1, <2>2, <2>3, <2>4 DEF Manages
<1> QED
  BY <1>2, <1>3, <1>4, <1>6, <1>7, <1>9, Steps

\* An episode that is open was open before.
LEMMA OpenBefore ==
    ASSUME TypeOK, TypeOK', Forward, NEW a \in Agents, NEW f \in Fences, Open(a, f)'
    PROVE  Open(a, f)
BY TimesAssumption DEF TypeOK, Forward, Open, Before, Times

\* The grant is on record after the step.
IsOfNext(a, g) == g.agent = a /\ issued'[g.nonce] # None /\ issued'[g.nonce].grant = g

\* A grant on record stays on record.
LEMMA RecordKept ==
    ASSUME TypeOK, Forward, NEW a \in Agents, NEW g \in Grant, IsOf(a, g)
    PROVE  IsOfNext(a, g)
BY DEF TypeOK, Forward, IsOf, IsOfNext, Grant

\* A grant whose bindings hold had them before: what ends them ends them for ever.
LEMMA BoundBefore ==
    ASSUME TypeOK, TypeOK', Issues, Forward, NEW a \in Agents, NEW g \in Grant, IsOf(a, g),
           Bound(a, g)'
    PROVE  Bound(a, g)
<1>1. /\ g.fence \in Fences /\ g.nonce \in Nonces /\ g.generation \in Nat
      /\ fence[a] \in Nat /\ fence'[a] \in Nat /\ generation[a] \in Nat /\ generation'[a] \in Nat
  <2>1. g.fence \in Fences /\ g.nonce \in Nonces /\ g.generation \in Nat
    BY DEF Grant
  <2>2. fence[a] \in Nat /\ fence'[a] \in Nat /\ generation[a] \in Nat /\ generation'[a] \in Nat
    BY DEF TypeOK, Fences
  <2> QED  BY <2>1, <2>2
<1>2. g.fence <= fence[a] /\ g.generation <= generation[a]
  BY <1>1 DEF Issues, IsOf
<1> QED
  BY <1>1, <1>2 DEF Bound, Forward, Fences

\* A pair that may be committed later may be committed now.
LEMMA MayCommitBefore ==
    ASSUME TypeOK, TypeOK', Issues, Forward, NEW a \in Agents, NEW p \in Pending,
           IsOf(a, p.grant), MayCommit(a, p)'
    PROVE  MayCommit(a, p)
<1>1. p.grant \in Grant /\ p.grant.fence \in Fences /\ p.grant.expires \in Nat
  BY DEF Pending, Grant
<1>2. Open(a, p.grant.fence) /\ Bound(a, p.grant)
  BY <1>1, OpenBefore, BoundBefore DEF MayCommit
<1> QED
  BY <1>1, <1>2 DEF MayCommit, Forward, TypeOK, Times

----------------------------------------------------------------------------
\* A record is made by a commit of a message that asked for it.
LEMMA Recording ==
    ASSUME TypeOK, Next, NEW a \in Agents, NEW f \in Fences, committed'[a][f] # committed[a][f]
    PROVE  \E q \in Completes :
              /\ q.agent = a /\ q.pending.grant.fence = f /\ Commit(q)
              /\ MayCommit(a, q.pending)
              /\ committed'[a][f] = [candidate |-> q.pending.candidate,
                                     grant |-> q.pending.grant, at |-> now]
<1>1. ASSUME NEW b \in Agents, Local(b)
      PROVE  FALSE
  BY <1>1, LocalEffect DEF records
<1>2. ASSUME NEW b \in Agents, Begin(b) \/ Repeat(b) \/ SendPending(b)
      PROVE  FALSE
  BY <1>2, SendEffect DEF records
<1>3. ASSUME NEW m \in net, \/ IssueFirst(m) \/ IssueReplay(m) \/ IssueRefused(m)
                            \/ CommitReplay(m) \/ Conflict(m) \/ Reject(m)
      PROVE  FALSE
  BY <1>3, AnswerEffect DEF IssueFirst, records
<1>4. ASSUME Manages
      PROVE  FALSE
  BY <1>4 DEF Manages, Revoke, Move, Withdraw, Tick, records
<1>5. PICK m \in net : Commit(m)
  BY <1>1, <1>2, <1>3, <1>4, Steps
<1>6. m \in Completes /\ m.agent \in Agents /\ m.pending \in Pending
  BY <1>5, Shapes DEF Commit, Completes, TypeOK
<1>7. m.pending.grant \in Grant /\ m.pending.grant.fence \in Fences
  BY <1>6 DEF Pending, Grant
<1>8. m.agent = a /\ m.pending.grant.fence = f
  BY <1>5, <1>6, <1>7 DEF Commit, TypeOK
<1>9. MayCommit(a, m.pending)
  BY <1>5, <1>8 DEF Commit, MayCommit
<1> QED
  BY <1>5, <1>6, <1>8, <1>9 DEF Commit, TypeOK

----------------------------------------------------------------------------
(***************************************************************************)
(* Every datagram: a question of an agent, or the answer to one that was   *)
(* sent, with its counter.                                                 *)
(***************************************************************************)
AskedNow(a, m) ==
    /\ m.agent = a /\ m.counter = counter[a] + 1 /\ counter' = [counter EXCEPT ![a] = @ + 1]
    /\ \/ m.type = "issue"
       \/ m.type = "complete" /\ pending[a] # None /\ m.pending = pending[a] /\ pending' = pending
          /\ phase' = [phase EXCEPT ![a] = "cell"]

AnsweredNow(q, m) ==
    /\ q.agent = m.agent /\ q.counter = m.counter /\ UNCHANGED <<memory, disk>>
    /\ \/ /\ m.type = "granted" /\ q.request.nonce \in Nonces
          /\ issued'[q.request.nonce] # None
          /\ issued'[q.request.nonce].agent = m.agent
          /\ m.grant = issued'[q.request.nonce].grant
       \/ /\ m.type = "completed" /\ q.type = "complete"
          /\ m.key = q.pending.candidate /\ RecordedAs(q.agent, q.pending)'
       \/ /\ m.type = "grant_rejected" /\ q.type = "complete" /\ Spent(q.agent, q.pending)
          /\ UNCHANGED <<operator, records>>
       \/ m.type \in {"not issued", "credential_conflict"}

\* Whatever is new on the network an agent asked or the platform answered in this step.
LEMMA Sent ==
    ASSUME TypeOK, Episodes, Next, NEW m \in net', m \notin net
    PROVE  \/ \E a \in Agents : AskedNow(a, m)
           \/ \E q \in net : AnsweredNow(q, m)
<1>1. ASSUME NEW a \in Agents, Local(a)
      PROVE  FALSE
  BY <1>1, LocalEffect
<1>2. ASSUME NEW a \in Agents, Begin(a) \/ Repeat(a)
      PROVE  AskedNow(a, m)
  BY <1>2 DEF Begin, Repeat, Send, IssueLST, AskedNow
<1>3. ASSUME NEW a \in Agents, SendPending(a)
      PROVE  AskedNow(a, m)
  BY <1>3 DEF SendPending, Send, AskedNow
<1>4. ASSUME NEW q \in net, IssueFirst(q)
      PROVE  AnsweredNow(q, m)
  <2>1. PICK g : FirstGrant(q, g)
    BY <1>4, Granting
  <2>2. m = Granted(q, g)
    BY <2>1 DEF FirstGrant
  <2>3. issued'[q.request.nonce] = [agent |-> q.agent, cred |-> g.cred, grant |-> g]
    BY <2>1 DEF FirstGrant, TypeOK
  <2>4. issued'[q.request.nonce] # None
    BY <2>1, <2>3, NoneAssumption DEF FirstGrant
  <2> QED
    BY <2>1, <2>2, <2>3, <2>4 DEF FirstGrant, Granted, AnsweredNow
<1>5. ASSUME NEW q \in net, IssueReplay(q)
      PROVE  AnsweredNow(q, m)
  <2>1. q.request.nonce \in Nonces
    BY <1>5, Shapes DEF IssueReplay, Request, TypeOK
  <2>2. /\ issued[q.request.nonce] # None /\ issued[q.request.nonce].agent = q.agent
        /\ m = Granted(q, issued[q.request.nonce].grant)
        /\ UNCHANGED <<memory, disk>> /\ issued' = issued
    BY <1>5 DEF IssueReplay, Same, records
  <2>3. m.agent = q.agent /\ m.counter = q.counter /\ m.type = "granted"
        /\ m.grant = issued[q.request.nonce].grant
    BY <2>2 DEF Granted
  <2> QED
    BY <2>1, <2>2, <2>3 DEF AnsweredNow
<1>6. ASSUME NEW q \in net, IssueRefused(q)
      PROVE  AnsweredNow(q, m)
  <2>1. m = [type |-> "not issued", agent |-> q.agent, counter |-> q.counter]
        /\ UNCHANGED <<memory, disk>>
    BY <1>6 DEF IssueRefused
  <2> QED
    BY <2>1 DEF AnsweredNow
<1>7. ASSUME NEW q \in net,
             \/ Commit(q)
             \/ CommitReplay(q) \/ Conflict(q) \/ Reject(q)
      PROVE  AnsweredNow(q, m)
  <2> DEFINE a == q.agent
             g == q.pending.grant
             k == q.pending.candidate
  <2>1. a \in Agents /\ q.pending \in Pending /\ q.type = "complete"
    BY <1>7, Shapes DEF Commit, CommitReplay, Conflict, Reject, TypeOK
  <2>2. g \in Grant /\ k \in Candidates /\ g.fence \in Fences
    BY <2>1 DEF Pending, Grant
  <2>3. UNCHANGED <<memory, disk>>
    BY <1>7 DEF Commit, CommitReplay, Conflict, Reject
  <2>4. ASSUME m.type = "grant_rejected", q.agent = m.agent, q.counter = m.counter,
               UNCHANGED <<operator, records>>, Spent(a, q.pending)
        PROVE  AnsweredNow(q, m)
    BY <2>4, <2>1, <2>3 DEF AnsweredNow
  <2>5. ASSUME m.type = "completed", q.agent = m.agent, q.counter = m.counter, m.key = k,
               RecordedAs(a, q.pending)'
        PROVE  AnsweredNow(q, m)
    BY <2>5, <2>1, <2>3 DEF AnsweredNow
  <2>6. ASSUME m.type = "credential_conflict", q.agent = m.agent, q.counter = m.counter
        PROVE  AnsweredNow(q, m)
    BY <2>6, <2>3 DEF AnsweredNow
  <2>7. CASE Commit(q)
    <3>1. committed'[a][g.fence] = [candidate |-> k, grant |-> g, at |-> now]
      BY <2>7, <2>1, <2>2 DEF Commit, TypeOK
    <3>2. [candidate |-> k, grant |-> g, at |-> now] \in Completion
      BY <2>2 DEF Completion, TypeOK
    <3>3. RecordedAs(a, q.pending)'
      BY <3>1, <3>2, NoneAssumption DEF RecordedAs
    <3>4. m = [type |-> "completed", agent |-> a, counter |-> q.counter, key |-> k]
      BY <2>7 DEF Commit
    <3> QED
      BY <3>3, <3>4, <2>5
  <2>8. CASE CommitReplay(q)
    <3>1. RecordedAs(a, q.pending)'
      BY <2>8 DEF CommitReplay, RecordedAs, records
    <3>2. CASE ~Bound(a, g) /\ Answer(q, "grant_rejected")
      BY <2>8, <3>2, <2>4 DEF CommitReplay, Answer, Spent
    <3>3. CASE net' = net \cup {[type |-> "completed", agent |-> a, counter |-> q.counter,
                                key |-> committed[a][g.fence].candidate]}
      <4>1. committed[a][g.fence].candidate = k
        BY <2>8 DEF CommitReplay
      <4> QED
        BY <3>3, <3>1, <4>1, <2>5
    <3> QED
      BY <2>8, <3>2, <3>3 DEF CommitReplay
  <2>9. CASE Conflict(q)
    BY <2>9, <2>4, <2>6 DEF Conflict, Answer, Spent
  <2>10. CASE Reject(q)
    <3>1. m = [type |-> "grant_rejected", agent |-> a, counter |-> q.counter]
      BY <2>10 DEF Reject, Answer
    <3>2. CASE ~Open(a, g.fence) \/ ~Bound(a, g)
      BY <2>10, <3>1, <3>2, <2>4 DEF Reject, Spent
    <3>3. CASE Bound(a, g) /\ committed[a][g.fence] = None
      <4>1. revoked[a]
        BY <3>3, <2>1, <2>2 DEF Bound, Episodes, Fences
      <4> QED
        BY <2>10, <3>1, <3>3, <4>1, <2>2, <2>4
        DEF Reject, Unusable, Spent, RecordedAs, TypeOK, Times, Grant
    <3> QED
      BY <2>10, <3>2, <3>3 DEF Reject, Unusable
  <2> QED
    BY <1>7, <2>7, <2>8, <2>9, <2>10
<1>8. ASSUME Manages
      PROVE  FALSE
  BY <1>8 DEF Manages, Revoke, Move, Withdraw, Tick
<1> QED
  BY <1>1, <1>2, <1>3, <1>4, <1>5, <1>6, <1>7, <1>8, Steps

----------------------------------------------------------------------------
\* A step leaves the memory and the disk of every agent but one alone.
Still(b) == UNCHANGED <<phase[b], request[b], grant[b], pending[b], installed[b], counter[b],
                        drawn[b]>>

\* A step is of one agent at most.
LEMMA OneMoves ==
    ASSUME TypeOK, Next, NEW b \in Agents
    PROVE  Still(b) \/ Local(b) \/ Begin(b) \/ Repeat(b) \/ SendPending(b)
<1>0. /\ phase \in [Agents -> Resting \cup {"hub", "granted", "sealed", "cell"}]
      /\ request \in [Agents -> Request \cup {None}] /\ grant \in [Agents -> Grant \cup {None}]
      /\ pending \in [Agents -> Pending \cup {None}]
      /\ installed \in [Agents -> [secret : Candidates, id : Candidates] \cup {None}]
      /\ counter \in [Agents -> Counters] /\ drawn \in [Agents -> 0..MaxSends]
  BY DEF TypeOK
<1>1. ASSUME NEW a \in Agents, Local(a), a # b
      PROVE  Still(b)
  BY <1>0, <1>1 DEF Local, TakeGrant, NotGranted, Seal, FailClosed, Finish, Rejected, Stop, Still,
                    memory, disk
<1>2. ASSUME NEW a \in Agents, Begin(a) \/ Repeat(a) \/ SendPending(a), a # b
      PROVE  Still(b)
  BY <1>0, <1>2 DEF Begin, Repeat, SendPending, Send, Still, memory
<1>3. ASSUME NEW m \in net, \/ IssueFirst(m) \/ IssueReplay(m) \/ IssueRefused(m)
                            \/ Commit(m) \/ CommitReplay(m) \/ Conflict(m) \/ Reject(m)
      PROVE  UNCHANGED <<memory, disk>>
  BY <1>3, AnswerEffect DEF IssueFirst, Commit
<1>4. ASSUME Manages
      PROVE  UNCHANGED <<memory, disk>>
  BY <1>4 DEF Manages, Revoke, Move, Withdraw, Tick
<1>5. ASSUME UNCHANGED <<memory, disk>>
      PROVE  Still(b)
  BY <1>5 DEF Still, memory, disk
<1> QED
  BY <1>1, <1>2, <1>3, <1>4, <1>5, Steps

\* The phase of an agent says what it holds.
LEMMA StagesKept ==
    ASSUME TypeOK, TypeOK', Stages, Next
    PROVE  Stages'
<1> SUFFICES ASSUME NEW a \in Agents
             PROVE  /\ phase'[a] = "hub" => request'[a] # None
                    /\ phase'[a] = "granted" => grant'[a] # None
                    /\ phase'[a] \in {"sealed", "cell"} => pending'[a] # None
                    /\ phase'[a] \in {"hub", "granted"} => pending'[a] = None /\ drawn'[a] < counter'[a]
                    /\ drawn'[a] <= counter'[a]
                    /\ pending'[a] # None => pending'[a].candidate = drawn'[a]
  BY DEF Stages
<1>0. drawn[a] \in Nat /\ counter[a] \in Nat /\ None \notin Pending \cup Grant \cup Request
  BY Numbers, NoneAssumption
<1>1. /\ phase \in [Agents -> Resting \cup {"hub", "granted", "sealed", "cell"}]
      /\ request \in [Agents -> Request \cup {None}] /\ grant \in [Agents -> Grant \cup {None}]
      /\ pending \in [Agents -> Pending \cup {None}]
      /\ counter \in [Agents -> Counters] /\ drawn \in [Agents -> 0..MaxSends]
  BY DEF TypeOK
<1>2. CASE Still(a)
  BY <1>2 DEF Still, Stages
<1>3. CASE TakeGrant(a)
  <2>1. grant'[a] # None
    BY <1>0, <1>1, <1>3, Shapes DEF TakeGrant, Answers, TypeOK
  <2> QED
    BY <1>1, <1>3, <2>1 DEF TakeGrant, Stages, disk
<1>4. CASE NotGranted(a) \/ FailClosed(a) \/ Stop(a)
  BY <1>1, <1>4 DEF NotGranted, FailClosed, Stop, Stages, disk
<1>5. CASE Seal(a)
  <2>1. /\ pending'[a] = [candidate |-> Draw(a), grant |-> grant[a]]
        /\ drawn'[a] = drawn[a] + 1 /\ counter'[a] = counter[a] /\ phase'[a] = "sealed"
        /\ drawn[a] < counter[a]
    BY <1>1, <1>5 DEF Seal, Stages
  <2>2. pending'[a] # None
    <3>1. grant[a] \in Grant /\ drawn'[a] \in Candidates
      BY <1>0, <1>1, <1>5, <2>1 DEF Seal, Stages, TypeOK, Candidates
    <3>2. [candidate |-> Draw(a), grant |-> grant[a]] \in Pending
      BY <2>1, <3>1 DEF Pending, Draw
    <3> QED
      BY <1>0, <2>1, <3>2
  <2> QED
    BY <1>0, <2>1, <2>2 DEF Draw
<1>6. CASE Finish(a) \/ Rejected(a)
  BY <1>1, <1>6 DEF Finish, Rejected, Stages
<1>7. CASE Begin(a)
  <2>1. request'[a] # None
    <3>1. \A n \in Nonces, c \in Creds : [nonce |-> n, cred |-> c] # None
      BY <1>0 DEF Request
    <3> QED
      BY <1>1, <1>7, <3>1 DEF Begin
  <2> QED
    BY <1>0, <1>1, <1>7, <2>1 DEF Begin, MayBegin, Send, Stages
<1>8. CASE Repeat(a) \/ SendPending(a)
  BY <1>0, <1>1, <1>8 DEF Repeat, SendPending, Send, Stages, memory
<1> QED
  BY <1>2, <1>3, <1>4, <1>5, <1>6, <1>7, <1>8, OneMoves DEF Local

\* The grant in memory or sealed on disk is on record.
LEMMA HeldKept ==
    ASSUME TypeOK, TypeOK', Stages, Held, GrantsIssued, Next, Forward
    PROVE  Held'
<1> SUFFICES ASSUME NEW a \in Agents
             PROVE  /\ grant'[a] # None => IsOfNext(a, grant'[a])
                    /\ pending'[a] # None => IsOfNext(a, pending'[a].grant)
  BY DEF Held, IsOf, IsOfNext
<1>1. /\ request \in [Agents -> Request \cup {None}] /\ grant \in [Agents -> Grant \cup {None}]
      /\ pending \in [Agents -> Pending \cup {None}]
  BY DEF TypeOK
<1>2. /\ grant[a] # None => grant[a] \in Grant /\ IsOfNext(a, grant[a])
      /\ pending[a] # None => IsOfNext(a, pending[a].grant)
  BY <1>1, RecordKept DEF Held, Pending
<1>3. CASE grant'[a] \in {grant[a], None} /\ pending'[a] \in {pending[a], None}
  BY <1>2, <1>3
<1>4. CASE TakeGrant(a)
  <2>1. PICK m \in net : Answers(m, a, {"granted"}) /\ grant' = [grant EXCEPT ![a] = m.grant]
    BY <1>4 DEF TakeGrant
  <2>2. m.grant \in Grant /\ IsOf(a, m.grant)
    BY <2>1, Shapes DEF Answers, GrantsIssued, TypeOK
  <2> QED
    BY <1>1, <1>2, <1>4, <2>1, <2>2, RecordKept DEF TakeGrant, disk
<1>5. CASE Seal(a)
  BY <1>1, <1>2, <1>5 DEF Seal, Stages
<1>6. CASE NotGranted(a) \/ FailClosed(a) \/ Finish(a) \/ Rejected(a) \/ Stop(a)
  BY <1>1, <1>3, <1>6 DEF NotGranted, FailClosed, Finish, Rejected, Stop, disk
<1>7. CASE Still(a)
  BY <1>3, <1>7 DEF Still
<1>8. CASE Begin(a) \/ Repeat(a) \/ SendPending(a)
  BY <1>3, <1>8, SendEffect
<1> QED
  BY <1>4, <1>5, <1>6, <1>7, <1>8, OneMoves DEF Local

----------------------------------------------------------------------------
\* The records of the platform.
LEMMA GrantStep ==
    ASSUME TypeOK, Episodes, Next
    PROVE  UNCHANGED <<issued, anchor>> \/ \E q \in net : \E g : FirstGrant(q, g)
<1>1. ASSUME NEW a \in Agents, Local(a)
      PROVE  UNCHANGED <<issued, anchor>>
  BY <1>1, LocalEffect DEF records
<1>2. ASSUME NEW a \in Agents, Begin(a) \/ Repeat(a) \/ SendPending(a)
      PROVE  UNCHANGED <<issued, anchor>>
  BY <1>2, SendEffect DEF records
<1>3. ASSUME NEW m \in net, \/ IssueReplay(m) \/ IssueRefused(m) \/ Commit(m)
                            \/ CommitReplay(m) \/ Conflict(m) \/ Reject(m)
      PROVE  UNCHANGED <<issued, anchor>>
  BY <1>3, AnswerEffect DEF Commit, records
<1>4. ASSUME NEW m \in net, IssueFirst(m)
      PROVE  \E g : FirstGrant(m, g)
  BY <1>4, Granting
<1>5. ASSUME Manages
      PROVE  UNCHANGED <<issued, anchor>>
  BY <1>5 DEF Manages, Revoke, Move, Withdraw, Tick, records
<1> QED
  BY <1>1, <1>2, <1>3, <1>4, <1>5, Steps

\* A fence moves by a commit or a revocation.
LEMMA FenceStep ==
    ASSUME Next
    PROVE  \/ UNCHANGED <<revoked, fence>>
           \/ \E m \in net : Commit(m)
           \/ \E a \in Agents : Revoke(a)
<1>1. ASSUME NEW a \in Agents, Local(a)
      PROVE  UNCHANGED <<revoked, fence>>
  BY <1>1, LocalEffect DEF operator
<1>2. ASSUME NEW a \in Agents, Begin(a) \/ Repeat(a) \/ SendPending(a)
      PROVE  UNCHANGED <<revoked, fence>>
  BY <1>2, SendEffect DEF operator
<1>3. ASSUME NEW m \in net, \/ IssueFirst(m) \/ IssueReplay(m) \/ IssueRefused(m)
                            \/ CommitReplay(m) \/ Conflict(m) \/ Reject(m)
      PROVE  UNCHANGED <<revoked, fence>>
  BY <1>3, AnswerEffect DEF IssueFirst, operator
<1>4. ASSUME NEW a \in Agents, Move(a)
      PROVE  UNCHANGED <<revoked, fence>>
  BY <1>4 DEF Move
<1>5. ASSUME (\E c \in Creds : Withdraw(c)) \/ Tick
      PROVE  UNCHANGED <<revoked, fence>>
  BY <1>5 DEF Withdraw, Tick
<1> QED
  BY <1>1, <1>2, <1>3, <1>4, <1>5, Steps DEF Manages

\* The fields of a recorded grant.
LEMMA GrantTypes ==
    ASSUME TypeOK, NEW n \in Nonces, issued[n] # None
    PROVE  LET g == issued[n].grant
           IN  /\ g \in Grant /\ g.agent \in Agents /\ g.fence \in Fences
               /\ g.generation \in Nat /\ g.expires \in Nat
BY DEF TypeOK, Issued, Grant

\* A recorded grant has an anchor no later than its expiry; no anchor is more than a lifetime ahead.
LEMMA IssuesKept ==
    ASSUME TypeOK, TypeOK', Issues, Anchors, Episodes, Next, Forward
    PROVE  Issues' /\ Anchors'
<1>0. /\ now \in Nat /\ now' \in Nat /\ Lifetime \in Nat \ {0}
      /\ \A a \in Agents, f \in Fences : anchor[a][f] \in Nat /\ anchor'[a][f] \in Nat
      /\ anchor \in [Agents -> [Fences -> Nat]] /\ issued \in [Nonces -> Issued \cup {None}]
  BY TimesAssumption DEF TypeOK, Times
<1>1. ASSUME NEW n \in Nonces, issued[n] # None
      PROVE  LET g == issued'[n].grant
             IN  /\ g.nonce = n /\ g.agent = issued'[n].agent
                 /\ g.fence <= fence'[g.agent] /\ g.generation <= generation'[g.agent]
                 /\ anchor'[g.agent][g.fence] # 0 /\ anchor'[g.agent][g.fence] <= g.expires
  <2> DEFINE g == issued[n].grant
  <2>1. issued'[n] = issued[n] /\ g.agent \in Agents /\ g.fence \in Fences
        /\ g.fence \in Nat /\ g.generation \in Nat
    BY <1>1, GrantTypes DEF Forward, Fences
  <2>2. /\ g.nonce = n /\ g.agent = issued[n].agent
        /\ g.fence <= fence[g.agent] /\ g.generation <= generation[g.agent]
        /\ anchor[g.agent][g.fence] # 0 /\ anchor[g.agent][g.fence] <= g.expires
    BY <1>1 DEF Issues
  <2>3. /\ fence[g.agent] <= fence'[g.agent] /\ generation[g.agent] <= generation'[g.agent]
        /\ anchor'[g.agent][g.fence] = anchor[g.agent][g.fence]
    BY <2>1, <2>2 DEF Forward
  <2>4. /\ fence[g.agent] \in Nat /\ fence'[g.agent] \in Nat
        /\ generation[g.agent] \in Nat /\ generation'[g.agent] \in Nat
    BY <2>1 DEF TypeOK
  <2> HIDE DEF g
  <2>5. g.fence <= fence'[g.agent] /\ g.generation <= generation'[g.agent]
    BY <2>1, <2>2, <2>3, <2>4
  <2> QED
    BY <2>1, <2>2, <2>3, <2>5 DEF g
<1>2. CASE UNCHANGED <<issued, anchor>>
  <2>1. Issues'
    BY <1>1, <1>2 DEF Issues
  <2>2. Anchors'
    BY <1>0, <1>2 DEF Anchors, Forward
  <2> QED
    BY <2>1, <2>2
<1>3. ASSUME NEW q \in net, NEW g, FirstGrant(q, g)
      PROVE  Issues' /\ Anchors'
  <2> DEFINE a == q.agent
  <2>1. /\ a \in Agents /\ g.fence \in Fences /\ g.expires \in Nat /\ g.agent = a
        /\ g.generation \in Nat /\ g.fence \in Nat
    BY <1>3 DEF FirstGrant, Grant, Fences
  <2>2. /\ anchor' = [anchor EXCEPT ![a][g.fence] = Anchored(@, g)]
        /\ g.expires = now + Lifetime /\ g.fence = fence[a] /\ g.generation = generation[a]
        /\ g.nonce = q.request.nonce /\ g.nonce \in Nonces
        /\ issued' = [issued EXCEPT ![g.nonce] = [agent |-> a, cred |-> g.cred, grant |-> g]]
        /\ now' = now /\ fence' = fence /\ generation' = generation
    BY <1>3 DEF FirstGrant, operator
  <2>3. anchor[a][g.fence] <= now + Lifetime
    BY <2>1 DEF Anchors
  <2>4. /\ anchor'[a][g.fence] = Anchored(anchor[a][g.fence], g)
        /\ \A b \in Agents, f \in Fences : <<b, f>> # <<a, g.fence>> => anchor'[b][f] = anchor[b][f]
    BY <1>0, <2>1, <2>2
  <2>5. anchor'[a][g.fence] # 0 /\ anchor'[a][g.fence] <= g.expires
    BY <1>0, <2>1, <2>2, <2>3, <2>4 DEF Anchored
  <2>6. Anchors'
    <3> SUFFICES ASSUME NEW b \in Agents, NEW f \in Fences
                 PROVE  anchor'[b][f] <= now' + Lifetime
      BY DEF Anchors
    <3>1. CASE b = a /\ f = g.fence
      BY <2>2, <2>5, <3>1
    <3>2. CASE <<b, f>> # <<a, g.fence>>
      <4>1. anchor'[b][f] = anchor[b][f] /\ now' = now
        BY <2>2, <2>4, <3>2
      <4>2. anchor[b][f] <= now + Lifetime
        BY DEF Anchors
      <4> QED
        BY <4>1, <4>2
    <3> QED
      BY <3>1, <3>2
  <2>7. ASSUME NEW n \in Nonces, issued'[n] # None
        PROVE  LET h == issued'[n].grant
               IN  /\ h.nonce = n /\ h.agent = issued'[n].agent
                   /\ h.fence <= fence'[h.agent] /\ h.generation <= generation'[h.agent]
                   /\ anchor'[h.agent][h.fence] # 0 /\ anchor'[h.agent][h.fence] <= h.expires
    <3>1. CASE n = g.nonce
      BY <1>0, <2>1, <2>2, <2>5, <3>1
    <3>2. CASE n # g.nonce
      <4>1. issued[n] # None
        BY <1>0, <2>2, <2>7, <3>2
      <4> QED
        BY <4>1, <1>1
    <3> QED
      BY <3>1, <3>2
  <2>8. Issues'
    BY <2>7 DEF Issues
  <2> QED
    BY <2>6, <2>8
<1> QED
  BY <1>2, <1>3, GrantStep

\* An episode that is past and not revoked has its replacement on record.
LEMMA EpisodesKept ==
    ASSUME TypeOK, TypeOK', Episodes, Next, Forward
    PROVE  Episodes'
<1> SUFFICES ASSUME NEW b \in Agents
             PROVE  /\ revoked'[b] => fence'[b] # 0
                    /\ fence'[b] # 0 /\ ~revoked'[b] => committed'[b][fence'[b]] # None
  BY DEF Episodes
<1>0. /\ revoked \in [Agents -> BOOLEAN] /\ fence \in [Agents -> 0..MaxFence]
      /\ fence[b] \in Nat /\ (fence[b] # 0 => fence[b] \in Fences)
  BY BoundsAssumption DEF TypeOK, Fences
<1>1. CASE UNCHANGED <<revoked[b], fence[b]>>
  BY <1>0, <1>1 DEF Episodes, Forward
<1>2. ASSUME NEW m \in net, Commit(m), m.agent = b
      PROVE  revoked'[b] = FALSE /\ fence'[b] = fence[b] /\ committed'[b][fence[b]] # None
  <2>1. m.pending \in Pending
    BY <1>2, Shapes DEF Commit, TypeOK
  <2>2. m.pending.grant \in Grant /\ m.pending.candidate \in Candidates
    BY <2>1 DEF Pending
  <2>3. m.pending.grant.fence \in Fences /\ m.pending.grant.fence = fence[b]
    BY <1>2, <2>2 DEF Grant, Commit, Bound
  <2>4. [candidate |-> m.pending.candidate, grant |-> m.pending.grant, at |-> now] \in Completion
    BY <2>2 DEF Completion, TypeOK
  <2>5. committed'[b][fence[b]] =
            [candidate |-> m.pending.candidate, grant |-> m.pending.grant, at |-> now]
    BY <1>2, <2>3 DEF Commit, TypeOK
  <2>6. committed'[b][fence[b]] # None
    BY <2>4, <2>5, NoneAssumption
  <2> QED
    BY <1>0, <1>2, <2>6 DEF Commit
<1>3. ASSUME NEW m \in net, Commit(m), m.agent # b
      PROVE  UNCHANGED <<revoked[b], fence[b]>>
  BY <1>0, <1>3 DEF Commit
<1>4. ASSUME NEW a \in Agents, Revoke(a)
      PROVE  UNCHANGED <<revoked[b], fence[b]>> \/ (revoked'[b] /\ fence'[b] # 0)
  <2>1. CASE a = b
    <3>1. fence'[b] = fence[b] + 1
      BY <1>0, <1>4, <2>1 DEF Revoke
    <3>2. revoked'[b]
      BY <1>0, <1>4, <2>1, Zenon DEF Revoke
    <3>3. fence'[b] # 0
      BY <1>0, <3>1
    <3> QED
      BY <3>2, <3>3, Zenon
  <2>2. CASE a # b
    BY <1>0, <1>4, <2>2 DEF Revoke
  <2> QED
    BY <2>1, <2>2
<1>5. CASE \E m \in net : Commit(m)
  BY <1>0, <1>1, <1>2, <1>3, <1>5
<1>6. CASE \E a \in Agents : Revoke(a)
  BY <1>1, <1>4, <1>6
<1> QED
  BY <1>1, <1>5, <1>6, FenceStep

----------------------------------------------------------------------------
\* The fields of a request to complete.
LEMMA CompleteTypes ==
    ASSUME TypeOK, NEW q \in Completes
    PROVE  /\ q \in net /\ q.type = "complete" /\ q.agent \in Agents /\ q.counter \in Nat
           /\ q.pending \in Pending /\ q.pending.candidate \in Nat
           /\ q.pending.grant \in Grant /\ q.pending.grant.fence \in Fences
           /\ q.pending.grant.nonce \in Nonces /\ q.pending.grant.expires \in Nat
<1>1. q \in net /\ q.type = "complete" /\ q.agent \in Agents /\ q.counter \in Counters
      /\ q.pending \in Pending
  BY Shapes DEF Completes, TypeOK
<1>2. q.pending.candidate \in Nat /\ q.pending.grant \in Grant
  BY <1>1 DEF Pending, Candidates
<1> QED
  BY <1>1, <1>2 DEF Grant, Counters

\* The fields of a recorded replacement.
LEMMA CommittedTypes ==
    ASSUME TypeOK, NEW a \in Agents, NEW f \in Fences, committed[a][f] # None
    PROVE  /\ committed[a][f].candidate \in Nat /\ committed[a][f].at \in Nat
           /\ committed[a][f].grant \in Grant
BY DEF TypeOK, Completion, Candidates, Times

\* A recorded replacement was asked for by its agent, with a grant on record.
LEMMA CommitWasAsked ==
    ASSUME TypeOK, Commits, Proposals, NEW a \in Agents, NEW f \in Fences, committed[a][f] # None
    PROVE  \E q \in Completes :
              /\ q.agent = a /\ q.pending.grant = committed[a][f].grant
              /\ q.pending.candidate = committed[a][f].candidate
              /\ q.pending.grant.fence = f /\ IsOf(a, committed[a][f].grant)
              /\ q.pending.candidate <= drawn[a]
BY DEF Commits, Proposals

\* A replacement is recorded before the horizon of its episode, because its agent asked.
LEMMA CommitsKept ==
    ASSUME TypeOK, TypeOK', Issues, Proposals, Commits, Next, Forward
    PROVE  Commits'
<1> SUFFICES ASSUME NEW a \in Agents, NEW f \in Fences, committed'[a][f] # None
             PROVE  LET c == committed'[a][f]
                    IN  /\ f <= fence'[a] /\ c.grant.fence = f
                        /\ anchor'[a][f] # 0 /\ c.at < anchor'[a][f] + Horizon
                        /\ \E q \in Completes' : /\ q.agent = a /\ q.pending.grant = c.grant
                                                 /\ q.pending.candidate = c.candidate
  BY DEF Commits
<1>0. /\ fence[a] \in Nat /\ fence'[a] \in Nat /\ fence[a] <= fence'[a] /\ f \in Nat
      /\ anchor[a][f] # 0 => anchor'[a][f] = anchor[a][f]
      /\ Completes \subseteq Completes'
  BY DEF TypeOK, Forward, Fences, Completes
<1>1. CASE committed'[a][f] = committed[a][f]
  BY <1>0, <1>1 DEF Commits
<1>2. CASE committed'[a][f] # committed[a][f]
  <2>1. PICK q \in Completes :
              /\ q.agent = a /\ q.pending.grant.fence = f /\ Commit(q)
              /\ MayCommit(a, q.pending)
              /\ committed'[a][f] = [candidate |-> q.pending.candidate,
                                     grant |-> q.pending.grant, at |-> now]
    BY ONLY TypeOK, Next, a \in Agents, f \in Fences, <1>2, Recording, ZenonT(30)
  <2>2. fence[a] = f /\ Open(a, f)
    BY <2>1 DEF MayCommit, Bound
  <2>3. IsOf(a, q.pending.grant) /\ q.pending.grant.nonce \in Nonces
    BY <2>1, CompleteTypes DEF Proposals
  <2>4. anchor[a][f] # 0
    BY <2>1, <2>3 DEF Issues, IsOf
  <2>5. now < anchor[a][f] + Horizon
    BY <2>2, <2>4 DEF Open, Before
  <2> QED
    BY <1>0, <2>1, <2>2, <2>4, <2>5
<1> QED
  BY <1>1, <1>2

\* What may be committed comes after all that was.
LEMMA OlderIsSmaller ==
    ASSUME TypeOK, Stages, Commits, Proposals, OnlyPendingCommits,
           NEW q \in Completes, MayCommit(q.agent, q.pending),
           NEW f \in Fences, committed[q.agent][f] # None
    PROVE  /\ f < q.pending.grant.fence
           /\ committed[q.agent][f].candidate < q.pending.candidate
<1> DEFINE a == q.agent
<1>1. a \in Agents /\ f \in Nat /\ q.pending.grant.fence \in Nat /\ drawn[a] \in Nat
  BY CompleteTypes, Numbers DEF Fences
<1>2. f <= fence[a] /\ q.pending.grant.fence = fence[a] /\ committed[a][fence[a]] = None
  BY <1>1 DEF Commits, MayCommit, Bound
<1>3. f < q.pending.grant.fence
  BY <1>1, <1>2
<1>4. pending[a] = q.pending /\ pending[a] # None /\ q.pending.candidate = drawn[a]
  BY <1>1, CompleteTypes, NoneAssumption DEF OnlyPendingCommits, Stages
<1>5. PICK r \in Completes : /\ r.agent = a /\ r.pending.candidate = committed[a][f].candidate
                             /\ r.pending.grant.fence = f /\ r.pending.candidate <= drawn[a]
  BY <1>1, CommitWasAsked
<1>6. r.pending.candidate # drawn[a]
  BY <1>3, <1>4, <1>5, <1>1 DEF Proposals
<1> QED
  BY <1>1, <1>3, <1>4, <1>5, <1>6, CompleteTypes

\* Replacements of later episodes have later candidates.
LEMMA InOrderKept ==
    ASSUME TypeOK, TypeOK', Stages, Commits, Proposals, OnlyPendingCommits, InOrder, Next, Forward
    PROVE  InOrder'
<1> SUFFICES ASSUME NEW a \in Agents, NEW f \in Fences, NEW g \in Fences, f < g,
                    committed'[a][f] # None, committed'[a][g] # None
             PROVE  committed'[a][f].candidate < committed'[a][g].candidate
  BY DEF InOrder
<1>0. f \in Nat /\ g \in Nat
  BY DEF Fences
<1>1. ASSUME NEW h \in Fences, committed'[a][h] # committed[a][h]
      PROVE  /\ \A k \in Fences : k # h => committed'[a][k] = committed[a][k]
             /\ \A k \in Fences : committed[a][k] # None =>
                   k < h /\ committed[a][k].candidate < committed'[a][h].candidate
  <2>1. PICK q \in Completes :
              /\ q.agent = a /\ q.pending.grant.fence = h /\ Commit(q)
              /\ MayCommit(a, q.pending)
              /\ committed'[a][h] = [candidate |-> q.pending.candidate,
                                     grant |-> q.pending.grant, at |-> now]
    BY <1>1, Recording
  <2>2. \A k \in Fences : k # h => committed'[a][k] = committed[a][k]
    BY <2>1 DEF Commit, TypeOK
  <2> QED
    BY <2>1, <2>2, OlderIsSmaller
<1>2. CASE committed'[a][f] # committed[a][f]
  BY <1>0, <1>1, <1>2
<1>3. CASE committed'[a][g] # committed[a][g]
  BY <1>0, <1>1, <1>3
<1>4. CASE committed'[a][f] = committed[a][f] /\ committed'[a][g] = committed[a][g]
  BY <1>4 DEF InOrder
<1> QED
  BY <1>2, <1>3, <1>4

----------------------------------------------------------------------------
\* A new request to complete is the pair on disk.
LEMMA NewComplete ==
    ASSUME TypeOK, Episodes, Next, NEW q \in Completes', q \notin Completes
    PROVE  /\ q.agent \in Agents /\ AskedNow(q.agent, q)
           /\ pending[q.agent] # None /\ q.pending = pending[q.agent] /\ pending' = pending
           /\ phase' = [phase EXCEPT ![q.agent] = "cell"]
<1>1. q \in net' /\ q \notin net /\ q.type = "complete"
  BY DEF Completes
<1>2. ~\E p \in net : AnsweredNow(p, q)
  BY <1>1 DEF AnsweredNow
<1>3. PICK a \in Agents : AskedNow(a, q)
  BY <1>1, <1>2, Sent
<1> QED
  BY <1>1, <1>3 DEF AskedNow

\* A grant under way is on record.
LEMMA GrantsIssuedKept ==
    ASSUME TypeOK, TypeOK', Episodes, GrantsIssued, Issues', Next, Forward
    PROVE  GrantsIssued'
<1> SUFFICES ASSUME NEW m \in net', m.type = "granted"
             PROVE  IsOfNext(m.agent, m.grant)
  BY DEF GrantsIssued, IsOf, IsOfNext
<1>1. CASE m \in net
  BY <1>1, Shapes, RecordKept DEF GrantsIssued, TypeOK
<1>2. CASE m \notin net
  <2>1. PICK q \in net : AnsweredNow(q, m)
    BY <1>2, Sent DEF AskedNow
  <2>2. /\ q.request.nonce \in Nonces /\ issued'[q.request.nonce] # None
        /\ issued'[q.request.nonce].agent = m.agent
        /\ m.grant = issued'[q.request.nonce].grant
    BY <2>1 DEF AnsweredNow
  <2>3. m.grant.nonce = q.request.nonce /\ m.grant.agent = m.agent
    BY <2>2 DEF Issues
  <2> QED
    BY <2>2, <2>3 DEF IsOfNext
<1> QED
  BY <1>1, <1>2

\* No datagram has a counter its agent has not used.
LEMMA BehindKept ==
    ASSUME TypeOK, TypeOK', Episodes, Behind, Next, Forward
    PROVE  Behind'
<1> SUFFICES ASSUME NEW m \in net'
             PROVE  m.counter <= counter'[m.agent]
  BY DEF Behind
<1>0. m.agent \in Agents /\ m.counter \in Nat /\ counter[m.agent] \in Nat /\ counter'[m.agent] \in Nat
  <2>1. net' \subseteq Message
    BY DEF TypeOK
  <2>2. m.agent \in Agents /\ m.counter \in Counters
    BY <2>1 DEF Message
  <2> QED
    BY <2>2 DEF Counters, TypeOK
<1>1. CASE m \in net
  BY <1>0, <1>1 DEF Behind, Forward
<1>2. ASSUME m \notin net, NEW a \in Agents, AskedNow(a, m)
      PROVE  m.counter <= counter'[m.agent]
  BY <1>0, <1>2 DEF AskedNow, TypeOK
<1>3. ASSUME m \notin net, NEW q \in net, AnsweredNow(q, m)
      PROVE  m.counter <= counter'[m.agent]
  BY <1>0, <1>3 DEF AnsweredNow, Behind, disk
<1> QED
  BY <1>1, <1>2, <1>3, Sent

----------------------------------------------------------------------------
\* What becomes of a sealed pair and of the credential in use.
LEMMA PairStep ==
    ASSUME TypeOK, Stages, Next, NEW a \in Agents
    PROVE  \/ UNCHANGED <<pending[a], installed[a], drawn[a]>>
           \/ /\ Finish(a) \/ (Rejected(a) /\ UNCHANGED installed[a])
              /\ pending[a] # None /\ pending'[a] = None /\ drawn'[a] = drawn[a]
           \/ /\ Seal(a) /\ pending[a] = None
              /\ drawn'[a] = drawn[a] + 1 /\ UNCHANGED installed[a]
<1>1. /\ pending \in [Agents -> Pending \cup {None}] /\ drawn \in [Agents -> 0..MaxSends]
      /\ phase[a] = "cell" => pending[a] # None
      /\ phase[a] = "granted" => pending[a] = None
  BY DEF TypeOK, Stages
<1>2. CASE Still(a)
  BY <1>2 DEF Still
<1>3. CASE Begin(a) \/ Repeat(a) \/ SendPending(a)
  BY <1>3, SendEffect
<1>4. CASE TakeGrant(a) \/ NotGranted(a) \/ FailClosed(a) \/ Stop(a)
  BY <1>4 DEF TakeGrant, NotGranted, FailClosed, Stop, disk
<1>5. CASE Seal(a)
  BY <1>1, <1>5 DEF Seal
<1>6. CASE Finish(a)
  BY <1>1, <1>6 DEF Finish
<1>7. CASE Rejected(a)
  BY <1>1, <1>7 DEF Rejected
<1> QED
  BY <1>2, <1>3, <1>4, <1>5, <1>6, <1>7, OneMoves DEF Local

\* What an agent asked to complete it had sealed, under a grant on record.
LEMMA ProposalsKept ==
    ASSUME TypeOK, TypeOK', Stages, Held, Episodes, Proposals, Next, Forward
    PROVE  Proposals'
<1> SUFFICES ASSUME NEW q \in Completes'
             PROVE  /\ IsOfNext(q.agent, q.pending.grant)
                    /\ q.pending.candidate <= drawn'[q.agent]
                    /\ pending'[q.agent] # None /\ q.pending.candidate = drawn'[q.agent] =>
                          q.pending = pending'[q.agent]
  BY DEF Proposals, IsOf, IsOfNext
<1>1. CASE q \in Completes
  <2>1. /\ q.agent \in Agents /\ q.pending.grant \in Grant /\ q.pending.candidate \in Nat
        /\ drawn[q.agent] \in Nat
    BY <1>1, CompleteTypes, Numbers
  <2>2. /\ IsOfNext(q.agent, q.pending.grant) /\ q.pending.candidate <= drawn[q.agent]
        /\ pending[q.agent] # None /\ q.pending.candidate = drawn[q.agent] =>
              q.pending = pending[q.agent]
    BY <1>1, <2>1, RecordKept DEF Proposals
  <2> QED
    BY <2>1, <2>2, PairStep
<1>2. CASE q \notin Completes
  <2>1. q.agent \in Agents /\ pending[q.agent] # None /\ q.pending = pending[q.agent]
        /\ pending'[q.agent] = pending[q.agent]
    BY <1>2, NewComplete
  <2>2. q.pending \in Pending /\ q.pending.grant \in Grant /\ IsOf(q.agent, q.pending.grant)
        /\ q.pending.candidate = drawn[q.agent]
    BY <2>1 DEF TypeOK, Held, Stages, Pending
  <2>3. drawn'[q.agent] = drawn[q.agent] /\ drawn[q.agent] \in Nat
    BY <2>1, PairStep, Numbers
  <2> QED
    BY <2>1, <2>2, <2>3, RecordKept
<1> QED
  BY <1>1, <1>2

\* A candidate was proposed with one grant only.
LEMMA OnePairKept ==
    ASSUME TypeOK, Stages, Episodes, Proposals, OnePair, Next
    PROVE  OnePair'
<1>1. ASSUME NEW q \in Completes', q \notin Completes, NEW r \in Completes', q.agent = r.agent,
             q.pending.candidate = r.pending.candidate
      PROVE  q.pending = r.pending
  <2>1. q.agent \in Agents /\ pending[q.agent] # None /\ q.pending = pending[q.agent]
    BY <1>1, NewComplete
  <2>2. q.pending.candidate = drawn[q.agent]
    BY <2>1 DEF Stages
  <2>3. CASE r \in Completes
    BY <1>1, <2>1, <2>2, <2>3 DEF Proposals
  <2>4. CASE r \notin Completes
    BY <1>1, <2>1, <2>4, NewComplete
  <2> QED
    BY <2>3, <2>4
<1>2. ASSUME NEW q \in Completes', NEW r \in Completes', q.agent = r.agent,
             q.pending.candidate = r.pending.candidate
      PROVE  q.pending = r.pending
  <2>1. CASE q \in Completes /\ r \in Completes
    BY <1>2, <2>1 DEF OnePair
  <2>2. CASE q \notin Completes
    BY <1>1, <1>2, <2>2
  <2>3. CASE r \notin Completes
    BY <1>1, <1>2, <2>3
  <2> QED
    BY <2>1, <2>2, <2>3
<1> QED
  BY <1>2 DEF OnePair

\* The request the agent waits for is the pair on its disk.
LEMMA InProgressKept ==
    ASSUME TypeOK, Stages, Episodes, Behind, InProgress, Next
    PROVE  InProgress'
<1> SUFFICES ASSUME NEW q \in Completes', phase'[q.agent] = "cell", q.counter = counter'[q.agent]
             PROVE  q.pending = pending'[q.agent]
  BY DEF InProgress
<1>1. CASE q \notin Completes
  BY <1>1, NewComplete
<1>2. CASE q \in Completes
  <2> DEFINE a == q.agent
  <2>1. /\ a \in Agents /\ q.counter \in Nat /\ counter[a] \in Nat /\ q.counter <= counter[a]
        /\ phase \in [Agents -> Resting \cup {"hub", "granted", "sealed", "cell"}]
        /\ counter \in [Agents -> Counters]
    BY <1>2, CompleteTypes, Numbers DEF Behind, TypeOK
  <2>2. CASE Still(a)
    BY <1>2, <2>2 DEF Still, InProgress
  <2>3. ASSUME Local(a)
        PROVE  FALSE
    BY <2>1, <2>3 DEF Local, TakeGrant, NotGranted, Seal, FailClosed, Finish, Rejected, Stop
  <2>4. ASSUME Begin(a)
        PROVE  FALSE
    BY <2>1, <2>4 DEF Begin
  <2>5. ASSUME Repeat(a) \/ SendPending(a)
        PROVE  FALSE
    BY <2>1, <2>5, SendEffect
  <2> QED
    BY <2>1, <2>2, <2>3, <2>4, <2>5, OneMoves
<1> QED
  BY <1>1, <1>2

----------------------------------------------------------------------------
\* A completion that is told is recorded.
LEMMA CompletionsKept ==
    ASSUME TypeOK, Episodes, CompletionsTrue, Next, Forward
    PROVE  CompletionsTrue'
<1> SUFFICES ASSUME NEW m \in net', m.type = "completed"
             PROVE  \E q \in Completes' : /\ q.agent = m.agent /\ q.counter = m.counter
                                         /\ q.pending.candidate = m.key
                                         /\ RecordedAs(q.agent, q.pending)'
  BY DEF CompletionsTrue
<1>0. Completes \subseteq Completes'
  BY DEF Completes, Forward
<1>1. CASE m \in net
  <2>1. PICK q \in Completes : /\ q.agent = m.agent /\ q.counter = m.counter
                               /\ q.pending.candidate = m.key
                               /\ RecordedAs(q.agent, q.pending)
    BY <1>1 DEF CompletionsTrue
  <2>2. RecordedAs(q.agent, q.pending)'
    BY <2>1, CompleteTypes DEF RecordedAs, Forward
  <2> QED
    BY <1>0, <2>1, <2>2
<1>2. CASE m \notin net
  <2>1. PICK q \in net : AnsweredNow(q, m)
    BY <1>2, Sent DEF AskedNow
  <2> QED
    BY <1>0, <2>1 DEF AnsweredNow, Completes
<1> QED
  BY <1>1, <1>2

\* A pair that can never count again never does.
LEMMA SpentKept ==
    ASSUME TypeOK, TypeOK', Issues, Proposals, OnePair, Next, Forward,
           NEW q \in Completes, Spent(q.agent, q.pending)
    PROVE  Spent(q.agent, q.pending)'
<1> DEFINE a == q.agent
           p == q.pending
           f == p.grant.fence
<1>1. /\ a \in Agents /\ f \in Fences /\ p \in Pending /\ p.grant \in Grant
      /\ p.grant.expires \in Nat /\ IsOf(a, p.grant)
  BY CompleteTypes DEF Proposals
<1>5. ASSUME committed'[a][f] # committed[a][f]
      PROVE  \E r \in Completes :
              /\ r.agent = a /\ r.pending.grant.fence = f
              /\ MayCommit(a, r.pending)
              /\ committed'[a][f] = [candidate |-> r.pending.candidate,
                                     grant |-> r.pending.grant, at |-> now]
  <2>1. TypeOK /\ Next
    OBVIOUS
  <2> HIDE DEF a, f
  <2> QED
    BY ONLY <1>1, <1>5, <2>1, Recording
<1>2. CASE ~Open(a, f)
  BY <1>1, <1>2, OpenBefore DEF Spent
<1>3. CASE ~Bound(a, p.grant)
  BY <1>1, <1>3, BoundBefore DEF Spent
<1>4. CASE now >= p.grant.expires /\ ~RecordedAs(a, p)
  <2>1. now' >= p.grant.expires /\ ~(now < p.grant.expires)
    BY <1>1, <1>4 DEF Forward, TypeOK, Times
  <2>2. CASE committed'[a][f] = committed[a][f]
    BY <1>4, <2>1, <2>2 DEF Spent, RecordedAs
  <2>3. CASE committed'[a][f] # committed[a][f]
    <3>1. PICK r \in Completes :
              /\ r.agent = a /\ r.pending.grant.fence = f
              /\ MayCommit(a, r.pending)
              /\ committed'[a][f] = [candidate |-> r.pending.candidate,
                                     grant |-> r.pending.grant, at |-> now]
      BY <2>3, <1>5
    <3>2. r.pending # p
      BY <2>1, <3>1 DEF MayCommit
    <3>3. r.pending.candidate # p.candidate
      BY <3>1, <3>2 DEF OnePair
    <3> QED
      BY <2>1, <3>1, <3>3 DEF Spent, RecordedAs
  <2> QED
    BY <2>2, <2>3
<1> QED
  BY <1>2, <1>3, <1>4 DEF Spent

\* A rejected pair can never count again.
LEMMA RejectionsKept ==
    ASSUME TypeOK, TypeOK', Episodes, Issues, Proposals, OnePair, RejectionsTrue, Next, Forward
    PROVE  RejectionsTrue'
<1> SUFFICES ASSUME NEW m \in net', m.type = "grant_rejected"
             PROVE  \E q \in Completes' : /\ q.agent = m.agent /\ q.counter = m.counter
                                         /\ Spent(q.agent, q.pending)'
  BY DEF RejectionsTrue
<1>0. Completes \subseteq Completes'
  BY DEF Completes, Forward
<1>1. CASE m \in net
  BY <1>0, <1>1, SpentKept DEF RejectionsTrue
<1>2. CASE m \notin net
  <2>1. PICK q \in net : AnsweredNow(q, m)
    BY <1>2, Sent DEF AskedNow
  <2>2. q \in Completes /\ Spent(q.agent, q.pending)
    BY <2>1 DEF AnsweredNow, Completes
  <2> QED
    BY <1>0, <2>1, <2>2, SpentKept DEF AnsweredNow
<1> QED
  BY <1>1, <1>2

----------------------------------------------------------------------------
\* The agent gives a pair up when it is recorded, or can never count again.
LEMMA GivenUp ==
    ASSUME TypeOK, Stages, InProgress, CompletionsTrue, RejectionsTrue, NEW a \in Agents
    PROVE  /\ Finish(a) => /\ RecordedAs(a, pending[a])
                           /\ installed' = [installed EXCEPT ![a] =
                                  [secret |-> pending[a].candidate, id |-> pending[a].candidate]]
           /\ Rejected(a) /\ pending'[a] = None => Spent(a, pending[a])
<1>1. \A q \in Completes : phase[a] = "cell" /\ q.agent = a /\ q.counter = counter[a] =>
          q.pending = pending[a]
  BY DEF InProgress
<1>2. ASSUME Finish(a)
      PROVE  /\ RecordedAs(a, pending[a])
             /\ installed' = [installed EXCEPT ![a] =
                    [secret |-> pending[a].candidate, id |-> pending[a].candidate]]
  <2>1. PICK m \in net : /\ Answers(m, a, {"completed"})
                         /\ installed' = [installed EXCEPT ![a] =
                                [secret |-> pending[a].candidate, id |-> m.key]]
    BY <1>2 DEF Finish
  <2>2. PICK q \in Completes : /\ q.agent = m.agent /\ q.counter = m.counter
                               /\ q.pending.candidate = m.key
                               /\ RecordedAs(q.agent, q.pending)
    BY <2>1 DEF CompletionsTrue, Answers
  <2>3. q.pending = pending[a] /\ q.agent = a
    BY <1>1, <1>2, <2>1, <2>2 DEF Finish, Answers
  <2> QED
    BY <2>1, <2>2, <2>3 DEF RecordedAs
<1>3. ASSUME Rejected(a), pending'[a] = None
      PROVE  Spent(a, pending[a])
  <2>1. PICK m \in net, p \in {pending[a], None} :
          /\ Answers(m, a, {"grant_rejected", "credential_conflict"})
          /\ m.type = "credential_conflict" => p # None
          /\ pending' = [pending EXCEPT ![a] = p]
    BY <1>3 DEF Rejected
  <2>2. p = None /\ m.type = "grant_rejected"
    BY <1>3, <2>1 DEF TypeOK, Answers
  <2>3. PICK q \in Completes : /\ q.agent = m.agent /\ q.counter = m.counter
                               /\ Spent(q.agent, q.pending)
    BY <2>1, <2>2 DEF RejectionsTrue
  <2>4. q.pending = pending[a] /\ q.agent = a
    BY <1>1, <1>3, <2>1, <2>3 DEF Rejected, Answers
  <2> QED
    BY <2>3, <2>4 DEF Spent, RecordedAs
<1> QED
  BY <1>2, <1>3

\* Of all that an agent ever proposed only the pair on its disk can still be committed.
LEMMA OnlyPendingKept ==
    ASSUME TypeOK, TypeOK', Stages, Episodes, Issues, Proposals, InProgress, CompletionsTrue,
           RejectionsTrue, OnlyPendingCommits, Next, Forward
    PROVE  OnlyPendingCommits'
<1> SUFFICES ASSUME NEW q \in Completes', MayCommit(q.agent, q.pending)'
             PROVE  pending'[q.agent] = q.pending
  BY DEF OnlyPendingCommits
<1>1. CASE q \notin Completes
  BY <1>1, NewComplete
<1>2. CASE q \in Completes
  <2> DEFINE a == q.agent
  <2>1. a \in Agents /\ q.pending \in Pending /\ q.pending # None /\ IsOf(a, q.pending.grant)
        /\ q.pending.grant.expires \in Nat /\ now \in Nat
    BY <1>2, CompleteTypes, NoneAssumption, Numbers DEF Proposals
  <2>2. MayCommit(a, q.pending)
    BY <2>1, MayCommitBefore
  <2>3. pending[a] = q.pending
    BY <1>2, <2>2 DEF OnlyPendingCommits
  <2>4. ~RecordedAs(a, pending[a]) /\ ~Spent(a, pending[a])
    BY <2>1, <2>2, <2>3 DEF MayCommit, RecordedAs, Spent
  <2>5. ~(Finish(a) \/ (Rejected(a) /\ pending'[a] = None))
    BY <2>1, <2>4, GivenUp
  <2>6. pending'[a] = pending[a]
    BY <2>1, <2>3, <2>5, PairStep
  <2> QED
    BY <2>3, <2>6
<1> QED
  BY <1>1, <1>2

\* So a recorded secret is the sealed one or the one in use.
LEMMA NotLost ==
    ASSUME IInv, TypeOK', Next, Forward
    PROVE  CandidateNotLost'
<1> SUFFICES ASSUME NEW a \in Agents, Standing(a)'
             PROVE  LET secret == committed'[a][fence'[a]].candidate
                    IN  \/ pending'[a] # None /\ pending'[a].candidate = secret
                        \/ installed'[a] # None /\ installed'[a].secret = secret
  BY DEF CandidateNotLost
<1> USE DEF IInv, Platform, Said, Asked
<1> DEFINE f == fence'[a]
<1>0. /\ f \in Fences /\ f \in Nat /\ fence[a] \in Nat /\ drawn[a] \in Nat
      /\ committed'[a][f] # None /\ fence[a] <= f
  BY Numbers DEF Standing, TypeOK, Fences, Forward
<1>1. CASE committed'[a][f] # committed[a][f]
  <2>0. TypeOK /\ Next /\ a \in Agents
    OBVIOUS
  <2> HIDE DEF f
  <2>1. PICK q \in Completes :
              /\ q.agent = a /\ q.pending.grant.fence = f /\ Commit(q)
              /\ MayCommit(a, q.pending)
              /\ committed'[a][f] = [candidate |-> q.pending.candidate,
                                     grant |-> q.pending.grant, at |-> now]
    BY ONLY <1>0, <1>1, <2>0, Recording, ZenonT(30)
  <2>2. pending[a] = q.pending /\ q.pending # None
    <3>1. pending[a] = q.pending
      BY <2>1 DEF OnlyPendingCommits
    <3>2. q.pending \in Pending
      BY CompleteTypes
    <3> QED
      BY <3>1, <3>2, NoneAssumption
  <2>3. pending' = pending
    BY <2>1 DEF Commit, disk
  <2> QED
    BY <2>1, <2>2, <2>3 DEF f
<1>2. CASE committed'[a][f] = committed[a][f]
  <2> DEFINE secret == committed[a][f].candidate
             g == committed[a][f].grant
  <2>1. fence[a] = f /\ committed[a][f] # None
    BY <1>0, <1>2 DEF Commits
  <2>2. PICK q \in Completes :
              /\ q.agent = a /\ q.pending.grant = g /\ q.pending.candidate = secret
              /\ q.pending.grant.fence = f /\ IsOf(a, g) /\ secret <= drawn[a]
    BY <1>0, <2>1, CommitWasAsked
  <2>3. g \in Grant /\ secret \in Nat
    BY <1>0, <2>1, CommittedTypes
  <2>4. Open(a, f) /\ Bound(a, g)
    <3>1. PICK h \in Fences : h = f
      BY <1>0
    <3>2. Open(a, h)'
      BY <3>1 DEF Standing, Open, Before
    <3>3. PICK k \in Grant : k = g
      BY <2>3
    <3>4. Bound(a, k)'
      BY <1>2, <3>3 DEF Standing, Bound
    <3>5. Open(a, h)
      BY <3>2, OpenBefore
    <3>6. Bound(a, k)
      BY <2>2, <3>3, <3>4, BoundBefore
    <3> QED
      BY <3>1, <3>3, <3>5, <3>6
  <2>5. Standing(a)
    BY <1>0, <2>1, <2>4 DEF Standing, Fences
  <2>6. \/ pending[a] # None /\ pending[a].candidate = secret
        \/ installed[a] # None /\ installed[a].secret = secret
    BY <2>1, <2>5 DEF CandidateNotLost
  <2>7. ASSUME pending[a] # None, pending[a].candidate = secret
        PROVE  RecordedAs(a, pending[a]) /\ ~Spent(a, pending[a])
    <3>1. q.pending = pending[a]
      BY <2>2, <2>7 DEF Proposals, Stages
    <3> QED
      BY <2>1, <2>2, <2>4, <3>1 DEF RecordedAs, Spent
  <2>8. ASSUME Finish(a)
        PROVE  pending[a].candidate = secret /\ installed'[a] # None
               /\ installed'[a].secret = pending[a].candidate
    <3>1. pending[a] \in Pending /\ pending[a].candidate = drawn[a] /\ RecordedAs(a, pending[a])
      BY <2>8, GivenUp, NoneAssumption DEF Finish, Stages, TypeOK
    <3>2. pending[a].grant.fence \in Fences /\ pending[a].grant.fence \in Nat
          /\ pending[a].candidate \in Candidates
      BY <3>1 DEF Pending, Grant, Fences
    <3>3. pending[a].grant.fence <= f
      BY <2>1, <3>1, <3>2 DEF RecordedAs, Commits
    <3>4. pending[a].grant.fence = f
      BY <1>0, <2>1, <2>2, <2>3, <3>1, <3>2, <3>3 DEF RecordedAs, InOrder
    <3>5. PICK m \in net : /\ Answers(m, a, {"completed"})
                           /\ installed' = [installed EXCEPT ![a] =
                                  [secret |-> pending[a].candidate, id |-> m.key]]
      BY <2>8 DEF Finish
    <3>6. m.key \in Candidates
      BY <3>5, Shapes DEF Answers, TypeOK
    <3>7. installed'[a] = [secret |-> pending[a].candidate, id |-> m.key]
      BY <3>5 DEF TypeOK
    <3>8. installed'[a] # None
      BY <3>2, <3>6, <3>7, NoneAssumption
    <3> QED
      BY <3>1, <3>4, <3>7, <3>8 DEF RecordedAs
  <2>9. CASE Finish(a)
    BY <1>2, <2>8, <2>9
  <2>10. CASE ~Finish(a)
    <3>1. \/ pending'[a] = pending[a]
          \/ pending'[a] = None /\ Rejected(a)
          \/ pending[a] = None
      BY <2>10, PairStep
    <3>2. installed'[a] = installed[a]
      BY <2>10, PairStep
    <3>3. pending[a] # None /\ pending[a].candidate = secret => pending'[a] = pending[a]
      BY <2>7, <3>1, GivenUp
    <3> QED
      BY <1>2, <2>6, <3>2, <3>3
  <2> QED
    BY <2>9, <2>10
<1> QED
  BY <1>1, <1>2

\* Every step keeps the invariant.
LEMMA Invariance == IInv /\ [Next]_vars => IInv'
<1> SUFFICES ASSUME IInv, [Next]_vars PROVE IInv'
  OBVIOUS
<1>1. CASE UNCHANGED vars
  <2> USE DEF IInv
  <2>1. UNCHANGED <<phase, request, grant, pending, installed, counter, used, drawn, now, revoked,
                    fence, generation, active, issued, anchor, committed, net>>
    BY <1>1 DEF vars, memory, disk, operator, records
  <2>2. TypeOK' /\ Stages'
    BY <2>1 DEF TypeOK, Stages
  <2>3. Held'
    BY <2>1 DEF Held, IsOf
  <2>4. Platform'
    BY <2>1 DEF Platform, Issues, Anchors, Episodes, Commits, InOrder, Completes
  <2>5. GrantsIssued' /\ CompletionsTrue' /\ Behind'
    BY <2>1 DEF Said, GrantsIssued, CompletionsTrue, Behind, IsOf, RecordedAs, Completes
  <2>6. RejectionsTrue'
    BY <2>1 DEF Said, RejectionsTrue, Spent, RecordedAs, Open, Before, Bound, Completes
  <2>7. Proposals' /\ OnePair' /\ InProgress'
    BY <2>1 DEF Asked, Proposals, OnePair, InProgress, IsOf, Completes
  <2>8. OnlyPendingCommits'
    BY <2>1 DEF Asked, OnlyPendingCommits, MayCommit, Open, Before, Bound, Completes
  <2>9. CandidateNotLost'
    BY <2>1 DEF CandidateNotLost, Standing, Open, Before, Bound
  <2> QED
    BY <2>2, <2>3, <2>4, <2>5, <2>6, <2>7, <2>8, <2>9 DEF Said, Asked
<1>2. CASE Next
  <2> USE DEF IInv, Platform, Said, Asked
  <2>1. TypeOK' /\ Forward
    BY <1>2, TypesKept, MovesForward
  <2>2. Stages' /\ Held' /\ CandidateNotLost'
    BY <1>2, <2>1, StagesKept, HeldKept, NotLost
  <2>3. Issues' /\ Anchors' /\ Episodes' /\ Commits' /\ InOrder'
    BY <1>2, <2>1, IssuesKept, EpisodesKept, CommitsKept, InOrderKept
  <2>4. GrantsIssued' /\ CompletionsTrue' /\ RejectionsTrue' /\ Behind'
    BY <1>2, <2>1, <2>3, GrantsIssuedKept, CompletionsKept, RejectionsKept, BehindKept
  <2>5. Proposals' /\ OnePair' /\ InProgress' /\ OnlyPendingCommits'
    BY <1>2, <2>1, ProposalsKept, OnePairKept, InProgressKept, OnlyPendingKept
  <2> QED
    BY <2>1, <2>2, <2>3, <2>4, <2>5
<1> QED
  BY <1>1, <1>2

\* The invariant holds of every behaviour.
LEMMA Inductive == Spec => []IInv
<1>1. Init => IInv
  BY Init0
<1> QED
  BY <1>1, Invariance, PTL DEF Spec

(***************************************************************************)
(* Every state is well formed: a message, a record or a sealed pair is     *)
(* never half filled in.                                                   *)
(***************************************************************************)
THEOREM TypeCorrect == Spec => []TypeOK
<1>1. IInv => TypeOK
  BY DEF IInv
<1> QED
  BY <1>1, Inductive, PTL

(***************************************************************************)
(* As long as a replay of its request would be answered, the agent holds   *)
(* the very secret that the platform recorded for its episode, sealed or   *)
(* in use.                                                                 *)
(***************************************************************************)
THEOREM NothingLost == Spec => []CandidateNotLost
<1>1. IInv => CandidateNotLost
  BY DEF IInv
<1> QED
  BY <1>1, Inductive, PTL

(***************************************************************************)
(* A replacement is recorded before the horizon of every grant of its      *)
(* episode: the anchor is set once and lies before the expiry of each.     *)
(***************************************************************************)
THEOREM WithinHorizon == Spec => []HorizonHolds
<1>1. ASSUME IInv
      PROVE  HorizonHolds
  <2> SUFFICES ASSUME NEW a \in Agents, NEW f \in Fences, NEW n \in Nonces,
                      committed[a][f] # None, issued[n] # None,
                      issued[n].grant.agent = a, issued[n].grant.fence = f
               PROVE  committed[a][f].at < issued[n].grant.expires + Horizon
    BY DEF HorizonHolds
  <2> USE <1>1 DEF IInv, Platform
  <2>1. anchor[a][f] <= issued[n].grant.expires
    BY DEF Issues
  <2>2. committed[a][f].at < anchor[a][f] + Horizon
    BY DEF Commits
  <2>3. /\ issued[n].grant.expires \in Nat /\ committed[a][f].at \in Nat
        /\ anchor[a][f] \in Nat /\ Horizon \in Nat
    BY GrantTypes, CommittedTypes, TimesAssumption DEF TypeOK
  <2> QED
    BY <2>1, <2>2, <2>3
<1> QED
  BY <1>1, Inductive, PTL

(***************************************************************************)
(* A request nonce stands for one grant, and nobody is sent the grant of   *)
(* somebody else.                                                          *)
(***************************************************************************)
THEOREM GrantPerNonce == Spec => []OneGrantPerNonce
<1>1. IInv => OneGrantPerNonce
  BY DEF IInv, Said, GrantsIssued, IsOf, OneGrantPerNonce
<1> QED
  BY <1>1, Inductive, PTL

----------------------------------------------------------------------------
\* The replacement of every episode, as Replacement sees it.
Replaced == [a \in Agents |-> [f \in Fences |->
                IF committed[a][f] = None THEN None ELSE committed[a][f].candidate]]

\* Every step is one of Replacement, or one it does not see.
LEMMA StepRefines ==
    ASSUME IInv, [Next]_vars
    PROVE  [Recorded!Next]_<<Replaced, installed>>
<1> USE DEF IInv, Platform, Said, Asked
<1>1. CASE UNCHANGED vars
  BY <1>1 DEF vars, records, disk, Replaced
<1>2. ASSUME Next, NEW a \in Agents, NEW f \in Fences, committed'[a][f] # committed[a][f]
      PROVE  Recorded!Next
  <2>1. PICK q \in Completes :
              /\ q.agent = a /\ q.pending.grant.fence = f /\ Commit(q)
              /\ MayCommit(a, q.pending)
              /\ committed'[a][f] = [candidate |-> q.pending.candidate,
                                     grant |-> q.pending.grant, at |-> now]
    BY <1>2, Recording
  <2> DEFINE c == q.pending.candidate
             r == [candidate |-> c, grant |-> q.pending.grant, at |-> now]
  <2>2. c \in Candidates /\ r \in Completion
    BY CompleteTypes DEF Pending, Completion, TypeOK
  <2>3. r # None /\ r.candidate = c
    BY <2>2, NoneAssumption
  <2>4. committed' = [committed EXCEPT ![a][f] = r] /\ installed' = installed
    BY <2>1 DEF Commit, disk
  <2>5. \A g \in Fences : g >= f => committed[a][g] = None
    BY <2>1, OlderIsSmaller DEF Fences
  <2>6. \A g \in Fences : g >= f => Replaced[a][g] = None
    BY <2>5 DEF Replaced
  <2> HIDE DEF r, c
  <2>7. Replaced' = [Replaced EXCEPT ![a][f] = c]
    BY <2>3, <2>4 DEF Replaced, TypeOK
  <2>8. Recorded!Record(a, f, c)
    BY <2>4, <2>6, <2>7 DEF Recorded!Record, Replaced
  <2> QED
    BY <2>2, <2>8 DEF Recorded!Next
<1>3. ASSUME Next, committed' = committed, NEW a \in Agents, installed'[a] # installed[a]
      PROVE  Recorded!Next
  <2>1. Finish(a)
    BY <1>3, PairStep
  <2>2. /\ RecordedAs(a, pending[a])
        /\ installed' = [installed EXCEPT ![a] =
               [secret |-> pending[a].candidate, id |-> pending[a].candidate]]
    BY <2>1, GivenUp
  <2> DEFINE f == pending[a].grant.fence
  <2>3. f \in Fences /\ pending[a].candidate \in Candidates
    <3>1. pending[a] \in Pending
      BY <2>1 DEF Finish, Stages, TypeOK
    <3> QED
      BY <3>1 DEF Pending, Grant
  <2>4. Replaced[a][f] = pending[a].candidate /\ Replaced[a][f] # None
    BY <2>2, <2>3, NoneAssumption DEF RecordedAs, Replaced
  <2>5. Replaced' = Replaced
    BY <1>3 DEF Replaced
  <2>6. Recorded!Use(a, f)
    BY <2>2, <2>4, <2>5 DEF Recorded!Use, Replaced
  <2> QED
    BY <2>3, <2>6 DEF Recorded!Next
<1>4. ASSUME Next, \A a \in Agents, f \in Fences : committed'[a][f] = committed[a][f]
      PROVE  committed' = committed
  BY <1>4, TypesKept DEF TypeOK
<1>5. ASSUME Next, \A a \in Agents : installed'[a] = installed[a]
      PROVE  installed' = installed
  BY <1>5, TypesKept DEF TypeOK
<1>6. ASSUME committed' = committed, installed' = installed
      PROVE  UNCHANGED <<Replaced, installed>>
  BY <1>6 DEF Replaced
<1> QED
  BY <1>1, <1>2, <1>3, <1>4, <1>5, <1>6

(***************************************************************************)
(* Recovery implements Replacement: one candidate per episode, recorded    *)
(* for good and in the order of the episodes, and a secret in use was      *)
(* recorded and goes with its own key id, whatever was answered late.      *)
(***************************************************************************)
THEOREM ReplacementHolds == Spec => RefinesReplacement
<1>1. Init => Recorded!Init
  BY DEF Init, Recorded!Init
<1>2. IInv /\ [Next]_vars => [Recorded!Next]_<<Replaced, installed>>
  BY StepRefines
<1> QED
  BY <1>1, <1>2, Inductive, PTL DEF Spec, RefinesReplacement, Recorded!Spec, Replaced
=============================================================================
