-------------------------- MODULE HubCookieProofs --------------------------
(***************************************************************************)
(* For any number of agents, addresses, packet lengths, windows, keys,     *)
(* requests and repetitions: the type invariant, one Authority invocation  *)
(* and one proof per request, and no amplification.                        *)
(***************************************************************************)
EXTENDS HubCookie, TLAPS

Proofs == {m \in net : m.type = "LST" /\ m.cookie # NoCookie}

(***************************************************************************)
(* The inductive invariant.  Two LSTs per request bound the counters; a    *)
(* request has one proof, recognised by its counter however often the      *)
(* network repeats it, and once it was honoured that counter is in         *)
(* "replayed".                                                             *)
(***************************************************************************)
CountersBounded ==
    \A c \in Clients :
        /\ counter[c] <= 2 * nonce[c]
        /\ phase[c] = "unproven" => counter[c] <= 2 * nonce[c] - 1
        /\ phase[c] \in {"unproven", "proof", "done"} => nonce[c] \in Requests

NoMessageAhead ==
    \A m \in net :
        /\ m.type = "LST" => m.counter <= counter[m.peer] /\ m.nonce <= nonce[m.peer]
        /\ m.type = "LRT" => m.counter <= counter[m.peer]

OneProofPerRequest ==
    \A m, p \in Proofs : m.peer = p.peer /\ m.nonce = p.nonce => m.counter = p.counter

NoEarlyProof ==
    \A c \in Clients : phase[c] = "unproven" =>
        \A m \in Proofs : m.peer = c => m.nonce # nonce[c]

NoEarlyInvocation ==
    \A c \in Clients, n \in Requests :
        n > nonce[c] \/ (n = nonce[c] /\ phase[c] = "unproven")
            => invocations[c][n] = 0

HonouredOnce ==
    \A c \in Clients, n \in Requests :
        /\ invocations[c][n] <= 1
        /\ invocations[c][n] = 1 =>
              \A m \in Proofs : m.peer = c /\ m.nonce = n => Replayed(m)

ProofIsCurrent ==
    \A m \in Proofs :
        phase[m.peer] = "proof" /\ m.counter = counter[m.peer]
            => m.nonce = nonce[m.peer]

ResultsEarned ==
    /\ \A m \in net : m.type = "LRT" /\ Fulfils(m, m.peer)
                         => invocations[m.peer][nonce[m.peer]] = 1
    /\ \A c \in Clients : phase[c] = "done" => invocations[c][nonce[c]] = 1

FlightsCounted ==
    \A c \in Clients, n \in Requests :
        /\ lsts[c][n] <= 2
        /\ n > nonce[c] => lsts[c][n] = 0
        /\ n = nonce[c] /\ phase[c] = "unproven" => lsts[c][n] = 1
        /\ lsts[c][n] = 2 => \E k \in minted : k.peer = c

ChallengesMinted ==
    \A m \in net : m.type = "COK" => m.cookie \in minted /\ m.cookie.peer = m.peer

Exchange == /\ CountersBounded
            /\ NoMessageAhead
            /\ OneProofPerRequest
            /\ NoEarlyProof
            /\ NoEarlyInvocation
            /\ HonouredOnce
            /\ ProofIsCurrent
            /\ ResultsEarned
            /\ FlightsCounted
            /\ ChallengesMinted

IInv == TypeOK /\ Exchange /\ NoAmplification

----------------------------------------------------------------------------
\* The type of a message tells its fields.
LEMMA MessageKinds ==
    ASSUME NEW m \in LST \cup COK \cup LRT
    PROVE  /\ m.type \in {"LST", "COK", "LRT"}
           /\ m.peer \in Clients /\ m.ip \in IPs
           /\ m.type = "LST" => m \in LST
           /\ m.type = "COK" => m \in COK
           /\ m.type = "LRT" => m \in LRT
BY DEF LST, COK, LRT

\* The bounds are natural numbers and packet lengths are too.
LEMMA Bounds ==
    /\ MaxWindow \in Nat /\ MaxKey \in Nat /\ MaxRequests \in Nat
    /\ MaxRepeats \in Nat /\ ChallengeBytes \in Nat
    /\ \A s \in Sizes : s \in Nat
    /\ Requests \subseteq Nat /\ Counters \subseteq Nat /\ Windows \subseteq Nat
    /\ Keys \subseteq Nat
BY BoundsAssumption, SizesAssumption DEF Requests, Counters, Windows, Keys

\* A delivery takes one message and adds at most the replies.
LEMMA DeliverNet ==
    ASSUME TypeOK, NEW m, NEW R, Deliver(m, R)
    PROVE  /\ m \in net /\ m \in LST \cup COK \cup LRT
           /\ net' \subseteq net \cup R
           /\ repeats' \in 0..MaxRepeats
<1>1. MaxRepeats \in Nat
  BY Bounds
<1>. QED
  BY <1>1 DEF TypeOK, Deliver

\* IInv holds initially.
LEMMA InitInv == Init => IInv
<1>. SUFFICES ASSUME Init PROVE IInv
  OBVIOUS
<1>. USE DEF Init
<1>0. net = {} /\ Proofs = {}
  BY DEF Proofs
<1>1. TypeOK
  BY Bounds, BoundsAssumption DEF TypeOK, Bodies, Windows, Keys
<1>2. CountersBounded
  BY DEF CountersBounded
<1>3. NoMessageAhead /\ OneProofPerRequest /\ NoEarlyProof /\ ProofIsCurrent
      /\ ChallengesMinted
  BY <1>0 DEF NoMessageAhead, OneProofPerRequest, NoEarlyProof,
              ProofIsCurrent, ChallengesMinted
<1>4. NoEarlyInvocation /\ HonouredOnce
  BY <1>0 DEF NoEarlyInvocation, HonouredOnce
<1>5. ResultsEarned
  BY <1>0 DEF ResultsEarned
<1>6. FlightsCounted /\ NoAmplification
  BY DEF FlightsCounted, NoAmplification
<1>. QED
  BY <1>1, <1>2, <1>3, <1>4, <1>5, <1>6 DEF IInv, Exchange
----------------------------------------------------------------------------
(***************************************************************************)
(* What most steps have in common: they add no LST and no LRT and at most  *)
(* end requests.  They keep everything the invariant says of the exchange. *)
(***************************************************************************)
LEMMA FrameExchange ==
    ASSUME IInv,
           \A m \in net' : \/ m \in net
                           \/ /\ m.type = "COK" /\ m.cookie \in minted'
                              /\ m.cookie.peer = m.peer,
           minted \subseteq minted',
           phase' \in [Clients -> {"idle", "unproven", "proof", "done", "stopped"}],
           \A c \in Clients : phase'[c] \in {phase[c], "stopped"},
           UNCHANGED <<nonce, counter, invocations, replayed, lsts>>
    PROVE  Exchange'
<1>. USE DEF IInv, Exchange
<1>0. \A m \in Proofs' : m \in Proofs
  BY DEF Proofs
<1>00. \A m \in net : m.peer \in Clients
  BY MessageKinds DEF TypeOK
<1>1. CountersBounded'
  BY DEF CountersBounded
<1>2. NoMessageAhead'
  BY DEF NoMessageAhead
<1>3. OneProofPerRequest'
  BY <1>0 DEF OneProofPerRequest
<1>4. NoEarlyProof'
  BY <1>0 DEF NoEarlyProof
<1>5. NoEarlyInvocation'
  BY DEF NoEarlyInvocation
<1>6. HonouredOnce'
  BY <1>0 DEF HonouredOnce, Replayed
<1>7. ProofIsCurrent'
  <2>. SUFFICES ASSUME NEW m \in Proofs', phase'[m.peer] = "proof",
                       m.counter = counter[m.peer]
                PROVE  m.nonce = nonce[m.peer]
    BY DEF ProofIsCurrent
  <2>1. m \in Proofs /\ m.peer \in Clients
    BY <1>0, <1>00 DEF Proofs
  <2>. QED
    BY <2>1 DEF ProofIsCurrent
<1>8. ResultsEarned'
  <2>1. ASSUME NEW m \in net', m.type = "LRT", Fulfils(m, m.peer)'
        PROVE  invocations[m.peer][nonce[m.peer]] = 1
    <3>1. m \in net /\ m.peer \in Clients
      BY <2>1, <1>00
    <3>. QED
      BY <2>1, <3>1 DEF ResultsEarned, Fulfils
  <2>. QED
    BY <2>1 DEF ResultsEarned
<1>9. FlightsCounted'
  BY DEF FlightsCounted
<1>10. ChallengesMinted'
  BY DEF ChallengesMinted
<1>. QED
  BY <1>1, <1>2, <1>3, <1>4, <1>5, <1>6, <1>7, <1>8, <1>9, <1>10

----------------------------------------------------------------------------
\* Time, the operator, loss, silence and roaming.

\* Steps of the network, the operator and time keep the invariant.
LEMMA EnvironmentInv ==
    ASSUME IInv, UNCHANGED faults,
           \/ \E m \in net : Lose(m)
           \/ \E c \in Clients : Roam(c)
           \/ Tick \/ Rotate \/ Retire \/ Install
    PROVE  IInv'
<1>. USE DEF agents, slots, history
<1>1. TypeOK'
  <2>. USE DEF IInv, TypeOK, Windows, Keys, NoKey
  <2>1. CASE \E m \in net : Lose(m)
    BY <2>1 DEF Lose
  <2>2. CASE \E c \in Clients : Roam(c)
    BY <2>2 DEF Roam
  <2>3. CASE Tick
    BY <2>3, Bounds DEF Tick
  <2>4. CASE Rotate
    BY <2>4, Bounds DEF Rotate
  <2>5. CASE Retire
    BY <2>5 DEF Retire
  <2>6. CASE Install
    BY <2>6, Bounds DEF Install
  <2>. QED
    BY <2>1, <2>2, <2>3, <2>4, <2>5, <2>6
<1>2. /\ net' \subseteq net
      /\ UNCHANGED <<phase, nonce, counter, invocations, replayed, lsts,
                     minted, received, challenged>>
  BY DEF Lose, Roam, Tick, Rotate, Retire, Install
<1>3. Exchange'
  BY <1>2, FrameExchange DEF IInv, TypeOK
<1>4. NoAmplification'
  BY <1>2 DEF IInv, NoAmplification
<1>. QED
  BY <1>1, <1>3, <1>4 DEF IInv
----------------------------------------------------------------------------
\* The Hub.

\* Answering or refusing an unproven LST keeps the invariant; the strict
\* length test is what the amplification bound rests on.
LEMMA ChallengeInv ==
    ASSUME IInv, UNCHANGED faults, NEW m \in net, Challenge(m) \/ DropUnproven(m)
    PROVE  IInv'
<1>. USE DEF Challenge, DropUnproven, agents, slots
<1>. DEFINE cok == [type |-> "COK", peer |-> m.peer, ip |-> m.ip,
                    trxId |-> m.counter, cookie |-> MintedFor(m)]
<1>0. /\ m \in LST
      /\ m.ip \in IPs /\ m.peer \in Clients /\ m.counter \in Counters
      /\ m.size \in Nat /\ m.size \in Sizes /\ ChallengeBytes \in Nat
  BY MessageKinds, Bounds DEF IInv, TypeOK, LST
<1>1. CASE Challenge(m)
  <2>1. /\ net' \subseteq net \cup {cok} /\ repeats' \in 0..MaxRepeats
    BY <1>1, DeliverNet DEF IInv
  <2>2. MintedFor(m) \in Cookie
    BY <1>0, <1>1 DEF MintedFor, Cookie, IInv, TypeOK, NoKey
  <2>3. cok \in COK
    BY <1>0, <2>2 DEF COK
  <2>4. received' \in [IPs -> Nat] /\ challenged' \in [IPs -> Nat]
    BY <1>0, <1>1 DEF Received, IInv, TypeOK
  <2>5. TypeOK'
    BY <1>1, <2>1, <2>2, <2>3, <2>4 DEF IInv, TypeOK
  <2>6. MintedFor(m) \in minted' /\ MintedFor(m).peer = m.peer
    BY <1>1 DEF MintedFor
  <2>7. \A p \in net' : \/ p \in net
                        \/ /\ p.type = "COK" /\ p.cookie \in minted'
                           /\ p.cookie.peer = p.peer
    BY <2>1, <2>6
  <2>8. Exchange'
    BY <1>1, <2>7, FrameExchange DEF IInv, TypeOK
  <2>9. NoAmplification'
    <3>. SUFFICES ASSUME NEW i \in IPs
                  PROVE  challenged'[i] = 0 \/ challenged'[i] < received'[i]
      BY DEF NoAmplification
    <3>1. challenged[i] = 0 \/ challenged[i] < received[i]
      BY DEF IInv, NoAmplification
    <3>2. challenged[i] \in Nat /\ received[i] \in Nat
      BY DEF IInv, TypeOK
    <3>3. CASE i = m.ip
      BY <1>0, <1>1, <3>1, <3>2, <3>3
         DEF Received, ChallengeFits, IInv, TypeOK
    <3>4. CASE i # m.ip
      BY <1>1, <3>1, <3>4 DEF Received, IInv, TypeOK
    <3>. QED
      BY <3>3, <3>4
  <2>. QED
    BY <2>5, <2>8, <2>9 DEF IInv
<1>2. CASE DropUnproven(m)
  <2>1. net' \subseteq net \cup {} /\ repeats' \in 0..MaxRepeats
    BY <1>2, DeliverNet DEF IInv
  <2>2. received' \in [IPs -> Nat]
    BY <1>0, <1>2 DEF Received, IInv, TypeOK
  <2>3. TypeOK'
    BY <1>2, <2>1, <2>2 DEF IInv, TypeOK
  <2>4. Exchange'
    BY <1>2, <2>1, FrameExchange DEF IInv, TypeOK
  <2>5. NoAmplification'
    <3>. SUFFICES ASSUME NEW i \in IPs
                  PROVE  challenged[i] = 0 \/ challenged[i] < received'[i]
      BY <1>2 DEF NoAmplification
    <3>1. received'[i] >= received[i]
      BY <1>0, <1>2 DEF Received, IInv, TypeOK
    <3>2. challenged[i] \in Nat /\ received[i] \in Nat /\ received'[i] \in Nat
      BY <2>2 DEF IInv, TypeOK
    <3>. QED
      BY <3>1, <3>2 DEF IInv, NoAmplification
  <2>. QED
    BY <2>3, <2>4, <2>5 DEF IInv
<1>. QED
  BY <1>1, <1>2

\* A refused proof changes nothing but the network.
LEMMA DropProofInv ==
    ASSUME IInv, UNCHANGED faults, NEW m \in net, DropProof(m)
    PROVE  IInv'
<1>. USE DEF DropProof, agents, slots, history
<1>1. net' \subseteq net \cup {} /\ repeats' \in 0..MaxRepeats
  BY DeliverNet DEF IInv
<1>2. TypeOK'
  BY <1>1 DEF IInv, TypeOK
<1>3. Exchange'
  BY <1>1, FrameExchange DEF IInv, TypeOK
<1>4. NoAmplification'
  BY DEF IInv, NoAmplification
<1>. QED
  BY <1>2, <1>3, <1>4 DEF IInv

(***************************************************************************)
(* An honoured proof was not replayed, so its request had not reached      *)
(* Authority; afterwards every copy of it is a replay.                     *)
(***************************************************************************)
LEMMA InvokeAuthorityInv ==
    ASSUME IInv, UNCHANGED faults, NEW m \in net, InvokeAuthority(m)
    PROVE  IInv'
<1>. USE DEF InvokeAuthority, agents, slots, history, Exchange
<1>. DEFINE lrt == [type |-> "LRT", peer |-> m.peer, ip |-> m.ip,
                    counter |-> m.counter]
<1>0. /\ m \in LST /\ m \in Proofs
      /\ m.ip \in IPs /\ m.peer \in Clients /\ m.counter \in Counters
      /\ m.nonce \in Requests /\ m.counter \in Nat
  BY MessageKinds, Bounds DEF IInv, TypeOK, LST, Proofs
<1>1. net' \subseteq net \cup {lrt} /\ repeats' \in 0..MaxRepeats
  BY DeliverNet DEF IInv
<1>2. lrt \in LRT /\ lrt.type = "LRT" /\ lrt.peer = m.peer
      /\ lrt.counter = m.counter
  BY <1>0 DEF LRT
<1>3. \A p \in Proofs' : p \in Proofs
  BY <1>1, <1>2 DEF Proofs
<1>4. ~Replayed(m) /\ invocations[m.peer][m.nonce] = 0
  <2>1. ~Replayed(m)
    BY DEF Honourable
  <2>2. invocations[m.peer][m.nonce] # 1 /\ invocations[m.peer][m.nonce] <= 1
    BY <1>0, <2>1 DEF IInv, HonouredOnce
  <2>3. invocations \in [Clients -> [Requests -> Nat]]
    BY DEF IInv, TypeOK
  <2>4. invocations[m.peer][m.nonce] \in Nat
    BY <1>0, <2>3
  <2>. HIDE DEF InvokeAuthority
  <2>. QED
    BY <2>1, <2>2, <2>4
<1>5. \A c \in Clients, n \in Requests :
         invocations'[c][n] = IF c = m.peer /\ n = m.nonce
                              THEN 1 ELSE invocations[c][n]
  BY <1>0, <1>4 DEF IInv, TypeOK
<1>6. TypeOK'
  <2>1. invocations' \in [Clients -> [Requests -> Nat]]
    BY <1>0 DEF IInv, TypeOK
  <2>2. replayed' \subseteq Clients \X Counters
    BY <1>0 DEF IInv, TypeOK
  <2>3. net' \subseteq LST \cup COK \cup LRT
    BY <1>1, <1>2 DEF IInv, TypeOK
  <2>. QED
    BY <1>1, <2>1, <2>2, <2>3 DEF IInv, TypeOK
<1>7. CountersBounded'
  BY DEF IInv, CountersBounded
<1>8. NoMessageAhead'
  <2>1. m.counter <= counter[m.peer]
    BY <1>0 DEF IInv, NoMessageAhead, Proofs
  <2>. QED
    BY <1>1, <1>2, <2>1 DEF IInv, NoMessageAhead
<1>9. OneProofPerRequest' /\ NoEarlyProof' /\ ProofIsCurrent'
  BY <1>3 DEF IInv, OneProofPerRequest, NoEarlyProof, ProofIsCurrent
<1>10. NoEarlyInvocation'
  <2>1. m.nonce <= nonce[m.peer]
    BY <1>0 DEF IInv, NoMessageAhead, Proofs
  <2>2. ~(m.nonce = nonce[m.peer] /\ phase[m.peer] = "unproven")
    BY <1>0 DEF IInv, NoEarlyProof
  <2>3. nonce \in [Clients -> 0..MaxRequests] /\ nonce' = nonce /\ phase' = phase
    BY DEF IInv, TypeOK
  <2>4. nonce[m.peer] \in Nat /\ m.nonce \in Nat
    BY <1>0, <2>3, Bounds
  <2>5. NoEarlyInvocation
    BY DEF IInv
  <2>. HIDE DEF InvokeAuthority
  <2>. QED
    BY <1>5, <2>1, <2>2, <2>3, <2>4, <2>5 DEF NoEarlyInvocation
<1>11. HonouredOnce'
  <2>. SUFFICES ASSUME NEW c \in Clients, NEW n \in Requests
                PROVE  /\ invocations'[c][n] <= 1
                       /\ invocations'[c][n] = 1 =>
                            \A p \in Proofs : p.peer = c /\ p.nonce = n
                                                => <<p.peer, p.counter>> \in replayed'
    BY <1>3 DEF HonouredOnce, Replayed
  <2>1. CASE c = m.peer /\ n = m.nonce
    BY <1>0, <1>5, <2>1 DEF IInv, OneProofPerRequest
  <2>2. CASE ~(c = m.peer /\ n = m.nonce)
    BY <1>5, <2>2 DEF IInv, HonouredOnce, Replayed
  <2>. QED
    BY <2>1, <2>2
<1>12. ResultsEarned'
  <2>1. ASSUME NEW p \in net', p.type = "LRT", Fulfils(p, p.peer)
        PROVE  invocations'[p.peer][nonce[p.peer]] = 1
    <3>1. CASE p \in net
      <4>1. p.peer \in Clients /\ nonce[p.peer] \in Requests
        BY <2>1, <3>1, MessageKinds DEF IInv, TypeOK, Fulfils, CountersBounded
      <4>. QED
        BY <1>5, <2>1, <3>1, <4>1 DEF IInv, ResultsEarned
    <3>2. CASE p = lrt
      <4>1. m.nonce = nonce[m.peer]
        BY <1>0, <1>2, <2>1, <3>2 DEF IInv, ProofIsCurrent, Fulfils
      <4>. QED
        BY <1>0, <1>2, <1>5, <3>2, <4>1
    <3>. QED
      BY <1>1, <3>1, <3>2
  <2>2. ASSUME NEW c \in Clients, phase[c] = "done"
        PROVE  invocations'[c][nonce[c]] = 1
    BY <1>5, <2>2 DEF IInv, ResultsEarned, CountersBounded
  <2>. QED
    BY <2>1, <2>2 DEF ResultsEarned, Fulfils
<1>13. FlightsCounted'
  BY DEF IInv, FlightsCounted
<1>14. ChallengesMinted'
  BY <1>1, <1>2 DEF IInv, ChallengesMinted
<1>15. NoAmplification'
  BY DEF IInv, NoAmplification
<1>. QED
  BY <1>6, <1>7, <1>8, <1>9, <1>10, <1>11, <1>12, <1>13, <1>14, <1>15 DEF IInv
----------------------------------------------------------------------------
\* The agent.

\* Giving up, by a challenge or by the timer, and ignoring a late reply.
LEMMA EndOrIgnoreInv ==
    ASSUME IInv, UNCHANGED faults, NEW c \in Clients,
           \/ \E m \in net : StopOnChallenge(m, c) \/ Ignore(m, c)
           \/ Timeout(c)
    PROVE  IInv'
<1>. USE DEF slots, history
<1>1. /\ net' \subseteq net /\ repeats' \in 0..MaxRepeats
      /\ phase' \in [Clients -> {"idle", "unproven", "proof", "done", "stopped"}]
      /\ \A d \in Clients : phase'[d] \in {phase[d], "stopped"}
  <2>1. CASE \E m \in net : StopOnChallenge(m, c)
    <3>1. PICK m \in net : StopOnChallenge(m, c)
      BY <2>1
    <3>2. net' \subseteq net \cup {} /\ repeats' \in 0..MaxRepeats
      BY <3>1, DeliverNet DEF StopOnChallenge, IInv
    <3>. QED
      BY <3>1, <3>2 DEF StopOnChallenge, IInv, TypeOK
  <2>2. CASE \E m \in net : Ignore(m, c)
    BY <2>2 DEF Ignore, agents, IInv, TypeOK
  <2>3. CASE Timeout(c)
    BY <2>3 DEF Timeout, IInv, TypeOK
  <2>. QED
    BY <2>1, <2>2, <2>3
<1>2. UNCHANGED <<nonce, body, size, counter, at, slots, window, replayed,
                  invocations, history>>
  BY DEF StopOnChallenge, Ignore, Timeout, agents
<1>3. TypeOK'
  BY <1>1, <1>2 DEF IInv, TypeOK
<1>4. Exchange'
  BY <1>1, <1>2, FrameExchange
<1>5. NoAmplification'
  BY <1>2 DEF IInv, NoAmplification
<1>. QED
  BY <1>3, <1>4, <1>5 DEF IInv

\* The result an agent takes is one Authority was invoked for.
LEMMA SucceedInv ==
    ASSUME IInv, UNCHANGED faults, NEW c \in Clients, NEW m \in net, Succeed(m, c)
    PROVE  IInv'
<1>. USE DEF Succeed, slots, history, Exchange
<1>0. m.type = "LRT" /\ m.peer = c /\ Fulfils(m, c) /\ phase[c] = "proof"
  BY DEF Reaches, Fulfils
<1>00. invocations[c][nonce[c]] = 1
  BY <1>0 DEF IInv, ResultsEarned
<1>1. /\ net' \subseteq net \cup {} /\ repeats' \in 0..MaxRepeats
  BY DeliverNet DEF IInv
<1>2. /\ phase' \in [Clients -> {"idle", "unproven", "proof", "done", "stopped"}]
      /\ phase'[c] = "done"
      /\ \A d \in Clients \ {c} : phase'[d] = phase[d]
  BY DEF IInv, TypeOK
<1>3. \A p \in Proofs' : p \in Proofs /\ p \in net /\ p.peer \in Clients
  BY <1>1, MessageKinds DEF Proofs, IInv, TypeOK
<1>4. TypeOK'
  BY <1>1, <1>2 DEF IInv, TypeOK
<1>5. CountersBounded'
  BY <1>0, <1>2 DEF IInv, CountersBounded
<1>6. NoMessageAhead'
  BY <1>1 DEF IInv, NoMessageAhead
<1>7. OneProofPerRequest' /\ NoEarlyProof'
  BY <1>2, <1>3 DEF IInv, OneProofPerRequest, NoEarlyProof
<1>8. NoEarlyInvocation' /\ HonouredOnce'
  BY <1>2, <1>3 DEF IInv, NoEarlyInvocation, HonouredOnce, Replayed
<1>9. ProofIsCurrent'
  <2>. SUFFICES ASSUME NEW p \in Proofs', phase'[p.peer] = "proof",
                       p.counter = counter[p.peer]
                PROVE  p.nonce = nonce[p.peer]
    BY DEF ProofIsCurrent
  <2>1. phase[p.peer] = "proof" /\ p \in Proofs
    BY <1>2, <1>3
  <2>. QED
    BY <2>1 DEF IInv, ProofIsCurrent
<1>10. ResultsEarned'
  <2>1. ASSUME NEW p \in net', p.type = "LRT", Fulfils(p, p.peer)'
        PROVE  invocations[p.peer][nonce[p.peer]] = 1
    <3>1. p \in net /\ p.peer \in Clients
      BY <1>1, MessageKinds DEF IInv, TypeOK
    <3>2. Fulfils(p, p.peer)
      BY <1>2, <2>1, <3>1 DEF Fulfils
    <3>. QED
      BY <2>1, <3>1, <3>2 DEF IInv, ResultsEarned
  <2>2. ASSUME NEW d \in Clients, phase'[d] = "done"
        PROVE  invocations[d][nonce[d]] = 1
    BY <1>00, <1>2, <2>2 DEF IInv, ResultsEarned
  <2>. QED
    BY <2>1, <2>2 DEF ResultsEarned
<1>11. FlightsCounted' /\ ChallengesMinted' /\ NoAmplification'
  BY <1>1, <1>2 DEF IInv, FlightsCounted, ChallengesMinted, NoAmplification
<1>. QED
  BY <1>4, <1>5, <1>6, <1>7, <1>8, <1>9, <1>10, <1>11 DEF IInv
(***************************************************************************)
(* A new request takes a nonce and a counter no message in flight carries. *)
(***************************************************************************)
LEMMA BeginInv ==
    ASSUME IInv, UNCHANGED faults, NEW c \in Clients, Begin(c)
    PROVE  IInv'
<1>. USE DEF Exchange
<1>1. PICK b \in Bodies, s \in Sizes :
         /\ body' = [body EXCEPT ![c] = b]
         /\ size' = [size EXCEPT ![c] = s]
         /\ net' = net \cup {SendLST(c, at[c], nonce[c] + 1, b, s, NoCookie)}
  BY DEF Begin
<1>. DEFINE lst == SendLST(c, at[c], nonce[c] + 1, b, s, NoCookie)
<1>2. /\ nonce[c] \in Nat /\ nonce[c] < MaxRequests /\ nonce[c] + 1 \in Requests
      /\ counter[c] \in Nat /\ counter[c] + 1 <= 2 * (nonce[c] + 1) - 1
      /\ counter[c] + 1 \in Counters
  <2>1. nonce[c] \in 0..MaxRequests /\ counter[c] \in 0..(2 * MaxRequests)
        /\ counter[c] <= 2 * nonce[c] /\ nonce[c] < MaxRequests
    BY DEF IInv, TypeOK, CountersBounded, Begin
  <2>. QED
    BY <2>1, Bounds DEF Requests, Counters
<1>3. /\ phase' = [phase EXCEPT ![c] = "unproven"]
      /\ nonce' = [nonce EXCEPT ![c] = @ + 1]
      /\ counter' = [counter EXCEPT ![c] = @ + 1]
      /\ lsts' = [lsts EXCEPT ![c][nonce[c] + 1] = @ + 1]
      /\ UNCHANGED <<at, slots, window, replayed, invocations, repeats, minted,
                     received, challenged>>
  BY DEF Begin
<1>4. /\ phase'[c] = "unproven" /\ nonce'[c] = nonce[c] + 1
      /\ counter'[c] = counter[c] + 1
      /\ \A d \in Clients \ {c} : /\ phase'[d] = phase[d] /\ nonce'[d] = nonce[d]
                                  /\ counter'[d] = counter[d]
  BY <1>3 DEF IInv, TypeOK
<1>5. /\ lst.type = "LST" /\ lst.peer = c /\ lst.counter = counter[c] + 1
      /\ lst.nonce = nonce[c] + 1 /\ lst.cookie = NoCookie
  BY DEF SendLST
<1>6. \A m \in net : m.peer \in Clients /\ m.type \in {"LST", "COK", "LRT"}
  BY MessageKinds DEF IInv, TypeOK
<1>7. \A m \in Proofs' : m \in Proofs /\ m \in net /\ m.type = "LST"
  BY <1>1, <1>5 DEF Proofs
<1>8. \A m \in net : /\ m.type \in {"LST", "LRT"} => m.counter \in Nat
                     /\ m.type = "LST" => m.nonce \in Nat
  BY MessageKinds, Bounds DEF IInv, TypeOK, LST, LRT
<1>9. nonce \in [Clients -> Nat] /\ counter \in [Clients -> Nat]
  BY Bounds DEF IInv, TypeOK
<1>. HIDE DEF lst
<1>10. TypeOK'
  <2>1. lst \in LST
    BY <1>2 DEF lst, SendLST, LST, IInv, TypeOK
  <2>2. nonce' \in [Clients -> 0..MaxRequests]
    <3>1. nonce[c] + 1 \in 0..MaxRequests
      BY <1>2, Bounds
    <3>. QED
      BY <1>3, <3>1 DEF IInv, TypeOK
  <2>3. counter' \in [Clients -> 0..(2 * MaxRequests)]
    <3>1. counter[c] + 1 \in 0..(2 * MaxRequests)
      BY <1>2 DEF Counters
    <3>. QED
      BY <1>3, <3>1 DEF IInv, TypeOK
  <2>4. lsts' \in [Clients -> [Requests -> Nat]]
    BY <1>2, <1>3 DEF IInv, TypeOK
  <2>. QED
    BY <1>1, <1>3, <2>1, <2>2, <2>3, <2>4 DEF lst, IInv, TypeOK, slots
<1>11. CountersBounded'
  <2>. SUFFICES ASSUME NEW d \in Clients
                PROVE  /\ counter'[d] <= 2 * nonce'[d]
                       /\ phase'[d] = "unproven" => counter'[d] <= 2 * nonce'[d] - 1
                       /\ phase'[d] \in {"unproven", "proof", "done"}
                             => nonce'[d] \in Requests
    BY DEF CountersBounded
  <2>1. CASE d = c
    BY <1>2, <1>4, <2>1
  <2>2. CASE d # c
    BY <1>4, <2>2 DEF IInv, CountersBounded
  <2>. QED
    BY <2>1, <2>2
<1>12. NoMessageAhead'
  <2>. SUFFICES ASSUME NEW m \in net'
                PROVE  /\ m.type = "LST" => m.counter <= counter'[m.peer]
                                            /\ m.nonce <= nonce'[m.peer]
                       /\ m.type = "LRT" => m.counter <= counter'[m.peer]
    BY DEF NoMessageAhead
  <2>1. CASE m \in net
    BY <1>4, <1>6, <1>8, <1>9, <2>1 DEF IInv, NoMessageAhead
  <2>2. CASE m = lst
    BY <1>2, <1>4, <1>5, <2>2 DEF lst
  <2>. QED
    BY <1>1, <2>1, <2>2 DEF lst
<1>13. OneProofPerRequest'
  BY <1>7 DEF IInv, OneProofPerRequest
<1>14. \A m \in Proofs : m.peer = c => m.nonce <= nonce[c] /\ m.counter <= counter[c]
  BY DEF Proofs, IInv, NoMessageAhead
<1>15. NoEarlyProof'
  <2>. SUFFICES ASSUME NEW d \in Clients, phase'[d] = "unproven",
                       NEW m \in Proofs, m.peer = d
                PROVE  m.nonce # nonce'[d]
    BY <1>7 DEF NoEarlyProof
  <2>1. CASE d = c
    <3>1. m.nonce \in Nat /\ m.nonce <= nonce[c]
      BY <1>8, <1>14, <2>1 DEF Proofs
    <3>. QED
      BY <1>2, <1>4, <2>1, <3>1
  <2>2. CASE d # c
    BY <1>4, <2>2 DEF IInv, NoEarlyProof
  <2>. QED
    BY <2>1, <2>2
<1>16. NoEarlyInvocation'
  <2>. SUFFICES ASSUME NEW d \in Clients, NEW n \in Requests,
                       n > nonce'[d] \/ (n = nonce'[d] /\ phase'[d] = "unproven")
                PROVE  invocations[d][n] = 0
    BY <1>3 DEF NoEarlyInvocation
  <2>0. n \in Nat
    BY Bounds
  <2>1. CASE d = c
    BY <1>2, <1>4, <2>0, <2>1 DEF IInv, NoEarlyInvocation
  <2>2. CASE d # c
    BY <1>4, <2>2 DEF IInv, NoEarlyInvocation
  <2>. QED
    BY <2>1, <2>2
<1>17. HonouredOnce'
  BY <1>3, <1>7 DEF IInv, HonouredOnce, Replayed
<1>18. ProofIsCurrent'
  <2>. SUFFICES ASSUME NEW m \in Proofs, phase'[m.peer] = "proof",
                       m.counter = counter'[m.peer]
                PROVE  m.nonce = nonce'[m.peer]
    BY <1>7 DEF ProofIsCurrent
  <2>1. m.peer \in Clients /\ m.peer # c
    BY <1>4, <1>6 DEF Proofs
  <2>. QED
    BY <1>4, <2>1 DEF IInv, ProofIsCurrent
<1>19. ResultsEarned'
  <2>1. ASSUME NEW m \in net', m.type = "LRT", Fulfils(m, m.peer)'
        PROVE  invocations[m.peer][nonce'[m.peer]] = 1
    <3>1. m \in net
      BY <1>1, <1>5, <2>1 DEF lst
    <3>2. m.peer \in Clients /\ m.peer # c
      BY <1>4, <1>6, <2>1, <3>1 DEF Fulfils
    <3>. QED
      BY <1>4, <2>1, <3>1, <3>2 DEF IInv, ResultsEarned, Fulfils
  <2>2. ASSUME NEW d \in Clients, phase'[d] = "done"
        PROVE  invocations[d][nonce'[d]] = 1
    BY <1>4, <2>2 DEF IInv, ResultsEarned
  <2>. QED
    BY <1>3, <2>1, <2>2 DEF ResultsEarned
<1>20. FlightsCounted'
  <2>. SUFFICES ASSUME NEW d \in Clients, NEW n \in Requests
                PROVE  /\ lsts'[d][n] <= 2
                       /\ n > nonce'[d] => lsts'[d][n] = 0
                       /\ n = nonce'[d] /\ phase'[d] = "unproven" => lsts'[d][n] = 1
                       /\ lsts'[d][n] = 2 => \E k \in minted : k.peer = d
    BY <1>3 DEF FlightsCounted
  <2>0. n \in Nat /\ nonce[d] \in Nat /\ lsts \in [Clients -> [Requests -> Nat]]
    BY <1>9, Bounds DEF IInv, TypeOK
  <2>1. lsts'[d][n] = IF d = c /\ n = nonce[c] + 1 THEN lsts[d][n] + 1
                                                   ELSE lsts[d][n]
    BY <1>2, <1>3, <2>0
  <2>2. n > nonce[d] => lsts[d][n] = 0
    BY DEF IInv, FlightsCounted
  <2>3. lsts[d][n] <= 2 /\ (lsts[d][n] = 2 => \E k \in minted : k.peer = d)
    BY DEF IInv, FlightsCounted
  <2>4. CASE d = c /\ n = nonce[c] + 1
    BY <1>2, <1>4, <2>0, <2>1, <2>2, <2>4
  <2>5. CASE ~(d = c /\ n = nonce[c] + 1)
    <3>1. lsts'[d][n] = lsts[d][n]
      BY <2>1, <2>5
    <3>2. n > nonce'[d] => n > nonce[d]
      BY <1>2, <1>4, <2>0
    <3>3. n = nonce'[d] /\ phase'[d] = "unproven" => lsts[d][n] = 1
      BY <1>4, <2>5 DEF IInv, FlightsCounted
    <3>. QED
      BY <2>2, <2>3, <3>1, <3>2, <3>3
  <2>. QED
    BY <2>4, <2>5
<1>21. ChallengesMinted'
  BY <1>1, <1>3, <1>5 DEF lst, IInv, ChallengesMinted
<1>22. NoAmplification'
  BY <1>3 DEF IInv, NoAmplification
<1>. QED
  BY <1>10, <1>11, <1>12, <1>13, <1>15, <1>16, <1>17, <1>18, <1>19, <1>20,
     <1>21, <1>22 DEF IInv
(***************************************************************************)
(* The proof carries a counter of its own, so no earlier proof and no      *)
(* earlier result can be taken for it, and it is the first for its nonce.  *)
(***************************************************************************)
LEMMA ProveInv ==
    ASSUME IInv, UNCHANGED faults, NEW c \in Clients, NEW q \in net, Prove(q, c)
    PROVE  IInv'
<1>. USE DEF Exchange
<1>0. PICK i \in Addresses(c) :
         /\ at' = [at EXCEPT ![c] = i]
         /\ Deliver(q, {SendLST(c, i, nonce[c], body[c], size[c], q.cookie)})
  BY DEF Prove
<1>. DEFINE lst == SendLST(c, i, nonce[c], body[c], size[c], q.cookie)
<1>1. /\ q.type = "COK" /\ q.peer = c /\ q \in COK
      /\ phase[c] = "unproven"
      /\ q.cookie \in Cookie /\ q.cookie \in minted /\ q.cookie.peer = c
  <2>1. q.type = "COK" /\ q.peer = c /\ phase[c] = "unproven"
    BY DEF Prove, Reaches, Answers
  <2>2. q \in COK
    BY <2>1, MessageKinds DEF IInv, TypeOK
  <2>. QED
    BY <2>1, <2>2 DEF COK, IInv, ChallengesMinted
<1>2. /\ nonce[c] \in Nat /\ nonce[c] \in Requests
      /\ counter[c] \in Nat /\ counter[c] + 1 <= 2 * nonce[c]
      /\ counter[c] + 1 \in Counters
  <2>1. nonce[c] \in 0..MaxRequests /\ counter[c] \in 0..(2 * MaxRequests)
        /\ counter[c] <= 2 * nonce[c] - 1 /\ nonce[c] \in Requests
    BY <1>1 DEF IInv, TypeOK, CountersBounded
  <2>. QED
    BY <2>1, Bounds DEF Requests, Counters
<1>3. /\ phase' = [phase EXCEPT ![c] = "proof"]
      /\ counter' = [counter EXCEPT ![c] = @ + 1]
      /\ lsts' = [lsts EXCEPT ![c][nonce[c]] = @ + 1]
      /\ UNCHANGED <<nonce, body, size, slots, window, replayed,
                     invocations, minted, received, challenged>>
  BY DEF Prove
<1>4. net' \subseteq net \cup {lst} /\ repeats' \in 0..MaxRepeats
  <2>1. Deliver(q, {lst})
    BY <1>0
  <2>. QED
    BY <2>1, DeliverNet DEF IInv
<1>5. /\ phase'[c] = "proof" /\ counter'[c] = counter[c] + 1
      /\ \A d \in Clients \ {c} : phase'[d] = phase[d] /\ counter'[d] = counter[d]
  BY <1>3 DEF IInv, TypeOK
<1>6. /\ lst.type = "LST" /\ lst.peer = c /\ lst.counter = counter[c] + 1
      /\ lst.nonce = nonce[c]
  BY DEF SendLST
<1>7. \A m \in net : m.peer \in Clients /\ m.type \in {"LST", "COK", "LRT"}
  BY MessageKinds DEF IInv, TypeOK
<1>8. \A m \in net : /\ m.type \in {"LST", "LRT"} => m.counter \in Nat
                     /\ m.type = "LST" => m.nonce \in Nat
  BY MessageKinds, Bounds DEF IInv, TypeOK, LST, LRT
<1>9. nonce \in [Clients -> Nat] /\ counter \in [Clients -> Nat]
  BY Bounds DEF IInv, TypeOK
<1>10. TypeOK'
  <2>0. i \in IPs
    BY DEF Addresses, IInv, TypeOK
  <2>1. lst \in LST
    BY <1>1, <1>2, <2>0 DEF SendLST, LST, IInv, TypeOK
  <2>2. counter' \in [Clients -> 0..(2 * MaxRequests)]
    <3>1. counter[c] + 1 \in 0..(2 * MaxRequests)
      BY <1>2 DEF Counters
    <3>. QED
      BY <1>3, <3>1 DEF IInv, TypeOK
  <2>3. lsts' \in [Clients -> [Requests -> Nat]]
    BY <1>2, <1>3 DEF IInv, TypeOK
  <2>. HIDE DEF lst
  <2>. QED
    BY <1>0, <1>3, <1>4, <2>0, <2>1, <2>2, <2>3 DEF IInv, TypeOK, slots
<1>. HIDE DEF lst
<1>11. \A m \in Proofs' : m = lst \/ (m \in Proofs /\ m \in net /\ m.type = "LST")
  BY <1>4 DEF Proofs
<1>12. \A m \in Proofs : m.peer = c => /\ m.nonce # nonce[c]
                                       /\ m.counter <= counter[c]
  BY <1>1 DEF Proofs, IInv, NoMessageAhead, NoEarlyProof
<1>13. CountersBounded'
  <2>. SUFFICES ASSUME NEW d \in Clients
                PROVE  /\ counter'[d] <= 2 * nonce[d]
                       /\ phase'[d] = "unproven" => counter'[d] <= 2 * nonce[d] - 1
                       /\ phase'[d] \in {"unproven", "proof", "done"}
                             => nonce[d] \in Requests
    BY <1>3 DEF CountersBounded
  <2>1. CASE d = c
    BY <1>2, <1>5, <2>1
  <2>2. CASE d # c
    BY <1>5, <2>2 DEF IInv, CountersBounded
  <2>. QED
    BY <2>1, <2>2
<1>14. NoMessageAhead'
  <2>. SUFFICES ASSUME NEW m \in net'
                PROVE  /\ m.type = "LST" => m.counter <= counter'[m.peer]
                                            /\ m.nonce <= nonce[m.peer]
                       /\ m.type = "LRT" => m.counter <= counter'[m.peer]
    BY <1>3 DEF NoMessageAhead
  <2>1. CASE m \in net
    BY <1>5, <1>7, <1>8, <1>9, <2>1 DEF IInv, NoMessageAhead
  <2>2. CASE m = lst
    BY <1>2, <1>5, <1>6, <2>2
  <2>. QED
    BY <1>4, <2>1, <2>2
<1>15. OneProofPerRequest'
  <2>. SUFFICES ASSUME NEW m \in Proofs', NEW p \in Proofs',
                       m.peer = p.peer, m.nonce = p.nonce
                PROVE  m.counter = p.counter
    BY DEF OneProofPerRequest
  <2>1. CASE m = lst /\ p = lst
    BY <2>1
  <2>2. CASE (m = lst) # (p = lst)
    BY <1>6, <1>11, <1>12, <2>2
  <2>3. CASE m # lst /\ p # lst
    BY <1>11, <2>3 DEF IInv, OneProofPerRequest
  <2>. QED
    BY <2>1, <2>2, <2>3
<1>16. NoEarlyProof'
  <2>. SUFFICES ASSUME NEW d \in Clients, phase'[d] = "unproven",
                       NEW m \in Proofs', m.peer = d
                PROVE  m.nonce # nonce[d]
    BY <1>3 DEF NoEarlyProof
  <2>1. d # c /\ phase[d] = "unproven"
    BY <1>5
  <2>2. m \in Proofs
    BY <1>6, <1>11, <2>1
  <2>. QED
    BY <2>1, <2>2 DEF IInv, NoEarlyProof
<1>17. NoEarlyInvocation'
  <2>. SUFFICES ASSUME NEW d \in Clients, NEW n \in Requests,
                       n > nonce[d] \/ (n = nonce[d] /\ phase'[d] = "unproven")
                PROVE  invocations[d][n] = 0
    BY <1>3 DEF NoEarlyInvocation
  <2>1. phase'[d] = "unproven" => phase[d] = "unproven"
    BY <1>5
  <2>. QED
    BY <2>1 DEF IInv, NoEarlyInvocation
<1>18. HonouredOnce'
  <2>. SUFFICES ASSUME NEW d \in Clients, NEW n \in Requests
                PROVE  /\ invocations[d][n] <= 1
                       /\ invocations[d][n] = 1 =>
                            \A m \in Proofs' : m.peer = d /\ m.nonce = n
                               => <<m.peer, m.counter>> \in replayed
    BY <1>3 DEF HonouredOnce, Replayed
  <2>1. invocations[c][nonce[c]] = 0
    BY <1>1, <1>2 DEF IInv, NoEarlyInvocation
  <2>2. ASSUME NEW m \in Proofs', m.peer = d, m.nonce = n, invocations[d][n] = 1
        PROVE  m \in Proofs
    BY <1>6, <1>11, <2>1, <2>2
  <2>. QED
    BY <2>2 DEF IInv, HonouredOnce, Replayed
<1>19. ProofIsCurrent'
  <2>. SUFFICES ASSUME NEW m \in Proofs', phase'[m.peer] = "proof",
                       m.counter = counter'[m.peer]
                PROVE  m.nonce = nonce[m.peer]
    BY <1>3 DEF ProofIsCurrent
  <2>1. CASE m = lst
    BY <1>6, <2>1
  <2>2. CASE m \in Proofs /\ m.peer = c
    <3>1. m.counter <= counter[c] /\ m.counter \in Nat
      BY <1>8, <1>12, <2>2 DEF Proofs
    <3>. QED
      BY <1>2, <1>5, <2>2, <3>1
  <2>3. CASE m \in Proofs /\ m.peer # c
    <3>1. m.peer \in Clients
      BY <1>7, <2>3 DEF Proofs
    <3>. QED
      BY <1>5, <2>3, <3>1 DEF IInv, ProofIsCurrent
  <2>. QED
    BY <1>11, <2>1, <2>2, <2>3
<1>20. ResultsEarned'
  <2>1. ASSUME NEW m \in net', m.type = "LRT", Fulfils(m, m.peer)'
        PROVE  invocations[m.peer][nonce[m.peer]] = 1
    <3>1. m \in net /\ m.peer \in Clients /\ m.counter \in Nat
      BY <1>4, <1>6, <1>7, <1>8, <2>1
    <3>2. CASE m.peer = c
      <4>1. m.counter <= counter[c]
        BY <2>1, <3>1, <3>2 DEF IInv, NoMessageAhead
      <4>. QED
        BY <1>2, <1>5, <2>1, <3>1, <3>2, <4>1 DEF Fulfils
    <3>3. CASE m.peer # c
      BY <1>5, <2>1, <3>1, <3>3 DEF IInv, ResultsEarned, Fulfils
    <3>. QED
      BY <3>2, <3>3
  <2>2. ASSUME NEW d \in Clients, phase'[d] = "done"
        PROVE  invocations[d][nonce[d]] = 1
    BY <1>5, <2>2 DEF IInv, ResultsEarned
  <2>. QED
    BY <1>3, <2>1, <2>2 DEF ResultsEarned
<1>21. FlightsCounted'
  <2>. SUFFICES ASSUME NEW d \in Clients, NEW n \in Requests
                PROVE  /\ lsts'[d][n] <= 2
                       /\ n > nonce[d] => lsts'[d][n] = 0
                       /\ n = nonce[d] /\ phase'[d] = "unproven" => lsts'[d][n] = 1
                       /\ lsts'[d][n] = 2 => \E k \in minted : k.peer = d
    BY <1>3 DEF FlightsCounted
  <2>0. lsts \in [Clients -> [Requests -> Nat]]
    BY DEF IInv, TypeOK
  <2>1. lsts'[d][n] = IF d = c /\ n = nonce[c] THEN lsts[d][n] + 1
                                               ELSE lsts[d][n]
    BY <1>2, <1>3, <2>0
  <2>2. CASE d = c /\ n = nonce[c]
    <3>1. lsts[d][n] = 1
      BY <1>1, <2>2 DEF IInv, FlightsCounted
    <3>. QED
      BY <1>1, <1>2, <1>5, <2>1, <2>2, <3>1
  <2>3. CASE ~(d = c /\ n = nonce[c])
    <3>1. phase'[d] = "unproven" => phase[d] = "unproven"
      BY <1>5
    <3>. QED
      BY <2>1, <2>3, <3>1 DEF IInv, FlightsCounted
  <2>. QED
    BY <2>2, <2>3
<1>22. ChallengesMinted'
  BY <1>3, <1>4, <1>6 DEF IInv, ChallengesMinted
<1>23. NoAmplification'
  BY <1>3 DEF IInv, NoAmplification
<1>. QED
  BY <1>10, <1>13, <1>14, <1>15, <1>16, <1>17, <1>18, <1>19, <1>20, <1>21,
     <1>22, <1>23 DEF IInv

----------------------------------------------------------------------------
\* Every step keeps the invariant.
LEMMA StepInv == IInv /\ [Next]_vars => IInv'
<1>. SUFFICES ASSUME IInv, [Next]_vars PROVE IInv'
  OBVIOUS
<1>1. CASE HubStep
  BY <1>1, ChallengeInv, InvokeAuthorityInv, DropProofInv DEF HubStep
<1>2. ASSUME NEW c \in Clients, ClientStep(c)
      PROVE  IInv'
  BY <1>2, ProveInv, EndOrIgnoreInv, SucceedInv DEF ClientStep
<1>3. ASSUME NEW c \in Clients, Begin(c), UNCHANGED faults
      PROVE  IInv'
  BY <1>3, BeginInv
<1>4. CASE /\ \/ \E m \in net : Lose(m)
              \/ \E c \in Clients : Roam(c)
              \/ Tick \/ Rotate \/ Retire \/ Install
           /\ UNCHANGED faults
  BY <1>4, EnvironmentInv
<1>5. CASE UNCHANGED vars
  <2>. USE <1>5 DEF vars, agents, slots, history
  <2>1. TypeOK'
    BY DEF IInv, TypeOK
  <2>2. Exchange'
    BY FrameExchange DEF IInv, TypeOK
  <2>3. NoAmplification'
    BY DEF IInv, NoAmplification
  <2>. QED
    BY <2>1, <2>2, <2>3 DEF IInv
<1>. QED
  BY <1>1, <1>2, <1>3, <1>4, <1>5 DEF Next, Unforced

\* IInv holds in every reachable state.
THEOREM Invariance == Spec => []IInv
BY InitInv, StepInv, PTL DEF Spec

\* The exchange keeps its types; counters stay within two per request.
THEOREM TypeCorrect == Spec => []TypeOK
<1>1. IInv => TypeOK
  BY DEF IInv
<1>. QED
  BY <1>1, Invariance, PTL

\* A request reaches Authority at most once, and a result was earned once.
THEOREM OneInvocation == Spec => []AuthorityOnce
<1>1. IInv => AuthorityOnce
  BY DEF IInv, Exchange, HonouredOnce, ResultsEarned, AuthorityOnce
<1>. QED
  BY <1>1, Invariance, PTL

\* A request sends at most one proof, and none without a challenge.
THEOREM OneProof == Spec => []AtMostOneProof
<1>1. IInv => AtMostOneProof
  BY DEF IInv, Exchange, FlightsCounted, AtMostOneProof
<1>. QED
  BY <1>1, Invariance, PTL

\* The Hub never sends an address more than it got from it unproven.
THEOREM Unamplified == Spec => []NoAmplification
<1>1. IInv => NoAmplification
  BY DEF IInv
<1>. QED
  BY <1>1, Invariance, PTL

----------------------------------------------------------------------------
\* A cookie is known to whom the Hub sent it and to nobody else: every proof under way
\* mixes in one that was minted.
ProofsMinted == \A m \in Proofs : m.cookie \in minted

\* A step adds no proof but the answer to a challenge.
LEMMA ProofsMintedKept ==
    ASSUME IInv, ProofsMinted, [Next]_vars PROVE ProofsMinted'
<1>. USE DEF agents, slots, history
<1>1. ASSUME minted \subseteq minted',
             \A p \in net' : \/ p \in net \/ p.type # "LST"
                             \/ p.cookie = NoCookie \/ p.cookie \in minted
      PROVE  ProofsMinted'
  BY <1>1 DEF ProofsMinted, Proofs
<1>2. CASE HubStep
  <2>1. ASSUME NEW m \in net, Challenge(m)
        PROVE  /\ minted \subseteq minted'
               /\ \A p \in net' : p \in net \/ p.type # "LST"
    BY <2>1 DEF Challenge, Deliver
  <2>2. ASSUME NEW m \in net, InvokeAuthority(m)
        PROVE  /\ minted \subseteq minted'
               /\ \A p \in net' : p \in net \/ p.type # "LST"
    BY <2>2 DEF InvokeAuthority, Deliver
  <2>3. ASSUME NEW m \in net, DropUnproven(m) \/ DropProof(m)
        PROVE  minted \subseteq minted' /\ net' \subseteq net
    BY <2>3 DEF DropUnproven, DropProof, Deliver
  <2>. QED
    BY <1>1, <1>2, <2>1, <2>2, <2>3 DEF HubStep
<1>3. ASSUME NEW c \in Clients, NEW m \in net, Prove(m, c)
      PROVE  /\ minted \subseteq minted'
             /\ \A p \in net' : p \in net \/ p.cookie \in minted
  <2>1. m.cookie \in minted
    BY <1>3 DEF Prove, IInv, Exchange, ChallengesMinted
  <2>2. PICK i \in Addresses(c) :
           Deliver(m, {SendLST(c, i, nonce[c], body[c], size[c], m.cookie)})
    BY <1>3 DEF Prove
  <2>3. SendLST(c, i, nonce[c], body[c], size[c], m.cookie).cookie = m.cookie
    BY DEF SendLST
  <2>4. minted' = minted
    BY <1>3 DEF Prove
  <2>. QED
    BY <2>1, <2>2, <2>3, <2>4 DEF Deliver
<1>4. ASSUME NEW c \in Clients,
             \/ \E m \in net : StopOnChallenge(m, c) \/ Succeed(m, c) \/ Ignore(m, c)
             \/ Timeout(c)
      PROVE  minted \subseteq minted' /\ net' \subseteq net
  BY <1>4 DEF StopOnChallenge, Succeed, Ignore, Timeout, Deliver
<1>5. ASSUME NEW c \in Clients, Begin(c)
      PROVE  /\ minted \subseteq minted'
             /\ \A p \in net' : p \in net \/ p.cookie = NoCookie
  BY <1>5 DEF Begin, SendLST
<1>6. CASE \/ \E c \in Clients : Roam(c)
           \/ \E m \in net : Lose(m)
           \/ Tick \/ Rotate \/ Retire \/ Install
           \/ UNCHANGED vars
  <2>1. minted \subseteq minted' /\ net' \subseteq net
    BY <1>6 DEF Roam, Lose, Tick, Rotate, Retire, Install, vars
  <2>. QED
    BY <1>1, <2>1
<1>7. CASE \E c \in Clients : ClientStep(c)
  BY <1>1, <1>3, <1>4, <1>7 DEF ClientStep
<1>8. CASE Unforced
  BY <1>1, <1>5, <1>6, <1>8 DEF Unforced
<1>. QED
  BY <1>2, <1>6, <1>7, <1>8 DEF Next

\* An invocation consumes a proof that opens: its cookie was minted for that agent at
\* that address, in this window or the one before.
LEMMA InvocationIsEarned ==
    ASSUME IInv, ProofsMinted, [Next]_vars PROVE [InvokedAfterRoundTrip]_vars
<1>. USE DEF agents, slots, history
<1>1. ASSUME NEW m \in net, InvokeAuthority(m) PROVE InvokedAfterRoundTrip
  <2>1. /\ m.type = "LST" /\ m.cookie # NoCookie /\ ProofValid(m)
        /\ invocations' = [invocations EXCEPT ![m.peer][m.nonce] = @ + 1]
    BY <1>1 DEF InvokeAuthority, Honourable
  <2>2. m.peer \in Clients /\ m.ip \in IPs /\ m.nonce \in Requests
    BY <2>1, MessageKinds DEF IInv, TypeOK, LST
  <2>3. m.cookie \in minted /\ m.cookie.peer = m.peer /\ m.cookie.ip = m.ip
    BY <2>1 DEF ProofsMinted, Proofs, ProofValid
  <2>4. window <= m.cookie.window + 1
    <3>1. m.cookie \in Cookie /\ window \in {m.cookie.window, m.cookie.window + 1}
      BY <2>1, <2>3 DEF ProofValid, Opens, IInv, TypeOK
    <3>2. m.cookie.window \in Nat
      BY <3>1, Bounds DEF Cookie
    <3>. QED
      BY <3>1, <3>2
  <2>5. ASSUME NEW c \in Clients, NEW n \in Requests,
               invocations'[c][n] # invocations[c][n]
        PROVE  c = m.peer /\ n = m.nonce
    BY <2>1, <2>2, <2>5 DEF IInv, TypeOK
  <2>6. ProofInFlight(m.peer, m.nonce, m.ip)
    BY <2>1 DEF ProofInFlight
  <2>. QED
    BY <2>2, <2>3, <2>4, <2>5, <2>6 DEF InvokedAfterRoundTrip
<1>2. ASSUME UNCHANGED invocations PROVE InvokedAfterRoundTrip
  BY <1>2 DEF InvokedAfterRoundTrip
<1>3. CASE HubStep
  BY <1>1, <1>2, <1>3 DEF HubStep, Challenge, DropUnproven, DropProof
<1>4. CASE \E c \in Clients : ClientStep(c)
  BY <1>2, <1>4 DEF ClientStep, Prove, StopOnChallenge, Succeed, Ignore, Timeout
<1>5. CASE Unforced
  BY <1>2, <1>5 DEF Unforced, Begin, Roam, Lose, Tick, Rotate, Retire, Install
<1>. QED
  BY <1>3, <1>4, <1>5 DEF Next

\* Authority is never invoked before the Hub has challenged that agent at that address
\* and got its proof back in time.
THEOREM RoundTripFirst == Spec => AuthorityAfterRoundTrip
<1>1. Init => ProofsMinted
  BY DEF Init, ProofsMinted, Proofs
<1>2. IInv /\ ProofsMinted /\ [Next]_vars => ProofsMinted'
  BY ProofsMintedKept
<1>3. IInv /\ ProofsMinted /\ [Next]_vars => [InvokedAfterRoundTrip]_vars
  BY InvocationIsEarned
<1>. QED
  BY <1>1, <1>2, <1>3, Invariance, PTL DEF Spec, AuthorityAfterRoundTrip
=============================================================================
