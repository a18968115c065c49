--------------------------- MODULE SessionControl ---------------------------
(***************************************************************************)
(* The registered-agent session exchange frozen by agent_session.go: a     *)
(* knock (KNK), under overload a cookie challenge (COK) and a second knock *)
(* that mixes the cookie into its digest (RKN), an ACK with the exact      *)
(* session receipt, and the retirement of exactly that session (EXT and    *)
(* its ACK).  One agent, its assigned cell, and between them datagrams     *)
(* that are lost, reordered and delivered any number of times.             *)
(*                                                                         *)
(* Bodies are reduced to what the classifiers tell apart.  A receipt is    *)
(* [id, issued, attempt]: the session id may be used again once its        *)
(* session is over, the issuance time may not.                             *)
(***************************************************************************)
EXTENDS Naturals, Sequences

CONSTANTS Ids,          \* session ids the cell draws from
          MaxAttempts,  \* bound on the run attempts of the agent
          MaxCounter,   \* bound on its requests
          MaxSessions,  \* bound on the sessions ever granted
          MaxCookies,   \* bound on the cookies ever minted
          Environments  \* the sets of faults a behaviour may meet: "restart"
                        \* (of the agent or the cell), "deny", "retry" (an EXT
                        \* sent again), "duplicate" (a request that reaches
                        \* the cell more than once)

ASSUME BoundsAssumption ==
    /\ MaxAttempts \in Nat /\ MaxCounter \in Nat
    /\ MaxSessions \in Nat /\ MaxCookies \in Nat
ASSUME FaultsAssumption ==
    Environments \subseteq SUBSET {"restart", "deny", "retry", "duplicate"}

Attempts == 1..MaxAttempts
Counters == 1..MaxCounter
Receipts == [id : Ids, issued : 1..MaxSessions, attempt : Attempts]
NoReceipt == <<>>

\* The header types of agent_session.go: what each packet carries.
Requests ==
    [type : {"KNK"}, counter : Counters, attempt : Attempts]
    \cup [type : {"RKN"}, counter : Counters, attempt : Attempts,
          cookie : 1..MaxCookies]
    \cup [type : {"EXT"}, counter : Counters, receipt : Receipts]

\* The counter of a COK is on the wire only, trxId is in its body.
Replies ==
    [type : {"COK"}, counter : Counters, trxId : Counters,
     cookie : 1..MaxCookies]
    \cup [type : {"ACK"}, body : {"session"}, counter : Counters, receipt : Receipts]
    \cup [type : {"ACK"}, body : {"close"}, counter : Counters, receipt : Receipts]
    \cup [type : {"ACK"}, body : {"denied"}, counter : Counters]

VARIABLES
    stage,      \* idle, knocked, reknocked, open or exiting
    attempt,    \* runAttempt of the agent's last knock
    counter,    \* the last request counter it used
    receipt,    \* of the session it holds
    confirmed,  \* the receipts whose retirement it saw confirmed
    requests,   \* every request ever sent
    replies,    \* every reply ever sent
    sessions,   \* the cell's sessions, in order of issuance
    cookies,    \* the knock each cookie was minted for
    live,       \* the cookies the cell still knows
    faults      \* those of this behaviour

agentVars == <<stage, attempt, counter, receipt, confirmed>>
cellVars == <<sessions, cookies, live>>
vars == <<agentVars, requests, replies, cellVars, faults>>

Session == [id : Ids, attempt : Attempts, request : Counters,
            state : {"open", "closing", "closed", "gone"}]

TypeOK ==
    /\ stage \in {"idle", "knocked", "reknocked", "open", "exiting"}
    /\ attempt \in 0..MaxAttempts
    /\ counter \in 0..MaxCounter
    /\ receipt \in Receipts \cup {NoReceipt}
    /\ stage \in {"open", "exiting"} <=> receipt # NoReceipt
    /\ confirmed \subseteq Receipts
    /\ requests \subseteq Requests
    /\ replies \subseteq Replies
    /\ sessions \in Seq(Session) /\ Len(sessions) <= MaxSessions
    /\ cookies \in Seq(Counters) /\ Len(cookies) <= MaxCookies
    /\ live \subseteq 1..Len(cookies)
    /\ faults \in Environments

Init ==
    /\ stage = "idle" /\ attempt = 0 /\ counter = 0
    /\ receipt = NoReceipt /\ confirmed = {}
    /\ requests = {} /\ replies = {}
    /\ sessions = <<>> /\ cookies = <<>> /\ live = {}
    /\ faults \in Environments

----------------------------------------------------------------------------
\* The agent.  Every request has a counter of its own.

CanSend == counter < MaxCounter

Send(m) == /\ counter' = counter + 1
           /\ requests' = requests \cup {m}
           /\ UNCHANGED <<replies, cellVars, confirmed, faults>>

Knock ==
    /\ stage = "idle" /\ CanSend
    /\ \E a \in {attempt, attempt + 1} \cap Attempts :
          /\ attempt' = a
          /\ Send([type |-> "KNK", counter |-> counter + 1, attempt |-> a])
    /\ stage' = "knocked"
    /\ UNCHANGED receipt

\* (a slip: the challenge is correlated by its wire counter)
CookieFits_WireCounter(m) == m.type = "COK" /\ m.counter = counter

CookieFits(m) == m.type = "COK" /\ m.trxId = counter

\* The second knock: same run and attempt, the cookie in its digest.
Reknock ==
    /\ stage = "knocked" /\ CanSend
    /\ \E m \in replies :
          /\ CookieFits(m)
          /\ Send([type |-> "RKN", counter |-> counter + 1, attempt |-> attempt,
                   cookie |-> m.cookie])
    /\ stage' = "reknocked"
    /\ UNCHANGED <<attempt, receipt>>

\* (slips: an ACK is taken for the run, whichever request it answers; the
\* ACK of the RKN is expected to echo the KNK)
Echoes_RunOnly(m) == TRUE
Echoes_Knock(m) == \E k \in requests :
                      k.type = "KNK" /\ k.attempt = attempt /\ k.counter = m.counter

Echoes(m) == m.counter = counter

AckFits(m) == /\ m.type = "ACK" /\ m.body = "session"
              /\ Echoes(m)
              /\ m.receipt.attempt = attempt

Open ==
    /\ stage \in {"knocked", "reknocked"}
    /\ \E m \in {r \in replies : r.type = "ACK"} :
          AckFits(m) /\ receipt' = m.receipt
    /\ stage' = "open"
    /\ UNCHANGED <<attempt, counter, confirmed, requests, replies, cellVars, faults>>

\* An authenticated denial ends the knock.
KnockDenied ==
    /\ stage \in {"knocked", "reknocked"}
    /\ \E m \in {r \in replies : r.type = "ACK"} :
          m.body = "denied" /\ Echoes(m)
    /\ stage' = "idle"
    /\ UNCHANGED <<attempt, counter, receipt, confirmed, requests, replies, cellVars, faults>>

\* EXT carries the exact receipt; sent again it gets a counter of its own.
Exit ==
    /\ stage = "open" \/ (stage = "exiting" /\ "retry" \in faults)
    /\ CanSend
    /\ Send([type |-> "EXT", counter |-> counter + 1, receipt |-> receipt])
    /\ stage' = "exiting"
    /\ UNCHANGED <<attempt, receipt>>

\* (a slip: any ACK to the EXT counts as its success)
CloseFits_AnyAck(m) == m.type = "ACK" /\ Echoes(m)

CloseFits(m) == m.type = "ACK" /\ m.body = "close" /\ Echoes(m) /\ m.receipt = receipt

\* (a slip: the receipt is not let go)
Closed_KeepsReceipt ==
    /\ stage = "exiting"
    /\ \E m \in {r \in replies : r.type = "ACK"} : CloseFits(m)
    /\ confirmed' = confirmed \cup {receipt}
    /\ stage' = "idle"
    /\ UNCHANGED <<attempt, counter, receipt, requests, replies, cellVars, faults>>

Closed ==
    /\ stage = "exiting"
    /\ \E m \in {r \in replies : r.type = "ACK"} : CloseFits(m)
    /\ confirmed' = confirmed \cup {receipt}
    /\ stage' = "idle" /\ receipt' = NoReceipt
    /\ UNCHANGED <<attempt, counter, requests, replies, cellVars, faults>>

\* A denied retirement leaves the agent with its session.
ExitDenied ==
    /\ stage = "exiting"
    /\ \E m \in {r \in replies : r.type = "ACK"} : m.body = "denied" /\ Echoes(m)
    /\ stage' = "open"
    /\ UNCHANGED <<attempt, counter, receipt, confirmed, requests, replies, cellVars, faults>>

\* The agent starts over with no memory of the exchange: a restart, or a
\* knock that timed out.  Its counters go on.
AgentRestarts ==
    /\ "restart" \in faults /\ stage # "idle"
    /\ stage' = "idle" /\ receipt' = NoReceipt
    /\ UNCHANGED <<attempt, counter, confirmed, requests, replies, cellVars, faults>>

----------------------------------------------------------------------------
\* The cell.  A request may reach it late and more than once.

Answers(r, m) == IF r.type = "COK" THEN r.trxId = m.counter
                                   ELSE r.counter = m.counter

Arrived(m) == "duplicate" \in faults \/ \A r \in replies : ~Answers(r, m)

Reply(m) == replies' = replies \cup {m} /\ UNCHANGED <<agentVars, requests, faults>>

Over(s) == sessions[s].state \in {"closed", "gone"}

FreeIds == {id \in Ids : \A s \in 1..Len(sessions) : sessions[s].id = id => Over(s)}

ReceiptOf(s) == [id |-> sessions[s].id, issued |-> s,
                 attempt |-> sessions[s].attempt]

\* A knock the cell is ready to serve: any KNK, an RKN with a cookie it knows.
Servable(m) == m.type = "KNK" \/ (m.type = "RKN" /\ m.cookie \in live)

Grant ==
    /\ Len(sessions) < MaxSessions
    /\ \E m \in {r \in requests : r.type # "EXT"}, id \in FreeIds :
          /\ Servable(m) /\ Arrived(m)
          /\ sessions' = Append(sessions, [id |-> id, attempt |-> m.attempt,
                                           request |-> m.counter, state |-> "open"])
          /\ Reply([type |-> "ACK", body |-> "session", counter |-> m.counter,
                    receipt |-> [id |-> id, issued |-> Len(sessions) + 1,
                                 attempt |-> m.attempt]])
    /\ UNCHANGED <<cookies, live>>

\* Overloaded, the cell answers a KNK with a cookie.  The wire counter of the
\* COK is unconstrained.
Challenge ==
    /\ Len(cookies) < MaxCookies
    /\ \E m \in {r \in requests : r.type = "KNK"}, c \in 1..counter :
          /\ Arrived(m)
          /\ cookies' = Append(cookies, m.counter)
          /\ live' = live \cup {Len(cookies) + 1}
          /\ Reply([type |-> "COK", counter |-> c, trxId |-> m.counter,
                    cookie |-> Len(cookies) + 1])
    /\ UNCHANGED sessions

Deny ==
    /\ "deny" \in faults
    /\ \E m \in requests :
          /\ Arrived(m)
          /\ Reply([type |-> "ACK", body |-> "denied", counter |-> m.counter])
    /\ UNCHANGED cellVars

Selects(r, s) == r = ReceiptOf(s)

Retire ==
    /\ \E m \in {r \in requests : r.type = "EXT"}, s \in 1..Len(sessions),
          after \in {"closing", "closed"} :
          /\ Arrived(m) /\ Selects(m.receipt, s)
          /\ sessions[s].state # "gone"
          /\ sessions[s].state = "closed" => after = "closed"
          /\ sessions' = [sessions EXCEPT ![s].state = after]
          /\ Reply([type |-> "ACK", body |-> "close", counter |-> m.counter,
                    receipt |-> ReceiptOf(s)])
    /\ UNCHANGED <<cookies, live>>

\* A cell that restarts forgets its sessions and its cookies.
CellRestarts ==
    /\ "restart" \in faults
    /\ sessions' = [s \in 1..Len(sessions) |->
                      [sessions[s] EXCEPT !.state = IF @ = "open" THEN "gone" ELSE @]]
    /\ live' = {}
    /\ sessions' # sessions \/ live # {}
    /\ UNCHANGED <<agentVars, requests, replies, cookies, faults>>

----------------------------------------------------------------------------
Agent == \/ Knock \/ Reknock \/ Open \/ KnockDenied
         \/ Exit \/ Closed \/ ExitDenied \/ AgentRestarts
Cell == Grant \/ Challenge \/ Deny \/ Retire \/ CellRestarts
Next == Agent \/ Cell

Spec == Init /\ [][Next]_vars

\* Each side gets its turn; the cell does not serve one kind of request only.
Fairness == /\ WF_vars(Knock) /\ WF_vars(Reknock) /\ WF_vars(Open)
            /\ WF_vars(Exit) /\ WF_vars(Closed)
            /\ WF_vars(Grant) /\ WF_vars(Retire)
FairSpec == Spec /\ Fairness

----------------------------------------------------------------------------
(***************************************************************************)
(* The receipt an agent holds names a session the cell granted to the very *)
(* request the agent last knocked with: not to the KNK that the RKN        *)
(* replaced, not to a knock of an earlier try that was answered late.      *)
(***************************************************************************)
ReceiptAnswersKnock ==
    receipt # NoReceipt =>
        /\ receipt.issued <= Len(sessions)
        /\ receipt = ReceiptOf(receipt.issued)
        /\ \E m \in requests : /\ m.type \in {"KNK", "RKN"}
                               /\ m.counter = sessions[receipt.issued].request
                               /\ \A n \in requests :
                                     n.type # "EXT" => n.counter <= m.counter

(***************************************************************************)
(* Every RKN mixes in a cookie minted for its own KNK, the last one before *)
(* it, though the wire counters of the challenges say nothing.             *)
(***************************************************************************)
ReknockUsesItsChallenge ==
    \A m \in requests : m.type = "RKN" =>
        \E k \in requests :
            /\ k.type = "KNK" /\ k.counter = cookies[m.cookie]
            /\ k.counter + 1 = m.counter
            /\ k.attempt = m.attempt

(***************************************************************************)
(* The exchange implements ExactSession: at most one session is held, only *)
(* a session whose exact receipt the agent sent in an EXT is retired,      *)
(* whatever ids are used again and however late the EXT arrives, and a     *)
(* retirement the agent believes in has happened.                          *)
(***************************************************************************)
Lease == INSTANCE ExactSession WITH
    Sessions <- 1..MaxSessions,
    granted <- 1..Len(sessions),
    held <- IF receipt = NoReceipt THEN 0 ELSE receipt.issued,
    asked <- {m.receipt.issued : m \in {r \in requests : r.type = "EXT"}},
    retired <- {s \in 1..Len(sessions) : sessions[s].state \in {"closing", "closed"}},
    confirmed <- {r.issued : r \in confirmed}

RefinesLease == Lease!Spec

(***************************************************************************)
(* Where requests are at most sent again, an agent that knocks gets its     *)
(* session, overloaded cell or not, and can retire it.                     *)
(***************************************************************************)
SessionIsRetired == faults \subseteq {"retry"} ~> confirmed # {}
=============================================================================
