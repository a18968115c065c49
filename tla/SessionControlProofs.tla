------------------------ MODULE SessionControlProofs ------------------------
(***************************************************************************)
(* For any session ids, attempts, counters, sessions, cookies and faults:  *)
(* the types, that a receipt answers the knock in progress, that a second  *)
(* knock uses its own challenge, and that the exchange implements the      *)
(* lease of ExactSession.                                                  *)
(***************************************************************************)
EXTENDS SessionControl, SequenceTheorems, TLAPS

Retired == {"closing", "closed"}

(***************************************************************************)
(* The inductive invariant.  What the cell said stays true of its sessions *)
(* and cookies, whatever it forgets and however late it is heard; the      *)
(* request the agent waits for is the last one it sent.                    *)
(***************************************************************************)
CountersUsed == \A m \in requests : m.counter <= counter

ReknocksMinted == \A m \in requests : m.type = "RKN" => m.cookie \in 1..Len(cookies)

ChallengesMinted ==
    \A r \in replies : r.type = "COK" =>
        r.cookie \in 1..Len(cookies) /\ r.trxId = cookies[r.cookie]

Names(r) == /\ r.receipt.issued \in 1..Len(sessions)
            /\ r.receipt = ReceiptOf(r.receipt.issued)

SessionsGranted ==
    \A r \in replies : r.type = "ACK" /\ r.body = "session" =>
        Names(r) /\ r.counter = sessions[r.receipt.issued].request

ClosesEarned ==
    \A r \in replies : r.type = "ACK" /\ r.body = "close" =>
        Names(r) /\ sessions[r.receipt.issued].state \in Retired

InProgress ==
    stage \in {"knocked", "reknocked"} =>
        \E m \in requests : /\ m.type = IF stage = "knocked" THEN "KNK" ELSE "RKN"
                            /\ m.counter = counter /\ m.attempt = attempt

Traced == /\ CountersUsed /\ ReknocksMinted /\ ReknockUsesItsChallenge
          /\ ChallengesMinted /\ SessionsGranted /\ ClosesEarned

IInv == TypeOK /\ Traced /\ InProgress /\ ReceiptAnswersKnock

----------------------------------------------------------------------------
\* What the types say of one request, reply or session.

\* The fields of a request.
LEMMA RequestFacts ==
    ASSUME NEW m \in Requests
    PROVE  /\ m.type \in {"KNK", "RKN", "EXT"} /\ m.counter \in Counters
           /\ m.type # "EXT" => m.attempt \in Attempts
           /\ m.type = "RKN" => m.cookie \in 1..MaxCookies
           /\ m.type = "EXT" => m.receipt \in Receipts
BY DEF Requests

\* The fields of a reply.
LEMMA ReplyFacts ==
    ASSUME NEW r \in Replies
    PROVE  /\ r.type \in {"COK", "ACK"} /\ r.counter \in Counters
           /\ r.type = "COK" => r.trxId \in Counters /\ r.cookie \in 1..MaxCookies
           /\ r.type = "ACK" => /\ r.body \in {"session", "close", "denied"}
                                /\ r.body # "denied" => r.receipt \in Receipts
BY DEF Replies

\* The fields of a receipt; none is the missing one.
LEMMA ReceiptFacts ==
    /\ NoReceipt \notin Receipts
    /\ \A r \in Receipts : /\ r.id \in Ids /\ r.issued \in 1..MaxSessions
                           /\ r.issued \in Nat \ {0} /\ r.attempt \in Attempts
<1>1. NoReceipt \notin Receipts
  <2>1. \A r \in Receipts : "id" \in DOMAIN r
    BY DEF Receipts
  <2>2. DOMAIN NoReceipt = {}
    BY DEF NoReceipt
  <2>. QED
    BY <2>1, <2>2
<1>2. \A r \in Receipts : /\ r.id \in Ids /\ r.issued \in 1..MaxSessions
                          /\ r.attempt \in Attempts
  BY DEF Receipts
<1>. QED
  BY <1>1, <1>2, BoundsAssumption

\* A session and the receipt for it.
LEMMA SessionFacts ==
    ASSUME TypeOK
    PROVE  /\ Len(sessions) \in Nat /\ Len(sessions) <= MaxSessions
           /\ \A s \in 1..Len(sessions) :
                 /\ sessions[s] \in Session
                 /\ sessions[s].id \in Ids /\ sessions[s].attempt \in Attempts
                 /\ sessions[s].request \in Counters
                 /\ ReceiptOf(s) \in Receipts /\ ReceiptOf(s).issued = s
<1>1. sessions \in Seq(Session) /\ Len(sessions) <= MaxSessions /\ Len(sessions) \in Nat
  BY LenProperties DEF TypeOK
<1>. SUFFICES ASSUME NEW s \in 1..Len(sessions)
              PROVE  /\ sessions[s] \in Session
                     /\ sessions[s].id \in Ids /\ sessions[s].attempt \in Attempts
                     /\ sessions[s].request \in Counters
                     /\ ReceiptOf(s) \in Receipts /\ ReceiptOf(s).issued = s
  BY <1>1
<1>2. sessions[s] \in Session
  BY <1>1, ElementOfSeq
<1>3. /\ sessions[s].id \in Ids /\ sessions[s].attempt \in Attempts
      /\ sessions[s].request \in Counters
  BY <1>2 DEF Session
<1>4. s \in 1..MaxSessions
  BY <1>1, BoundsAssumption
<1>. QED
  BY <1>2, <1>3, <1>4 DEF ReceiptOf, Receipts

\* What a step may do to the sessions: add some, and retire or forget some.
Advance ==
    /\ Len(sessions) \in Nat /\ Len(sessions') \in Nat
    /\ Len(sessions) <= Len(sessions')
    /\ \A s \in 1..Len(sessions) :
          /\ sessions'[s].id = sessions[s].id
          /\ sessions'[s].attempt = sessions[s].attempt
          /\ sessions'[s].request = sessions[s].request
          /\ sessions[s].state \in Retired => sessions'[s].state \in Retired

\* A receipt names the same session after the step.
LEMMA NamesKept ==
    ASSUME Advance, NEW s \in 1..Len(sessions)
    PROVE  s \in 1..Len(sessions') /\ ReceiptOf(s)' = ReceiptOf(s)
BY DEF Advance, ReceiptOf

\* What the cell said before a step stays true after it.
LEMMA SaidKept ==
    ASSUME Advance, SessionsGranted, ClosesEarned,
           NEW r \in replies, r.type = "ACK", r.body \in {"session", "close"}
    PROVE  /\ Names(r)'
           /\ r.body = "session" => r.counter = sessions'[r.receipt.issued].request
           /\ r.body = "close" => sessions'[r.receipt.issued].state \in Retired
<1>1. Names(r)
  BY DEF SessionsGranted, ClosesEarned
<1>2. /\ r.receipt.issued \in 1..Len(sessions)
      /\ r.receipt = ReceiptOf(r.receipt.issued)
  BY <1>1 DEF Names
<1>3. /\ r.receipt.issued \in 1..Len(sessions')
      /\ ReceiptOf(r.receipt.issued)' = ReceiptOf(r.receipt.issued)
  BY <1>2, NamesKept
<1>4. Names(r)'
  BY <1>2, <1>3 DEF Names
<1>. QED
  BY <1>2, <1>4 DEF Advance, SessionsGranted, ClosesEarned

\* An answer that tells the truth keeps the trace.
LEMMA ReplyTraced ==
    ASSUME IInv, Advance, NEW m, Reply(m),
           Len(cookies) \in Nat, Len(cookies') \in Nat, Len(cookies) <= Len(cookies'),
           \A c \in 1..Len(cookies) : cookies'[c] = cookies[c],
           m.type = "COK" => m.cookie \in 1..Len(cookies') /\ m.trxId = cookies'[m.cookie],
           m.type = "ACK" /\ m.body = "session" =>
               Names(m)' /\ m.counter = sessions'[m.receipt.issued].request,
           m.type = "ACK" /\ m.body = "close" =>
               Names(m)' /\ sessions'[m.receipt.issued].state \in Retired
    PROVE  Traced'
<1>1. replies' = replies \cup {m} /\ requests' = requests /\ counter' = counter
  BY DEF Reply, agentVars
<1>2. (CountersUsed /\ ReknocksMinted)'
  BY <1>1 DEF IInv, Traced, CountersUsed, ReknocksMinted
<1>3. ReknockUsesItsChallenge'
  <2>. SUFFICES ASSUME NEW q \in requests, q.type = "RKN"
                PROVE  \E k \in requests : /\ k.type = "KNK" /\ k.counter = cookies'[q.cookie]
                                           /\ k.counter + 1 = q.counter
                                           /\ k.attempt = q.attempt
    BY <1>1, Zenon DEF ReknockUsesItsChallenge
  <2>1. cookies'[q.cookie] = cookies[q.cookie]
    BY DEF IInv, Traced, ReknocksMinted
  <2>2. PICK k \in requests : /\ k.type = "KNK" /\ k.counter = cookies[q.cookie]
                              /\ k.counter + 1 = q.counter /\ k.attempt = q.attempt
    BY DEF IInv, Traced, ReknockUsesItsChallenge
  <2>. QED
    BY <2>1, <2>2
<1>4. ChallengesMinted'
  BY <1>1 DEF IInv, Traced, ChallengesMinted
<1>5. SessionsGranted' /\ ClosesEarned'
  <2>. SUFFICES ASSUME NEW r \in replies', r.type = "ACK", r.body \in {"session", "close"}
                PROVE  /\ Names(r)'
                       /\ r.body = "session" =>
                             r.counter = sessions'[r.receipt.issued].request
                       /\ r.body = "close" => sessions'[r.receipt.issued].state \in Retired
    BY DEF SessionsGranted, ClosesEarned
  <2>1. CASE r \in replies
    BY <2>1, SaidKept DEF IInv, Traced
  <2>2. CASE r = m
    BY <2>2
  <2>. QED
    BY <1>1, <2>1, <2>2
<1>. QED
  BY <1>2, <1>3, <1>4, <1>5 DEF Traced

\* The session an agent holds is still the one its receipt names.
LEMMA HeldKept ==
    ASSUME IInv, Advance, UNCHANGED <<agentVars, requests>>
    PROVE  ReceiptAnswersKnock' /\ InProgress'
<1>1. InProgress'
  BY DEF IInv, InProgress, agentVars
<1>2. ReceiptAnswersKnock'
  <2>. SUFFICES ASSUME receipt # NoReceipt PROVE ReceiptAnswersKnock'
    BY DEF ReceiptAnswersKnock, agentVars
  <2>1. receipt' = receipt /\ requests' = requests
    BY DEF agentVars
  <2>2. receipt \in Receipts
    BY DEF IInv, TypeOK
  <2>3. PICK h \in 1..Len(sessions) : receipt.issued = h /\ receipt = ReceiptOf(h)
    BY <2>2, ReceiptFacts DEF IInv, ReceiptAnswersKnock, Advance
  <2>4. /\ h \in 1..Len(sessions') /\ h <= Len(sessions')
        /\ ReceiptOf(h)' = ReceiptOf(h) /\ sessions'[h].request = sessions[h].request
    BY <2>3, NamesKept DEF Advance
  <2>5. PICK m \in requests :
           /\ m.type \in {"KNK", "RKN"} /\ m.counter = sessions[h].request
           /\ \A n \in requests : n.type # "EXT" => n.counter <= m.counter
    BY <2>3 DEF IInv, ReceiptAnswersKnock
  <2>6. receipt'.issued = h /\ receipt' = ReceiptOf(h)'
    BY <2>1, <2>3, <2>4
  <2>7. (receipt = ReceiptOf(receipt.issued))'
    BY <2>6 DEF ReceiptOf
  <2>8. \E k \in requests' : /\ k.type \in {"KNK", "RKN"}
                             /\ k.counter = sessions'[receipt'.issued].request
                             /\ \A n \in requests' : n.type # "EXT" => n.counter <= k.counter
    BY <2>1, <2>4, <2>5, <2>6
  <2>. QED
    BY <2>4, <2>6, <2>7, <2>8 DEF ReceiptAnswersKnock
<1>. QED
  BY <1>1, <1>2

----------------------------------------------------------------------------
\* The agent's requests.

\* A request that mixes in the cookie of its own knock keeps the trace.
LEMMA SendTraced ==
    ASSUME IInv, NEW m, Send(m), m.counter = counter + 1,
           m.type \in {"KNK", "RKN", "EXT"},
           m.type = "RKN" => /\ m.cookie \in 1..Len(cookies)
                             /\ \E k \in requests : /\ k.type = "KNK"
                                                    /\ k.counter = cookies[m.cookie]
                                                    /\ k.counter = counter
                                                    /\ k.attempt = m.attempt
    PROVE  Traced'
<1>1. /\ counter' = counter + 1 /\ requests' = requests \cup {m}
      /\ UNCHANGED <<replies, sessions, cookies>>
  BY DEF Send, cellVars
<1>2. counter \in Nat /\ \A n \in requests : n.counter \in Nat /\ n.counter <= counter
  BY RequestFacts, BoundsAssumption DEF IInv, TypeOK, Traced, CountersUsed, Counters
<1>3. CountersUsed'
  BY <1>1, <1>2 DEF CountersUsed
<1>4. ReknocksMinted'
  BY <1>1 DEF IInv, Traced, ReknocksMinted
<1>5. ReknockUsesItsChallenge'
  <2>. SUFFICES ASSUME NEW q \in requests', q.type = "RKN"
                PROVE  \E k \in requests : /\ k.type = "KNK" /\ k.counter = cookies[q.cookie]
                                          /\ k.counter + 1 = q.counter
                                          /\ k.attempt = q.attempt
    BY <1>1 DEF ReknockUsesItsChallenge
  <2>1. CASE q \in requests
    BY <2>1 DEF IInv, Traced, ReknockUsesItsChallenge
  <2>2. CASE q = m
    BY <2>2
  <2>. QED
    BY <1>1, <2>1, <2>2
<1>6. (ChallengesMinted /\ SessionsGranted /\ ClosesEarned)'
  BY <1>1 DEF IInv, Traced, ChallengesMinted, SessionsGranted, ClosesEarned, Names, ReceiptOf
<1>. QED
  BY <1>3, <1>4, <1>5, <1>6 DEF Traced

\* A request within the bounds keeps the types.
LEMMA SendTyped ==
    ASSUME TypeOK, NEW m \in Requests, Send(m), CanSend
    PROVE  /\ counter' \in 0..MaxCounter /\ requests' \subseteq Requests
           /\ UNCHANGED <<confirmed, replies, sessions, cookies, live, faults>>
           /\ counter + 1 \in Counters
BY BoundsAssumption DEF TypeOK, Send, CanSend, cellVars, Counters

\* A knock starts a request with a counter of its own.
LEMMA KnockInv == ASSUME IInv, Knock PROVE IInv'
<1>1. counter \in Nat /\ counter + 1 \in Counters
  BY BoundsAssumption DEF Knock, CanSend, IInv, TypeOK, Counters
<1>2. PICK a \in {attempt, attempt + 1} \cap Attempts :
         /\ attempt' = a
         /\ Send([type |-> "KNK", counter |-> counter + 1, attempt |-> a])
  BY DEF Knock
<1>. DEFINE m == [type |-> "KNK", counter |-> counter + 1, attempt |-> a]
<1>3. m \in Requests
  BY <1>1 DEF Requests
<1>4. Traced'
  BY <1>2, SendTraced
<1>5. stage = "idle" /\ stage' = "knocked" /\ receipt = NoReceipt /\ receipt' = NoReceipt
  BY DEF Knock, IInv, TypeOK
<1>6. TypeOK'
  <2>1. /\ counter' \in 0..MaxCounter /\ requests' \subseteq Requests
        /\ UNCHANGED <<confirmed, replies, sessions, cookies, live, faults>>
    BY <1>2, <1>3, SendTyped DEF Knock, IInv
  <2>2. attempt' \in 0..MaxAttempts
    BY <1>2, BoundsAssumption DEF Attempts
  <2>. QED
    BY <1>5, <2>1, <2>2 DEF IInv, TypeOK
<1>7. InProgress'
  <2>1. m \in requests' /\ m.type = "KNK" /\ m.counter = counter' /\ m.attempt = attempt'
    BY <1>2 DEF Send
  <2>. QED
    BY <1>5, <2>1 DEF InProgress
<1>8. ReceiptAnswersKnock'
  BY <1>5 DEF ReceiptAnswersKnock
<1>. QED
  BY <1>4, <1>6, <1>7, <1>8 DEF IInv

\* The challenge a second knock takes up was minted for the knock in progress.
LEMMA ReknockInv == ASSUME IInv, Reknock PROVE IInv'
<1>1. counter \in Nat /\ counter + 1 \in Counters
  BY BoundsAssumption DEF Reknock, CanSend, IInv, TypeOK, Counters
<1>2. PICK c \in replies :
         /\ CookieFits(c)
         /\ Send([type |-> "RKN", counter |-> counter + 1, attempt |-> attempt,
                  cookie |-> c.cookie])
  BY DEF Reknock
<1>. DEFINE m == [type |-> "RKN", counter |-> counter + 1, attempt |-> attempt,
                  cookie |-> c.cookie]
<1>3. /\ c.type = "COK" /\ c.trxId = counter /\ c.cookie \in 1..MaxCookies
      /\ c.cookie \in 1..Len(cookies) /\ cookies[c.cookie] = counter
  BY <1>2, ReplyFacts DEF CookieFits, IInv, TypeOK, Traced, ChallengesMinted
<1>4. PICK k \in requests : k.type = "KNK" /\ k.counter = counter /\ k.attempt = attempt
  BY DEF Reknock, IInv, InProgress
<1>5. attempt \in Attempts
  BY <1>4, RequestFacts DEF IInv, TypeOK
<1>6. m \in Requests
  BY <1>1, <1>3, <1>5 DEF Requests
<1>7. Traced'
  <2>1. /\ m.counter = counter + 1 /\ m.type = "RKN" /\ m.cookie \in 1..Len(cookies)
        /\ k.counter = cookies[m.cookie] /\ k.attempt = m.attempt /\ Send(m)
    BY <1>2, <1>3, <1>4
  <2>. QED
    BY <1>4, <2>1, SendTraced
<1>8. /\ stage = "knocked" /\ stage' = "reknocked" /\ attempt' = attempt
      /\ receipt = NoReceipt /\ receipt' = NoReceipt
  BY DEF Reknock, IInv, TypeOK
<1>9. TypeOK'
  <2>1. /\ counter' \in 0..MaxCounter /\ requests' \subseteq Requests
        /\ UNCHANGED <<confirmed, replies, sessions, cookies, live, faults>>
    BY <1>2, <1>6, SendTyped DEF Reknock, IInv
  <2>. QED
    BY <1>8, <2>1 DEF IInv, TypeOK
<1>10. InProgress'
  <2>1. m \in requests' /\ m.type = "RKN" /\ m.counter = counter' /\ m.attempt = attempt'
    BY <1>2, <1>8 DEF Send
  <2>. QED
    BY <1>8, <2>1 DEF InProgress
<1>11. ReceiptAnswersKnock'
  BY <1>8 DEF ReceiptAnswersKnock
<1>. QED
  BY <1>7, <1>9, <1>10, <1>11 DEF IInv

\* An EXT has a counter above that of every knock.
LEMMA ExitInv == ASSUME IInv, Exit PROVE IInv'
<1>. DEFINE m == [type |-> "EXT", counter |-> counter + 1, receipt |-> receipt]
<1>1. /\ Send(m) /\ CanSend /\ stage \in {"open", "exiting"} /\ stage' = "exiting"
      /\ UNCHANGED <<attempt, receipt>>
  BY DEF Exit
<1>2. receipt # NoReceipt /\ receipt \in Receipts
  BY <1>1 DEF IInv, TypeOK
<1>3. counter \in Nat /\ counter + 1 \in Counters
  BY <1>1, BoundsAssumption DEF CanSend, IInv, TypeOK, Counters
<1>4. m \in Requests
  BY <1>2, <1>3 DEF Requests
<1>5. Traced'
  BY <1>1, SendTraced
<1>6. TypeOK'
  <2>1. /\ counter' \in 0..MaxCounter /\ requests' \subseteq Requests
        /\ UNCHANGED <<confirmed, replies, sessions, cookies, live, faults>>
    BY <1>1, <1>4, SendTyped DEF IInv
  <2>. QED
    BY <1>1, <1>2, <2>1 DEF IInv, TypeOK
<1>7. InProgress'
  BY <1>1 DEF InProgress
<1>8. ReceiptAnswersKnock'
  <2>1. receipt' = receipt /\ sessions' = sessions /\ requests' = requests \cup {m}
    BY <1>1 DEF Send, cellVars
  <2>2. PICK k \in requests :
           /\ k.type \in {"KNK", "RKN"} /\ k.counter = sessions[receipt.issued].request
           /\ \A n \in requests : n.type # "EXT" => n.counter <= k.counter
    BY <1>2 DEF IInv, ReceiptAnswersKnock
  <2>3. \A n \in requests' : n.type # "EXT" => n.counter <= k.counter
    BY <2>1, <2>2
  <2>4. receipt.issued <= Len(sessions) /\ receipt = ReceiptOf(receipt.issued)
    BY <1>2 DEF IInv, ReceiptAnswersKnock
  <2>5. (receipt = ReceiptOf(receipt.issued))'
    BY <2>1, <2>4 DEF ReceiptOf
  <2>. QED
    BY <2>1, <2>2, <2>3, <2>4, <2>5 DEF ReceiptAnswersKnock
<1>. QED
  BY <1>5, <1>6, <1>7, <1>8 DEF IInv

----------------------------------------------------------------------------
\* The agent's answers: it sends nothing.

\* A step that sends nothing and grants nothing keeps the trace.
LEMMA TraceKept ==
    ASSUME Traced, UNCHANGED <<counter, requests, replies, cellVars>>
    PROVE  Traced'
<1>1. UNCHANGED <<counter, requests, replies, sessions, cookies>>
  BY DEF cellVars
<1>. QED
  BY <1>1 DEF Traced, CountersUsed, ReknocksMinted, ReknockUsesItsChallenge,
              ChallengesMinted, SessionsGranted, ClosesEarned, Names, ReceiptOf

\* The ACK that opens a session echoes the last request, so it answers that one.
LEMMA OpenInv == ASSUME IInv, Open PROVE IInv'
<1>1. PICK r \in replies : r.type = "ACK" /\ AckFits(r) /\ receipt' = r.receipt
  BY DEF Open
<1>2. /\ stage \in {"knocked", "reknocked"} /\ stage' = "open"
      /\ UNCHANGED <<attempt, counter, confirmed, requests, replies, cellVars, faults>>
  BY DEF Open
<1>3. UNCHANGED <<sessions, cookies, live>>
  BY <1>2 DEF cellVars
<1>4. r.body = "session" /\ r.counter = counter /\ r.receipt \in Receipts
  BY <1>1, ReplyFacts DEF AckFits, Echoes, IInv, TypeOK
<1>5. Names(r) /\ sessions[r.receipt.issued].request = counter
  BY <1>1, <1>4 DEF IInv, Traced, SessionsGranted
<1>6. Traced'
  BY <1>2, TraceKept DEF IInv
<1>7. TypeOK'
  BY <1>1, <1>2, <1>3, <1>4, ReceiptFacts DEF IInv, TypeOK
<1>8. InProgress'
  BY <1>2 DEF InProgress
<1>9. ReceiptAnswersKnock'
  <2>1. PICK h \in 1..Len(sessions) : r.receipt.issued = h /\ r.receipt = ReceiptOf(h)
    BY <1>5 DEF Names
  <2>2. h <= Len(sessions) /\ sessions[h].request = counter
    BY <1>5, <2>1, SessionFacts DEF IInv
  <2>3. ReceiptOf(h)' = ReceiptOf(h) /\ receipt' = ReceiptOf(h) /\ receipt'.issued = h
    BY <1>1, <1>3, <2>1 DEF ReceiptOf
  <2>4. (receipt = ReceiptOf(receipt.issued))'
    BY <1>3, <2>3 DEF ReceiptOf
  <2>5. PICK k \in requests : k.type \in {"KNK", "RKN"} /\ k.counter = counter
    BY <1>2 DEF IInv, InProgress
  <2>6. \A n \in requests : n.counter <= counter
    BY DEF IInv, Traced, CountersUsed
  <2>. QED
    BY <1>2, <1>3, <2>2, <2>3, <2>4, <2>5, <2>6 DEF ReceiptAnswersKnock
<1>. QED
  BY <1>6, <1>7, <1>8, <1>9 DEF IInv

\* A stage that follows without a receipt, or with the one there was.
LEMMA StageInv ==
    ASSUME IInv, UNCHANGED <<attempt, counter, requests, replies, cellVars, faults>>,
           \/ stage' = "idle" /\ receipt' = NoReceipt
           \/ stage' = "open" /\ receipt' = receipt /\ receipt # NoReceipt,
           confirmed' \subseteq Receipts
    PROVE  IInv'
<1>1. UNCHANGED <<attempt, counter, requests, replies, sessions, cookies, live, faults>>
  BY DEF cellVars
<1>2. Traced'
  BY TraceKept DEF IInv
<1>3. InProgress'
  BY DEF InProgress
<1>4. TypeOK'
  BY <1>1 DEF IInv, TypeOK
<1>5. ReceiptAnswersKnock'
  <2>1. CASE receipt' = NoReceipt
    BY <2>1 DEF ReceiptAnswersKnock
  <2>2. CASE receipt' = receipt
    BY <1>1, <2>2 DEF IInv, ReceiptAnswersKnock, ReceiptOf
  <2>. QED
    BY <2>1, <2>2
<1>. QED
  BY <1>2, <1>3, <1>4, <1>5 DEF IInv

\* The steps of the agent that only end something.
LEMMA AnswersInv ==
    ASSUME IInv, KnockDenied \/ Closed \/ ExitDenied \/ AgentRestarts
    PROVE  IInv'
<1>1. confirmed \subseteq Receipts /\ receipt \in Receipts \cup {NoReceipt}
      /\ (stage \in {"open", "exiting"} <=> receipt # NoReceipt)
  BY DEF IInv, TypeOK
<1>2. CASE KnockDenied
  BY <1>1, <1>2, StageInv DEF KnockDenied
<1>3. CASE Closed
  BY <1>1, <1>3, StageInv DEF Closed
<1>4. CASE ExitDenied
  BY <1>1, <1>4, StageInv DEF ExitDenied
<1>5. CASE AgentRestarts
  BY <1>1, <1>5, StageInv DEF AgentRestarts
<1>. QED
  BY <1>2, <1>3, <1>4, <1>5

----------------------------------------------------------------------------
\* The cell.

\* An answer leaves the types of what is not the cell's alone.
LEMMA ReplyTyped ==
    ASSUME TypeOK, NEW m \in Replies, Reply(m),
           sessions' \in Seq(Session), Len(sessions') <= MaxSessions,
           cookies' \in Seq(Counters), Len(cookies') <= MaxCookies,
           live' \subseteq 1..Len(cookies')
    PROVE  TypeOK'
BY DEF TypeOK, Reply, agentVars

\* Lengths of the sequences of the cell.
LEMMA Lengths ==
    ASSUME TypeOK
    PROVE  /\ Len(sessions) \in Nat /\ Len(cookies) \in Nat
           /\ \A c \in 1..Len(cookies) : cookies[c] \in Counters
BY LenProperties, ElementOfSeq DEF TypeOK

\* A grant says what it does.
LEMMA GrantInv == ASSUME IInv, Grant PROVE IInv'
<1>1. PICK m \in requests, id \in FreeIds :
         /\ m.type # "EXT"
         /\ sessions' = Append(sessions, [id |-> id, attempt |-> m.attempt,
                                          request |-> m.counter, state |-> "open"])
         /\ Reply([type |-> "ACK", body |-> "session", counter |-> m.counter,
                   receipt |-> [id |-> id, issued |-> Len(sessions) + 1,
                                attempt |-> m.attempt]])
  BY DEF Grant
<1>. DEFINE new == [id |-> id, attempt |-> m.attempt, request |-> m.counter, state |-> "open"]
            n == Len(sessions) + 1
            ack == [type |-> "ACK", body |-> "session", counter |-> m.counter,
                    receipt |-> [id |-> id, issued |-> n, attempt |-> m.attempt]]
<1>2. Len(sessions) \in Nat /\ Len(sessions) < MaxSessions /\ UNCHANGED <<cookies, live>>
  BY Lengths DEF IInv, Grant
<1>3. m.attempt \in Attempts /\ m.counter \in Counters /\ id \in Ids
  BY <1>1, RequestFacts DEF IInv, TypeOK, FreeIds
<1>4. new \in Session
  BY <1>3 DEF Session
<1>5. /\ sessions' \in Seq(Session) /\ Len(sessions') = n
      /\ \A s \in 1..Len(sessions) : sessions'[s] = sessions[s]
      /\ sessions'[n] = new
  BY <1>1, <1>4, AppendProperties DEF IInv, TypeOK
<1>6. Advance
  BY <1>2, <1>5 DEF Advance
<1>7. ack \in Replies
  <2>1. n \in 1..MaxSessions
    BY <1>2, BoundsAssumption
  <2>2. ack.receipt \in Receipts
    BY <1>3, <2>1 DEF Receipts
  <2>. QED
    BY <1>3, <2>2 DEF Replies
<1>8. TypeOK'
  <2>1. Len(sessions') <= MaxSessions
    BY <1>2, <1>5, BoundsAssumption
  <2>2. /\ cookies' \in Seq(Counters) /\ Len(cookies') <= MaxCookies
        /\ live' \subseteq 1..Len(cookies')
    BY <1>2 DEF IInv, TypeOK
  <2>. QED
    BY <1>1, <1>5, <1>7, <2>1, <2>2, ReplyTyped DEF IInv
<1>9. PICK said : said = ack
  OBVIOUS
<1>10. Traced'
  <2>1. Len(cookies) \in Nat /\ cookies' = cookies
    BY <1>2, Lengths DEF IInv
  <2>2. /\ said.type = "ACK" /\ said.body = "session" /\ Reply(said)
        /\ said.receipt = [id |-> id, issued |-> n, attempt |-> m.attempt]
        /\ said.counter = m.counter
    BY <1>1, <1>9
  <2>3. said.receipt.issued = n /\ n \in 1..Len(sessions')
    BY <1>2, <1>5, <2>2
  <2>4. said.receipt = ReceiptOf(said.receipt.issued)'
    BY <1>5, <2>2, <2>3 DEF ReceiptOf
  <2>5. Names(said)' /\ said.counter = sessions'[said.receipt.issued].request
    BY <1>5, <2>2, <2>3, <2>4 DEF Names
  <2>. QED
    BY <1>6, <2>1, <2>2, <2>5, ReplyTraced
<1>11. ReceiptAnswersKnock' /\ InProgress'
  BY <1>1, <1>6, HeldKept DEF Reply
<1>. QED
  BY <1>8, <1>10, <1>11 DEF IInv

\* A cookie is minted for the knock the COK answers.
LEMMA ChallengeInv == ASSUME IInv, Challenge PROVE IInv'
<1>1. PICK m \in requests, w \in 1..counter :
         /\ cookies' = Append(cookies, m.counter)
         /\ live' = live \cup {Len(cookies) + 1}
         /\ Reply([type |-> "COK", counter |-> w, trxId |-> m.counter,
                   cookie |-> Len(cookies) + 1])
  BY DEF Challenge
<1>2. PICK said : said = [type |-> "COK", counter |-> w, trxId |-> m.counter,
                          cookie |-> Len(cookies) + 1]
  OBVIOUS
<1>3. /\ Len(sessions) \in Nat /\ Len(cookies) \in Nat /\ Len(cookies) < MaxCookies
      /\ sessions' = sessions
  BY Lengths DEF IInv, Challenge
<1>4. m.counter \in Counters /\ w \in Counters
  BY <1>1, RequestFacts, BoundsAssumption DEF IInv, TypeOK, Counters
<1>5. /\ cookies' \in Seq(Counters) /\ Len(cookies') = Len(cookies) + 1
      /\ \A c \in 1..Len(cookies) : cookies'[c] = cookies[c]
      /\ cookies'[Len(cookies) + 1] = m.counter
  BY <1>1, <1>4, AppendProperties DEF IInv, TypeOK
<1>6. Advance
  BY <1>3 DEF Advance
<1>7. TypeOK'
  <2>1. Len(cookies') <= MaxCookies /\ Len(cookies) + 1 \in 1..MaxCookies
    BY <1>3, <1>5, BoundsAssumption
  <2>2. said \in Replies
    BY <1>2, <1>4, <2>1 DEF Replies
  <2>3. live' \subseteq 1..Len(cookies')
    <3>1. live \subseteq 1..Len(cookies)
      BY DEF IInv, TypeOK
    <3>2. live' = live \cup {Len(cookies) + 1} /\ Len(cookies') = Len(cookies) + 1
      BY <1>1, <1>5
    <3>. HIDE <1>1
    <3>. SUFFICES ASSUME NEW c \in live' PROVE c \in 1..Len(cookies')
      OBVIOUS
    <3>3. CASE c \in live
      BY <1>3, <3>1, <3>2, <3>3
    <3>4. CASE c = Len(cookies) + 1
      BY <1>3, <3>2, <3>4
    <3>. QED
      BY <3>2, <3>3, <3>4
  <2>4. sessions' \in Seq(Session) /\ Len(sessions') <= MaxSessions
    BY <1>3 DEF IInv, TypeOK
  <2>. QED
    BY <1>1, <1>2, <1>5, <2>1, <2>2, <2>3, <2>4, ReplyTyped DEF IInv
<1>8. Traced'
  <2>1. /\ said.type = "COK" /\ said.cookie = Len(cookies) + 1
        /\ said.trxId = m.counter /\ Reply(said)
    BY <1>1, <1>2
  <2>2. said.cookie \in 1..Len(cookies') /\ said.trxId = cookies'[said.cookie]
    BY <1>3, <1>5, <2>1
  <2>3. Len(cookies') \in Nat /\ Len(cookies) <= Len(cookies')
    BY <1>3, <1>5
  <2>. QED
    BY <1>3, <1>5, <1>6, <2>1, <2>2, <2>3, ReplyTraced
<1>9. ReceiptAnswersKnock' /\ InProgress'
  BY <1>1, <1>6, HeldKept DEF Reply
<1>. QED
  BY <1>7, <1>8, <1>9 DEF IInv

\* A denial says nothing of sessions or cookies.
LEMMA DenyInv == ASSUME IInv, Deny PROVE IInv'
<1>1. PICK m \in requests : Reply([type |-> "ACK", body |-> "denied", counter |-> m.counter])
  BY DEF Deny
<1>2. PICK said : said = [type |-> "ACK", body |-> "denied", counter |-> m.counter]
  OBVIOUS
<1>3. /\ Len(sessions) \in Nat /\ Len(cookies) \in Nat
      /\ sessions' = sessions /\ cookies' = cookies /\ live' = live
  BY Lengths DEF IInv, Deny, cellVars
<1>4. Advance
  BY <1>3 DEF Advance
<1>5. TypeOK'
  <2>1. said \in Replies
    BY <1>2, RequestFacts DEF Replies, IInv, TypeOK
  <2>. QED
    BY <1>1, <1>2, <1>3, <2>1, ReplyTyped DEF IInv, TypeOK
<1>6. Traced'
  <2>1. said.type = "ACK" /\ said.body = "denied" /\ Reply(said)
    BY <1>1, <1>2
  <2>. QED
    BY <1>3, <1>4, <2>1, ReplyTraced
<1>7. ReceiptAnswersKnock' /\ InProgress'
  BY <1>1, <1>4, HeldKept DEF Reply
<1>. QED
  BY <1>5, <1>6, <1>7 DEF IInv

\* A close ACK is said of a session that is retired in the same step.
LEMMA RetireInv == ASSUME IInv, Retire PROVE IInv'
<1>1. PICK m \in requests, s \in 1..Len(sessions), after \in {"closing", "closed"} :
         /\ sessions[s].state = "closed" => after = "closed"
         /\ sessions' = [sessions EXCEPT ![s].state = after]
         /\ Reply([type |-> "ACK", body |-> "close", counter |-> m.counter,
                   receipt |-> ReceiptOf(s)])
  BY DEF Retire
<1>2. PICK said : said = [type |-> "ACK", body |-> "close", counter |-> m.counter,
                          receipt |-> ReceiptOf(s)]
  OBVIOUS
<1>3. /\ Len(sessions) \in Nat /\ Len(cookies) \in Nat
      /\ cookies' = cookies /\ live' = live
  BY Lengths DEF IInv, Retire
<1>4. /\ sessions[s] \in Session /\ ReceiptOf(s) \in Receipts
      /\ ReceiptOf(s).issued = s /\ sessions \in Seq(Session)
  BY SessionFacts DEF IInv, TypeOK
<1>5. sessions' = [sessions EXCEPT ![s] = [sessions[s] EXCEPT !.state = after]]
  BY <1>1
<1>6. [sessions[s] EXCEPT !.state = after] \in Session
  BY <1>4 DEF Session
<1>7. /\ sessions' \in Seq(Session) /\ Len(sessions') = Len(sessions)
      /\ sessions'[s] = [sessions[s] EXCEPT !.state = after]
      /\ \A t \in 1..Len(sessions) : t # s => sessions'[t] = sessions[t]
  BY <1>4, <1>5, <1>6, ExceptSeq
<1>8. Advance
  <2>1. /\ sessions'[s].id = sessions[s].id /\ sessions'[s].attempt = sessions[s].attempt
        /\ sessions'[s].request = sessions[s].request /\ sessions'[s].state \in Retired
    BY <1>4, <1>7 DEF Session, Retired
  <2>2. ASSUME NEW t \in 1..Len(sessions)
        PROVE  /\ sessions'[t].id = sessions[t].id
               /\ sessions'[t].attempt = sessions[t].attempt
               /\ sessions'[t].request = sessions[t].request
               /\ sessions[t].state \in Retired => sessions'[t].state \in Retired
    <3>1. CASE t = s
      BY <2>1, <3>1
    <3>2. CASE t # s
      BY <1>7, <3>2
    <3>. QED
      BY <3>1, <3>2
  <2>. QED
    BY <1>3, <1>7, <2>2 DEF Advance
<1>9. TypeOK'
  <2>1. said \in Replies
    BY <1>2, <1>4, RequestFacts DEF Replies, IInv, TypeOK
  <2>. QED
    BY <1>1, <1>2, <1>3, <1>7, <2>1, ReplyTyped DEF IInv, TypeOK
<1>10. Traced'
  <2>1. /\ said.type = "ACK" /\ said.body = "close" /\ Reply(said)
        /\ said.receipt = ReceiptOf(s) /\ said.receipt.issued = s
    BY <1>1, <1>2, <1>4
  <2>2. /\ s \in 1..Len(sessions') /\ ReceiptOf(s)' = ReceiptOf(s)
        /\ sessions'[s].state \in Retired
    BY <1>4, <1>7, <1>8, NamesKept DEF Session, Retired
  <2>3. said.receipt = ReceiptOf(said.receipt.issued)'
    BY <2>1, <2>2 DEF ReceiptOf
  <2>4. Names(said)' /\ sessions'[said.receipt.issued].state \in Retired
    BY <2>1, <2>2, <2>3 DEF Names
  <2>. QED
    BY <1>3, <1>8, <2>1, <2>4, ReplyTraced
<1>11. ReceiptAnswersKnock' /\ InProgress'
  BY <1>1, <1>8, HeldKept DEF Reply
<1>. QED
  BY <1>9, <1>10, <1>11 DEF IInv

\* A restart forgets no session that was said to be retired.
LEMMA CellRestartsInv == ASSUME IInv, CellRestarts PROVE IInv'
<1>1. /\ sessions' = [s \in 1..Len(sessions) |->
                        [sessions[s] EXCEPT !.state = IF @ = "open" THEN "gone" ELSE @]]
      /\ live' = {}
      /\ UNCHANGED <<stage, attempt, counter, receipt, confirmed, requests, replies,
                     cookies, faults>>
  BY DEF CellRestarts, agentVars
<1>2. Len(sessions) \in Nat /\ \A s \in 1..Len(sessions) : sessions[s] \in Session
  BY SessionFacts DEF IInv
<1>3. ASSUME NEW s \in 1..Len(sessions)
      PROVE  /\ sessions'[s] \in Session
             /\ sessions'[s].id = sessions[s].id
             /\ sessions'[s].attempt = sessions[s].attempt
             /\ sessions'[s].request = sessions[s].request
             /\ sessions[s].state \in Retired => sessions'[s].state \in Retired
             /\ sessions'[s].state \in Retired => sessions[s].state \in Retired
  <2>1. sessions[s] \in Session
    BY <1>2
  <2>2. sessions'[s] = [sessions[s] EXCEPT !.state = IF @ = "open" THEN "gone" ELSE @]
    BY <1>1
  <2>3. CASE sessions[s].state = "open"
    BY <2>1, <2>2, <2>3 DEF Session, Retired
  <2>4. CASE sessions[s].state # "open"
    BY <2>1, <2>2, <2>4 DEF Session, Retired
  <2>. QED
    BY <2>3, <2>4
<1>4. sessions' \in Seq(Session) /\ Len(sessions') = Len(sessions)
  <2>1. sessions' \in [1..Len(sessions) -> Session]
    BY <1>1, <1>3
  <2>. QED
    BY <1>2, <2>1
<1>5. Advance
  BY <1>2, <1>3, <1>4 DEF Advance
<1>6. TypeOK'
  BY <1>1, <1>4 DEF IInv, TypeOK
<1>7. Traced'
  <2>1. (CountersUsed /\ ReknocksMinted /\ ReknockUsesItsChallenge /\ ChallengesMinted)'
    BY <1>1 DEF IInv, Traced, CountersUsed, ReknocksMinted, ReknockUsesItsChallenge,
                ChallengesMinted
  <2>2. (SessionsGranted /\ ClosesEarned)'
    BY <1>1, <1>5, SaidKept DEF IInv, Traced, SessionsGranted, ClosesEarned
  <2>. QED
    BY <2>1, <2>2 DEF Traced
<1>8. ReceiptAnswersKnock' /\ InProgress'
  BY <1>1, <1>5, HeldKept DEF agentVars
<1>. QED
  BY <1>6, <1>7, <1>8 DEF IInv

----------------------------------------------------------------------------
\* Nothing was said yet.
LEMMA InitInv == Init => IInv
<1>. SUFFICES ASSUME Init PROVE IInv
  OBVIOUS
<1>1. TypeOK
  BY BoundsAssumption DEF Init, TypeOK
<1>. QED
  BY <1>1 DEF Init, IInv, Traced, CountersUsed, ReknocksMinted, ReknockUsesItsChallenge,
              ChallengesMinted, SessionsGranted, ClosesEarned, InProgress,
              ReceiptAnswersKnock

\* A step of nobody.
LEMMA StutterInv == ASSUME IInv, UNCHANGED vars PROVE IInv'
<1>1. UNCHANGED <<stage, attempt, counter, receipt, confirmed, requests, replies,
                  sessions, cookies, live, faults>>
  BY DEF vars, agentVars, cellVars
<1>2. Traced'
  BY <1>1, TraceKept DEF IInv, cellVars
<1>. QED
  BY <1>1, <1>2 DEF IInv, TypeOK, InProgress, ReceiptAnswersKnock, ReceiptOf

\* Every step keeps the inductive invariant.
LEMMA StepInv == IInv /\ [Next]_vars => IInv'
BY KnockInv, ReknockInv, OpenInv, ExitInv, AnswersInv, GrantInv, ChallengeInv, DenyInv,
   RetireInv, CellRestartsInv, StutterInv DEF Next, Agent, Cell

\* The inductive invariant holds of every reachable state.
THEOREM Invariance == Spec => []IInv
BY InitInv, StepInv, PTL DEF Spec

\* Agent, cell and network keep their types.
THEOREM TypeCorrect == Spec => []TypeOK
<1>1. IInv => TypeOK
  BY DEF IInv
<1>. QED
  BY <1>1, Invariance, PTL

\* A receipt answers the last knock of its agent, not one that was replaced or given up.
THEOREM OwnReceipt == Spec => []ReceiptAnswersKnock
<1>1. IInv => ReceiptAnswersKnock
  BY DEF IInv
<1>. QED
  BY <1>1, Invariance, PTL

\* A second knock uses the cookie minted for the first, whatever COK arrives late.
THEOREM OwnChallenge == Spec => []ReknockUsesItsChallenge
<1>1. IInv => ReknockUsesItsChallenge
  BY DEF IInv, Traced
<1>. QED
  BY <1>1, Invariance, PTL

----------------------------------------------------------------------------
\* The lease: what an observer sees who knows sessions and nothing of packets.

Granted == 1..Len(sessions)
Held == IF receipt = NoReceipt THEN 0 ELSE receipt.issued
Asked == {m.receipt.issued : m \in {r \in requests : r.type = "EXT"}}
RetiredSessions == {s \in 1..Len(sessions) : sessions[s].state \in {"closing", "closed"}}
Confirmed == {r.issued : r \in confirmed}
Seen == <<Granted, Held, Asked, RetiredSessions, Confirmed>>

\* Steps between agent and cell that the lease does not see.
LEMMA Unseen ==
    ASSUME UNCHANGED <<sessions, receipt, confirmed>>,
           \A m \in requests' \cup requests :
               m.type = "EXT" => m \in requests /\ m \in requests'
    PROVE  UNCHANGED Seen
<1>1. {r \in requests' : r.type = "EXT"} = {r \in requests : r.type = "EXT"}
  OBVIOUS
<1>2. Asked' = Asked
  BY <1>1 DEF Asked
<1>3. Granted' = Granted /\ Held' = Held /\ RetiredSessions' = RetiredSessions /\ Confirmed' = Confirmed
  BY DEF Granted, Held, RetiredSessions, Confirmed
<1>. QED
  BY <1>2, <1>3 DEF Seen

\* An agent that opens holds a session the cell has granted.
LEMMA OpenHolds ==
    ASSUME IInv, Open
    PROVE  /\ Held = 0 /\ Held' \in Granted /\ Held' \in 1..MaxSessions
           /\ UNCHANGED <<Granted, Asked, RetiredSessions, Confirmed>>
<1>1. PICK r \in replies : r.type = "ACK" /\ AckFits(r) /\ receipt' = r.receipt
  BY DEF Open
<1>2. r.body = "session" /\ r.receipt \in Receipts
  BY <1>1, ReplyFacts DEF AckFits, IInv, TypeOK
<1>3. r.receipt.issued \in 1..Len(sessions)
  BY <1>1, <1>2 DEF IInv, Traced, SessionsGranted, Names
<1>4. receipt = NoReceipt /\ UNCHANGED <<requests, confirmed, sessions>>
  BY DEF Open, IInv, TypeOK, cellVars
<1>5. Held = 0 /\ Held' = r.receipt.issued
  BY <1>1, <1>2, <1>4, ReceiptFacts DEF Held
<1>6. UNCHANGED <<Granted, Asked, RetiredSessions, Confirmed>>
  BY <1>4 DEF Granted, Asked, RetiredSessions, Confirmed
<1>. QED
  BY <1>2, <1>3, <1>5, <1>6, ReceiptFacts DEF Granted

\* An EXT asks for the session held, and no other.
LEMMA ExitAsks ==
    ASSUME IInv, Exit
    PROVE  /\ Held # 0 /\ Asked' = Asked \cup {Held}
           /\ UNCHANGED <<Granted, Held, RetiredSessions, Confirmed>>
<1>. DEFINE m == [type |-> "EXT", counter |-> counter + 1, receipt |-> receipt]
<1>1. /\ requests' = requests \cup {m}
      /\ UNCHANGED <<receipt, confirmed, sessions>>
  BY DEF Exit, Send, cellVars
<1>2. receipt # NoReceipt /\ receipt \in Receipts
  BY DEF Exit, IInv, TypeOK
<1>3. Held = receipt.issued /\ Held # 0
  BY <1>2, ReceiptFacts DEF Held
<1>4. {r \in requests' : r.type = "EXT"} = {r \in requests : r.type = "EXT"} \cup {m}
  BY <1>1
<1>5. Asked' = Asked \cup {m.receipt.issued}
  BY <1>4 DEF Asked
<1>6. UNCHANGED <<Granted, Held, RetiredSessions, Confirmed>>
  BY <1>1 DEF Granted, Held, RetiredSessions, Confirmed
<1>. QED
  BY <1>3, <1>5, <1>6

\* A confirmation comes after the retirement it confirms.
LEMMA ClosedConfirms ==
    ASSUME IInv, Closed
    PROVE  /\ Held \in RetiredSessions /\ Held' = 0 /\ Confirmed' = Confirmed \cup {Held}
           /\ UNCHANGED <<Granted, Asked, RetiredSessions>>
<1>1. PICK r \in replies : r.type = "ACK" /\ CloseFits(r)
  BY DEF Closed
<1>2. r.body = "close" /\ r.receipt = receipt
  BY <1>1 DEF CloseFits
<1>3. receipt.issued \in 1..Len(sessions) /\ sessions[receipt.issued].state \in Retired
  BY <1>1, <1>2 DEF IInv, Traced, ClosesEarned, Names
<1>4. /\ receipt # NoReceipt /\ receipt' = NoReceipt /\ confirmed' = confirmed \cup {receipt}
      /\ UNCHANGED <<requests, sessions>>
  BY DEF Closed, IInv, TypeOK, cellVars
<1>5. Held = receipt.issued /\ Held' = 0
  BY <1>4 DEF Held
<1>6. Confirmed' = Confirmed \cup {receipt.issued}
  BY <1>4 DEF Confirmed
<1>7. UNCHANGED <<Granted, Asked, RetiredSessions>>
  BY <1>4 DEF Granted, Asked, RetiredSessions
<1>. QED
  BY <1>3, <1>5, <1>6, <1>7 DEF RetiredSessions, Retired

\* An agent that starts over lets its session go.
LEMMA RestartLetsGo ==
    ASSUME IInv, AgentRestarts
    PROVE  /\ Held' = 0 /\ UNCHANGED <<Granted, Asked, RetiredSessions, Confirmed>>
BY DEF AgentRestarts, Granted, Held, Asked, RetiredSessions, Confirmed, cellVars

\* A grant is of a session that was never granted.
LEMMA GrantGrants ==
    ASSUME IInv, Grant
    PROVE  \E s \in 1..MaxSessions :
              /\ s \notin Granted /\ Granted' = Granted \cup {s}
              /\ UNCHANGED <<Held, Asked, RetiredSessions, Confirmed>>
<1>1. PICK new : sessions' = Append(sessions, new) /\ new \in Session /\ new.state = "open"
  <2>1. PICK m \in requests, id \in FreeIds :
           /\ m.type # "EXT"
           /\ sessions' = Append(sessions, [id |-> id, attempt |-> m.attempt,
                                            request |-> m.counter, state |-> "open"])
    BY DEF Grant
  <2>2. m.attempt \in Attempts /\ m.counter \in Counters /\ id \in Ids
    BY <2>1, RequestFacts DEF IInv, TypeOK, FreeIds
  <2>. QED
    BY <2>1, <2>2 DEF Session
<1>2. /\ Len(sessions) \in Nat /\ Len(sessions) < MaxSessions
      /\ UNCHANGED <<receipt, requests, confirmed>>
  BY Lengths DEF IInv, Grant, Reply, agentVars
<1>3. /\ Len(sessions') = Len(sessions) + 1
      /\ \A s \in 1..Len(sessions) : sessions'[s] = sessions[s]
      /\ sessions'[Len(sessions) + 1] = new
  BY <1>1, AppendProperties DEF IInv, TypeOK
<1>4. /\ Len(sessions) + 1 \in 1..MaxSessions /\ Len(sessions) + 1 \notin Granted
      /\ Granted' = Granted \cup {Len(sessions) + 1}
  BY <1>2, <1>3, BoundsAssumption DEF Granted
<1>5. RetiredSessions' = RetiredSessions
  <2>1. ASSUME NEW s PROVE s \in RetiredSessions' <=> s \in RetiredSessions
    <3>1. CASE s \in 1..Len(sessions)
      BY <1>2, <1>3, <3>1 DEF RetiredSessions
    <3>2. CASE s = Len(sessions) + 1
      BY <1>1, <1>2, <1>3, <3>2 DEF RetiredSessions
    <3>. QED
      BY <1>2, <1>3, <3>1, <3>2 DEF RetiredSessions
  <2>. QED
    BY <2>1 DEF RetiredSessions
<1>6. UNCHANGED <<Held, Asked, Confirmed>>
  BY <1>2 DEF Held, Asked, Confirmed
<1>. QED
  BY <1>4, <1>5, <1>6

\* The cell retires what an EXT asked for.
LEMMA RetireRetires ==
    ASSUME IInv, Retire
    PROVE  \E s \in 1..MaxSessions :
              /\ s \in Asked /\ RetiredSessions' = RetiredSessions \cup {s}
              /\ UNCHANGED <<Granted, Held, Asked, Confirmed>>
<1>1. PICK m \in requests, s \in 1..Len(sessions), after \in {"closing", "closed"} :
         /\ m.type = "EXT" /\ Selects(m.receipt, s)
         /\ sessions' = [sessions EXCEPT ![s].state = after]
  BY DEF Retire
<1>2. /\ sessions[s] \in Session /\ sessions \in Seq(Session)
      /\ ReceiptOf(s).issued = s /\ s \in 1..MaxSessions
  BY SessionFacts, ReceiptFacts DEF IInv, TypeOK
<1>3. s \in Asked
  BY <1>1, <1>2 DEF Selects, Asked
<1>4. [sessions[s] EXCEPT !.state = after] \in Session
  BY <1>2 DEF Session
<1>5. /\ Len(sessions') = Len(sessions) /\ sessions'[s].state = after
      /\ \A t \in 1..Len(sessions) : t # s => sessions'[t] = sessions[t]
  <2>1. sessions' = [sessions EXCEPT ![s] = [sessions[s] EXCEPT !.state = after]]
    BY <1>1
  <2>2. /\ Len(sessions') = Len(sessions)
        /\ sessions'[s] = [sessions[s] EXCEPT !.state = after]
        /\ \A t \in 1..Len(sessions) : t # s => sessions'[t] = sessions[t]
    BY <1>2, <1>4, <2>1, ExceptSeq
  <2>. QED
    BY <1>2, <2>2 DEF Session
<1>6. RetiredSessions' = RetiredSessions \cup {s}
  <2>1. ASSUME NEW t PROVE t \in RetiredSessions' <=> t \in RetiredSessions \/ t = s
    <3>1. CASE t = s
      BY <1>5, <3>1 DEF RetiredSessions
    <3>2. CASE t # s
      BY <1>5, <3>2 DEF RetiredSessions
    <3>. QED
      BY <3>1, <3>2
  <2>. QED
    BY <2>1
<1>7. UNCHANGED <<receipt, requests, confirmed>>
  BY DEF Retire, Reply, agentVars
<1>8. UNCHANGED <<Granted, Held, Asked, Confirmed>>
  BY <1>5, <1>7 DEF Granted, Held, Asked, Confirmed
<1>. QED
  BY <1>2, <1>3, <1>6, <1>8

\* What the cell forgets was not retired, and is still granted.
LEMMA CellRestartUnseen == ASSUME IInv, CellRestarts PROVE UNCHANGED Seen
<1>1. /\ sessions' = [s \in 1..Len(sessions) |->
                        [sessions[s] EXCEPT !.state = IF @ = "open" THEN "gone" ELSE @]]
      /\ UNCHANGED <<receipt, requests, confirmed>>
  BY DEF CellRestarts, agentVars
<1>2. Len(sessions) \in Nat /\ \A s \in 1..Len(sessions) : sessions[s] \in Session
  BY SessionFacts DEF IInv
<1>3. Len(sessions') = Len(sessions)
  BY <1>1, <1>2
<1>4. RetiredSessions' = RetiredSessions
  <2>1. ASSUME NEW s \in 1..Len(sessions)
        PROVE  sessions'[s].state \in Retired <=> sessions[s].state \in Retired
    <3>1. /\ sessions[s] \in Session
          /\ sessions'[s] = [sessions[s] EXCEPT !.state = IF @ = "open" THEN "gone" ELSE @]
      BY <1>1, <1>2
    <3>2. CASE sessions[s].state = "open"
      BY <3>1, <3>2 DEF Session, Retired
    <3>3. CASE sessions[s].state # "open"
      BY <3>1, <3>3 DEF Session, Retired
    <3>. QED
      BY <3>2, <3>3
  <2>. QED
    BY <1>3, <2>1 DEF RetiredSessions, Retired
<1>. QED
  BY <1>1, <1>3, <1>4 DEF Seen, Granted, Held, Asked, Confirmed

\* Every step of the exchange is a step of the lease, or one it does not see.
LEMMA StepLeases ==
    ASSUME IInv, [Next]_vars PROVE [Lease!Next]_(Lease!vars)
<1>. USE DEF Lease!Next, Lease!vars
<1>1. CASE UNCHANGED Seen
  BY <1>1 DEF Seen, Granted, Held, Asked, RetiredSessions, Confirmed
<1>2. CASE Knock \/ Reknock
  <2>1. UNCHANGED <<sessions, receipt, confirmed>>
    BY <1>2 DEF Knock, Reknock, Send, cellVars
  <2>2. \A r \in requests' \cup requests :
           r.type = "EXT" => r \in requests /\ r \in requests'
    <3>1. CASE Knock
      <4>1. PICK a : Send([type |-> "KNK", counter |-> counter + 1, attempt |-> a])
        BY <3>1 DEF Knock
      <4>. DEFINE m == [type |-> "KNK", counter |-> counter + 1, attempt |-> a]
      <4>2. m.type # "EXT" /\ requests' = requests \cup {m}
        BY <4>1 DEF Send
      <4>. QED
        BY <4>2
    <3>2. CASE Reknock
      <4>1. PICK c : Send([type |-> "RKN", counter |-> counter + 1, attempt |-> attempt,
                           cookie |-> c])
        BY <3>2 DEF Reknock
      <4>. DEFINE m == [type |-> "RKN", counter |-> counter + 1, attempt |-> attempt,
                        cookie |-> c]
      <4>2. m.type # "EXT" /\ requests' = requests \cup {m}
        BY <4>1 DEF Send
      <4>. QED
        BY <4>2
    <3>. QED
      BY <1>2, <3>1, <3>2
  <2>3. UNCHANGED Seen
    BY <2>1, <2>2, Unseen
  <2>. QED
    BY <1>1, <2>3
<1>3. CASE KnockDenied \/ ExitDenied \/ Challenge \/ Deny
  <2>1. UNCHANGED <<sessions, receipt, confirmed, requests>>
    BY <1>3 DEF KnockDenied, ExitDenied, Challenge, Deny, Reply, agentVars, cellVars
  <2>2. UNCHANGED Seen
    BY <2>1, Unseen
  <2>. QED
    BY <1>1, <2>2
<1>4. CASE Open
  BY <1>4, OpenHolds DEF Lease!Hold, Granted, Held, Asked, RetiredSessions, Confirmed
<1>5. CASE Exit
  BY <1>5, ExitAsks DEF Lease!Ask, Granted, Held, Asked, RetiredSessions, Confirmed
<1>6. CASE Closed
  BY <1>6, ClosedConfirms DEF Lease!Confirm, Granted, Held, Asked, RetiredSessions, Confirmed
<1>7. CASE AgentRestarts
  BY <1>7, RestartLetsGo DEF Lease!LetGo, Granted, Held, Asked, RetiredSessions, Confirmed
<1>8. CASE Grant
  BY <1>8, GrantGrants DEF Lease!Grant, Granted, Held, Asked, RetiredSessions, Confirmed
<1>9. CASE Retire
  BY <1>9, RetireRetires DEF Lease!Retire, Granted, Held, Asked, RetiredSessions, Confirmed
<1>10. CASE CellRestarts
  BY <1>1, <1>10, CellRestartUnseen
<1>11. CASE UNCHANGED vars
  <2>1. UNCHANGED <<sessions, receipt, confirmed, requests>>
    BY <1>11 DEF vars, agentVars, cellVars
  <2>2. UNCHANGED Seen
    BY <2>1, Unseen
  <2>. QED
    BY <1>1, <2>2
<1>. QED
  BY <1>2, <1>3, <1>4, <1>5, <1>6, <1>7, <1>8, <1>9, <1>10, <1>11 DEF Next, Agent, Cell

(***************************************************************************)
(* The exchange implements ExactSession: whatever is lost, late, repeated  *)
(* or forgotten, only a session its holder asked to retire is retired, and *)
(* only a retired one is confirmed.                                        *)
(***************************************************************************)
THEOREM LeaseImplemented == Spec => RefinesLease
<1>1. Init => Lease!Init
  BY DEF Init, Lease!Init
<1>2. IInv /\ [Next]_vars => [Lease!Next]_(Lease!vars)
  BY StepLeases
<1>. QED
  BY <1>1, <1>2, Invariance, PTL DEF Spec, RefinesLease, Lease!Spec
=============================================================================
