--------------------------- MODULE EncodingProofs ---------------------------
(***************************************************************************)
(* The transport of a fragment, for every contract and every list of       *)
(* parts: the types, that no count makes the decoder read a part that is   *)
(* not there, and that encoder and decoder are inverse to each other.      *)
(***************************************************************************)
EXTENDS TransportCodec, TLAPS, NaturalsInduction, WellFoundedInduction, SequenceTheorems

----------------------------------------------------------------------------
\* The parser of one count.

(***************************************************************************)
(* The overflow test of parseConformanceTransportCount is exact: a digit   *)
(* it lets through keeps the value within the maximum.                     *)
(***************************************************************************)
LEMMA DigitWithinMax ==
    ASSUME NEW max \in Nat, NEW v \in Nat, NEW d \in 0..9,
           ~(v > max \div 10 \/ (v = max \div 10 /\ d > max % 10))
    PROVE  v * 10 + d <= max
<1> DEFINE q == max \div 10
           r == max % 10
<1>1. q \in Nat /\ r \in 0..9 /\ max = 10 * q + r
  OBVIOUS
<1> HIDE DEF q, r
<1>2. v < q \/ (v = q /\ d <= r)
  BY <1>1 DEF q, r
<1> QED  BY <1>1, <1>2

----------------------------------------------------------------------------
\* The inductive invariant.

Reading == {"count", "shape", "chunk", "accept"}
Counted == {"shape", "chunk", "accept"}

\* The parts of the fields before the current one, and of it.
Before == IF field = 1 THEN 0
          ELSE IF field = 2 THEN counts[1] ELSE counts[1] + counts[2]

CountInv == pc = "count" =>
                /\ digit <= Len(Token)
                /\ value <= MaxChunks[field]
                /\ digit > 0 => value > 0
                /\ \A i \in FieldIndex : i < field => counts[i] > 0

ShapeInv == pc \in Counted => \A i \in FieldIndex : counts[i] > 0

CursorInv == pc = "chunk" => /\ Len(body) = 4 + Declared
                             /\ taken <= counts[field]
                             /\ part = 4 + Before + taken

\* A decoder that has not read its counts stands at the first field.
StartInv == /\ pc \in {"header", "shape"} => field = 1 /\ taken = 0
            /\ pc \in {"header", "count"} => taken = 0
            /\ pc = "header" => digit = 0 /\ value = 0

IInv == /\ TypeOK
        /\ pc \in Reading => Len(body) >= 4
        /\ CountInv
        /\ ShapeInv
        /\ CursorInv
        /\ StartInv

----------------------------------------------------------------------------
\* A decoder that has read nothing.
LEMMA InitIInv == Init => IInv
<1> SUFFICES ASSUME Init PROVE IInv
  OBVIOUS
<1>1. PICK input \in Inputs : body = input.body /\ origin = input.origin
  BY DEF Init
<1>2. body \in Seq(Seq(Byte)) /\ origin \in Fragment \cup {NoFragment}
  BY <1>1, InputsAssumption
<1>3. fields \in Fragment
  BY DEF Init, Fragment, Byte
<1>4. TypeOK
  BY <1>2, <1>3, ContractAssumption DEF Init, TypeOK, FieldIndex
<1> QED  BY <1>4 DEF Init, IInv, Reading, Counted, CountInv, ShapeInv, CursorInv, StartInv

\* What the guards of a step need of the state, stated once.
LEMMA Facts ==
    ASSUME TypeOK
    PROVE  /\ body \in Seq(Seq(Nat)) /\ Len(body) \in Nat
           /\ field \in 1..3
           /\ MaxChunks \in [1..3 -> Nat \ {0}]
           /\ MaxEncodedLength \in [1..3 -> Nat \ {0}]
           /\ \A i \in 1..3 : counts[i] \in Nat
           /\ DOMAIN counts = 1..3
BY ContractAssumption DEF TypeOK, FieldIndex, Byte

\* A part is a list of bytes.
LEMMA PartFacts ==
    ASSUME TypeOK, NEW k \in 1..Len(body)
    PROVE  body[k] \in Seq(Nat) /\ Len(body[k]) \in Nat
<1>1. body[k] \in Seq(Nat)
  BY Facts
<1> QED  BY <1>1

\* The counters of the decoder, one by one.
LEMMA Numbers ==
    ASSUME TypeOK
    PROVE  /\ counts[1] \in Nat /\ counts[2] \in Nat /\ counts[3] \in Nat
           /\ taken \in Nat /\ part \in Nat
           /\ field = 1 \/ field = 2 \/ field = 3
BY Facts DEF TypeOK

\* A decoder that turned its input down holds what it held.
LEMMA RejectKeeps == IInv /\ Reject => IInv'
BY DEF IInv, Reject, TypeOK, Reading, Counted, CountInv, ShapeInv, CursorInv, StartInv, Byte, Fragment

\* The header test makes the first token readable.
LEMMA CheckHeaderKeeps == IInv /\ CheckHeader => IInv'
<1> SUFFICES ASSUME IInv, CheckHeader PROVE IInv'
  OBVIOUS
<1>1. CASE Reject
  BY <1>1, RejectKeeps
<1>2. CASE ~Reject
  <2>1. /\ Len(body) >= 4 /\ pc' = "count" /\ pc = "header"
        /\ UNCHANGED <<body, origin, field, digit, value, counts, part, taken, fieldLen, fields>>
    <3>1. Len(body) \in Nat
      BY Facts DEF IInv
    <3> QED  BY <1>2, <3>1 DEF CheckHeader
  <2>2. TypeOK'
    BY <2>1 DEF IInv, TypeOK
  <2>3. field = 1 /\ digit = 0 /\ value = 0 /\ taken = 0
    BY <2>1 DEF IInv, StartInv
  <2>4. Len(body[2]) \in Nat
    <3>1. 2 \in 1..Len(body)
      BY <2>1, Facts DEF IInv
    <3> QED  BY <3>1, PartFacts DEF IInv
  <2>5. CountInv'
    BY <2>1, <2>3, <2>4, Facts DEF IInv, CountInv, Token, FieldIndex
  <2> QED  BY <2>1, <2>2, <2>3, <2>5 DEF IInv, Reading, Counted, ShapeInv, CursorInv, StartInv
<1> QED  BY <1>1, <1>2

\* A digit keeps the value positive and within the maximum.
LEMMA ReadDigitKeeps == IInv /\ ReadDigit => IInv'
<1> SUFFICES ASSUME IInv, ReadDigit PROVE IInv'
  OBVIOUS
<1> DEFINE d == Token[digit + 1]
<1>1. CASE Reject
  BY <1>1, RejectKeeps
<1>2. CASE ~Reject
  <2>1. /\ pc = "count" /\ ~CountMalformed /\ digit < Len(Token)
        /\ ~(d > 9 \/ Exceeds(d))
        /\ value' = value * 10 + d
        /\ digit' = digit + 1
        /\ UNCHANGED <<body, origin, pc, field, counts, part, taken, fieldLen, fields>>
    BY <1>2 DEF ReadDigit
  <2>2. /\ Token \in Seq(Nat) /\ Token' = Token /\ digit \in Nat /\ value \in Nat
        /\ Len(body) >= 4
    <3>1. Len(body) >= 4 /\ digit \in Nat /\ value \in Nat
      BY <2>1 DEF IInv, Reading, TypeOK
    <3>2. field + 1 \in 1..Len(body)
      BY <3>1, Facts, SMTT(30) DEF IInv
    <3> QED  BY <2>1, <3>1, <3>2, PartFacts DEF IInv, Token
  <2>3. d \in 0..9
    <3>1. d \in Nat
      BY <2>1, <2>2
    <3> QED  BY <3>1, <2>1
  <2>4. value * 10 + d \in Nat /\ value * 10 + d <= MaxChunks[field]
    <3>1. ~(value > MaxChunks[field] \div 10
            \/ (value = MaxChunks[field] \div 10 /\ d > MaxChunks[field] % 10))
      BY <2>1 DEF Exceeds
    <3>2. MaxChunks[field] \in Nat
      BY Facts DEF IInv
    <3> HIDE DEF d
    <3> QED  BY <2>2, <2>3, <3>1, <3>2, DigitWithinMax
  <2>5. value * 10 + d > 0
    <3>1. CASE digit = 0
      <4>1. Token[1] # 0 /\ d = Token[1]
        BY <2>1, <2>2, <3>1 DEF CountMalformed
      <4> HIDE DEF d
      <4> QED  BY <4>1, <2>2, <2>3
    <3>2. CASE digit > 0
      <4>1. value > 0
        BY <3>2, <2>1 DEF IInv, CountInv
      <4> HIDE DEF d
      <4> QED  BY <4>1, <2>2, <2>3
    <3> QED  BY <3>1, <3>2, <2>2
  <2> HIDE DEF d
  <2>6. TypeOK'
    BY <2>1, <2>2, <2>4 DEF IInv, TypeOK
  <2>7. CountInv'
    BY <2>1, <2>2, <2>4, <2>5 DEF IInv, CountInv
  <2> QED  BY <2>1, <2>6, <2>7 DEF IInv, Reading, Counted, ShapeInv, CursorInv, StartInv
<1> QED  BY <1>1, <1>2

\* A count that is complete is within its maximum, and not zero.
LEMMA EndCountKeeps == IInv /\ EndCount => IInv'
<1> SUFFICES ASSUME IInv, EndCount PROVE IInv'
  OBVIOUS
<1>1. /\ pc = "count" /\ ~CountMalformed /\ digit = Len(Token)
      /\ counts' = [counts EXCEPT ![field] = value]
      /\ value' = 0 /\ digit' = 0
      /\ UNCHANGED <<body, origin, part, taken, fieldLen, fields>>
  BY DEF EndCount
<1>2. Token \in Seq(Nat) /\ Len(body) >= 4 /\ Len(body) \in Nat
  <2>1. Len(body) >= 4 /\ Len(body) \in Nat
    BY <1>1, Facts DEF IInv, Reading
  <2>2. field + 1 \in 1..Len(body)
    BY <2>1, Facts, SMTT(30) DEF IInv
  <2> QED  BY <2>1, <2>2, PartFacts DEF IInv, Token
<1>3. digit > 0 /\ value > 0 /\ value <= MaxChunks[field] /\ value \in Nat
  BY <1>1, <1>2 DEF IInv, CountInv, CountMalformed, TypeOK
<1>4. /\ counts' \in [FieldIndex -> Nat]
      /\ counts'[field] = value
      /\ \A i \in FieldIndex : i # field => counts'[i] = counts[i]
  BY <1>1, <1>3 DEF IInv, TypeOK
<1>5. CASE field < 3 /\ field' = field + 1 /\ pc' = pc
  <2>1. TypeOK'
    BY <1>1, <1>3, <1>4, <1>5, Facts DEF IInv, TypeOK, FieldIndex
  <2>2. Len(body[field' + 1]) \in Nat /\ MaxChunks[field'] \in Nat
    <3>1. field' + 1 \in 1..Len(body) /\ field' \in 1..3
      <4>1. field = 1 \/ field = 2 \/ field = 3
        BY Facts DEF IInv
      <4> QED  BY ONLY <1>2, <1>5, <4>1
    <3> QED  BY <3>1, PartFacts, Facts DEF IInv
  <2>3. \A i \in FieldIndex : i < field' => counts'[i] > 0
    <3> TAKE i \in FieldIndex
    <3>1. i < field + 1 => i = field \/ i < field
      BY Facts DEF IInv, FieldIndex
    <3> QED  BY <3>1, <1>1, <1>3, <1>4, <1>5 DEF IInv, CountInv
  <2>4. CountInv'
    BY <1>1, <1>5, <2>2, <2>3 DEF CountInv, Token
  <2> QED  BY <1>1, <1>2, <1>5, <2>1, <2>4 DEF IInv, Reading, Counted, ShapeInv, CursorInv, StartInv
<1>6. CASE field = 3 /\ field' = 1 /\ pc' = "shape"
  <2>1. TypeOK'
    BY <1>1, <1>3, <1>4, <1>6, Facts DEF IInv, TypeOK, FieldIndex
  <2>2. ShapeInv'
    BY <1>1, <1>3, <1>4, <1>6 DEF IInv, CountInv, ShapeInv, FieldIndex
  <2> QED  BY <1>1, <1>2, <1>6, <2>1, <2>2 DEF IInv, Reading, CountInv, CursorInv, StartInv
<1> QED  BY <1>5, <1>6, Facts DEF EndCount, IInv

\* The parts behind the header are as many as were declared.
LEMMA CheckShapeKeeps == IInv /\ CheckShape => IInv'
<1> SUFFICES ASSUME IInv, CheckShape PROVE IInv'
  OBVIOUS
<1>1. CASE Reject
  BY <1>1, RejectKeeps
<1>2. CASE ~Reject
  <2>1. /\ pc = "shape" /\ ShapeHolds /\ pc' = "chunk" /\ part' = 4
        /\ UNCHANGED <<body, origin, field, digit, value, counts, taken, fieldLen, fields>>
    BY <1>2 DEF CheckShape
  <2>2. field = 1 /\ taken = 0
    BY <2>1 DEF IInv, StartInv
  <2>3. TypeOK'
    BY <2>1 DEF IInv, TypeOK
  <2>4. CursorInv'
    BY <2>1, <2>2, Facts DEF IInv, CursorInv, ShapeHolds, Declared, Before
  <2> QED  BY <2>1, <2>2, <2>3, <2>4 DEF IInv, Reading, Counted, CountInv, ShapeInv, StartInv
<1> QED  BY <1>1, <1>2

\* The cursor is inside the parts while the field has chunks left.
LEMMA CursorInside ==
    ASSUME IInv, pc = "chunk", taken < counts[field]
    PROVE  part + 1 \in 1..Len(body) /\ Current \in Seq(Byte)
<1>1. Len(body) = 4 + Declared /\ part = 4 + Before + taken
  BY DEF IInv, CursorInv
<1>2. /\ counts[1] \in Nat /\ counts[2] \in Nat /\ counts[3] \in Nat /\ taken \in Nat
      /\ field = 1 \/ field = 2 \/ field = 3
  BY Numbers DEF IInv
<1>3. part + 1 \in 1..Len(body)
  <2>1. CASE field = 1  BY <1>1, <1>2, <2>1 DEF Before, Declared
  <2>2. CASE field = 2
    <3>1. /\ part + 1 = 4 + counts[1] + taken + 1 /\ taken < counts[2]
          /\ Len(body) = 4 + (counts[1] + counts[2] + counts[3])
      BY <1>1, <2>2 DEF Before, Declared
    <3> QED  BY ONLY <1>2, <3>1
  <2>3. CASE field = 3
    <3>1. /\ part + 1 = 4 + (counts[1] + counts[2]) + taken + 1 /\ taken < counts[3]
          /\ Len(body) = 4 + (counts[1] + counts[2] + counts[3])
      BY <1>1, <2>3 DEF Before, Declared
    <3> QED  BY ONLY <1>2, <3>1
  <2> QED  BY <1>2, <2>1, <2>2, <2>3
<1> QED  BY <1>3, PartFacts DEF IInv, Current, Byte

\* A chunk moves the cursor by one.
LEMMA ReadChunkKeeps == IInv /\ ReadChunk => IInv'
<1> SUFFICES ASSUME IInv, ReadChunk PROVE IInv'
  OBVIOUS
<1>1. CASE Reject
  BY <1>1, RejectKeeps
<1>2. CASE ~Reject
  <2>1. /\ pc = "chunk" /\ taken < counts[field]
        /\ fields' = [fields EXCEPT ![field] = @ \o Current]
        /\ fieldLen' = fieldLen + Len(Current)
        /\ part' = part + 1 /\ taken' = taken + 1
        /\ UNCHANGED <<body, origin, pc, field, digit, value, counts>>
    BY <1>2 DEF ReadChunk
  <2>2. Current \in Seq(Byte)
    BY <2>1, CursorInside
  <2>3. fields' \in Fragment
    BY <2>1, <2>2 DEF IInv, TypeOK, Fragment
  <2>4. TypeOK'
    BY <2>1, <2>2, <2>3 DEF IInv, TypeOK
  <2>5. CursorInv'
    <3>1. /\ Before' = Before /\ Declared' = Declared /\ body' = body
          /\ counts' = counts /\ field' = field
      BY <2>1 DEF Before, Declared
    <3>2. Len(body) = 4 + Declared /\ part = 4 + Before + taken
      BY <2>1 DEF IInv, CursorInv
    <3>3. Before \in Nat /\ counts[field] \in Nat /\ taken \in Nat
      BY Numbers DEF IInv, Before
    <3> QED  BY <2>1, <3>1, <3>2, <3>3 DEF CursorInv
  <2> QED  BY <2>1, <2>4, <2>5 DEF IInv, Reading, Counted, CountInv, ShapeInv, StartInv
<1> QED  BY <1>1, <1>2

\* The cursor stands behind the chunks of the fields that are done.
LEMMA EndFieldKeeps == IInv /\ EndField => IInv'
<1> SUFFICES ASSUME IInv, EndField PROVE IInv'
  OBVIOUS
<1>1. CASE Reject
  BY <1>1, RejectKeeps
<1>2. CASE ~Reject
  <2>1. /\ pc = "chunk" /\ taken = counts[field]
        /\ taken' = 0 /\ fieldLen' = 0
        /\ UNCHANGED <<body, origin, digit, value, counts, part, fields>>
    BY <1>2 DEF EndField
  <2>2. \/ field < 3 /\ field' = field + 1 /\ pc' = pc
        \/ ~(field < 3) /\ pc' = "accept" /\ field' = field
    BY <1>2 DEF EndField
  <2>3. TypeOK'
    BY <2>1, <2>2, Facts DEF IInv, TypeOK, FieldIndex
  <2>4. CursorInv'
    <3> SUFFICES ASSUME pc' = "chunk" PROVE CursorInv'
      BY DEF CursorInv
    <3>1. field' = field + 1 /\ field < 3
      BY <2>2
    <3>2. Len(body) = 4 + Declared /\ part = 4 + Before + counts[field]
      BY <2>1 DEF IInv, CursorInv
    <3>3. Before' = Before + counts[field] /\ Declared' = Declared
      <4>1. CASE field = 1  BY <4>1, <2>1, <3>1, Numbers DEF IInv, Before, Declared
      <4>2. CASE field = 2  BY <4>2, <2>1, <3>1, Numbers DEF IInv, Before, Declared
      <4> QED  BY <4>1, <4>2, <3>1, Numbers DEF IInv
    <3>4. Before \in Nat /\ counts[field] \in Nat /\ counts'[field'] \in Nat
      BY <2>1, <3>1, Numbers, Facts DEF IInv, Before
    <3> QED  BY <2>1, <3>2, <3>3, <3>4 DEF CursorInv
  <2> QED  BY <2>1, <2>2, <2>3, <2>4 DEF IInv, Reading, Counted, CountInv, ShapeInv, StartInv
<1> QED  BY <1>1, <1>2

\* Every step keeps the invariant.
LEMMA NextKeeps == IInv /\ [Next]_vars => IInv'
<1> SUFFICES ASSUME IInv, [Next]_vars PROVE IInv'
  OBVIOUS
<1>1. CASE CheckHeader  BY <1>1, CheckHeaderKeeps
<1>2. CASE ReadDigit    BY <1>2, ReadDigitKeeps
<1>3. CASE RejectCount  BY <1>3, RejectKeeps DEF RejectCount
<1>4. CASE EndCount     BY <1>4, EndCountKeeps
<1>5. CASE CheckShape   BY <1>5, CheckShapeKeeps
<1>6. CASE ReadChunk    BY <1>6, ReadChunkKeeps
<1>7. CASE EndField     BY <1>7, EndFieldKeeps
<1>8. CASE UNCHANGED vars
  BY <1>8 DEF vars, IInv, TypeOK, Reading, Counted, CountInv, ShapeInv, CursorInv, StartInv,
              Token, Declared, Before
<1> QED  BY <1>1, <1>2, <1>3, <1>4, <1>5, <1>6, <1>7, <1>8 DEF Next

(***************************************************************************)
(* The inductive invariant holds of every run of the decoder.              *)
(***************************************************************************)
THEOREM Invariance == Spec => []IInv
<1> QED  BY InitIInv, NextKeeps, PTL DEF Spec

(***************************************************************************)
(* Type correctness, with every parsed count within its maximum.           *)
(***************************************************************************)
THEOREM TypeCorrect == Spec => []TypeOK
<1>1. IInv => TypeOK
  BY DEF IInv
<1> QED  BY <1>1, Invariance, PTL

(***************************************************************************)
(* Whatever the counts of the header and however many digits they have,    *)
(* decodeConformanceTransport slices inside the list of parts.             *)
(***************************************************************************)
THEOREM SlicesInside == Spec => []NoSliceOutOfRange
<1>1. IInv => NoSliceOutOfRange
  <2> SUFFICES ASSUME IInv PROVE NoSliceOutOfRange
    OBVIOUS
  <2>1. pc = "count" => field + 1 <= Len(body)
    BY Facts DEF IInv, Reading
  <2>2. pc = "chunk" => part + (counts[field] - taken) <= Len(body)
    <3> SUFFICES ASSUME pc = "chunk" PROVE part + (counts[field] - taken) <= Len(body)
      OBVIOUS
    <3>1. Len(body) = 4 + Declared /\ part = 4 + Before + taken
      BY DEF IInv, CursorInv
    <3>2. Before + counts[field] <= Declared
      <4>1. CASE field = 1  BY <4>1, Numbers DEF IInv, Before, Declared
      <4>2. CASE field = 2  BY <4>2, Numbers DEF IInv, Before, Declared
      <4>3. CASE field = 3  BY <4>3, Numbers DEF IInv, Before, Declared
      <4> QED  BY <4>1, <4>2, <4>3, Numbers DEF IInv
    <3>3. Before \in Nat /\ counts[field] \in Nat /\ taken \in Nat /\ Declared \in Nat
      <4>1. /\ counts[1] \in Nat /\ counts[2] \in Nat /\ counts[3] \in Nat /\ taken \in Nat
            /\ field = 1 \/ field = 2 \/ field = 3
        BY Numbers DEF IInv
      <4>2. Before \in Nat /\ Declared \in Nat
        BY ONLY <4>1 DEF Before, Declared
      <4> QED  BY <4>1, <4>2
    <3> QED  BY <3>1, <3>2, <3>3
  <2>3. pc \in {"chunk", "accept"} => \A i \in FieldIndex : counts[i] \in 1..MaxChunks[i]
    BY Facts DEF IInv, TypeOK, ShapeInv, Counted, FieldIndex
  <2> QED  BY <2>1, <2>2, <2>3 DEF NoSliceOutOfRange
<1> QED  BY <1>1, Invariance, PTL

----------------------------------------------------------------------------
(***************************************************************************)
(* Chunks: what cutting and putting together does.                         *)
(***************************************************************************)
C == ComponentMax

\* Multiples of the length of a chunk are ordered like their factors.
LEMMA Product ==
    ASSUME NEW a \in Nat, NEW b \in Nat, a <= b
    PROVE  a * C \in Nat /\ b * C \in Nat /\ a * C <= b * C
<1>0. C \in Nat
  BY ContractAssumption DEF C
<1>1. PICK d \in Nat : b = a + d
  <2>1. b - a \in Nat /\ b = a + (b - a)
    OBVIOUS
  <2> QED  BY <2>1
<1>2. a * C \in Nat /\ d * C \in Nat /\ b * C = a * C + d * C
  BY <1>0, <1>1
<1> QED  BY <1>2

\* One chunk more, and one less.
LEMMA NextProduct ==
    ASSUME NEW k \in Nat
    PROVE  /\ k * C \in Nat /\ C \in Nat /\ C > 0 /\ (k + 1) * C = k * C + C
           /\ k > 0 => (k - 1) * C = k * C - C /\ (k - 1) * C \in Nat
<1>0. C \in Nat /\ C > 0
  BY ContractAssumption DEF C
<1>1. k * C \in Nat /\ (k + 1) * C = k * C + C
  BY <1>0
<1>2. ASSUME k > 0
      PROVE  (k - 1) * C = k * C - C /\ (k - 1) * C \in Nat
  <2>1. k - 1 \in Nat
    BY <1>2
  <2>2. (k - 1) * C \in Nat /\ (k - 1) * C = k * C - C
    BY <1>0, <2>1
  <2> QED  BY <2>2
<1> QED  BY <1>0, <1>1, <1>2

\* The number of chunks is the one whose last chunk holds the end of the field.
LEMMA CountIs ==
    ASSUME NEW v \in Seq(Byte), NEW n \in Nat, n > 0, (n - 1) * C < Len(v), Len(v) <= n * C
    PROVE  ChunkCount(v) = n
<1> DEFINE m == Len(v) + C - 1
           q == m \div C
<1>1. /\ C \in Nat /\ C > 0 /\ Len(v) \in Nat /\ n * C \in Nat
      /\ (n + 1) * C = n * C + C /\ (n - 1) * C = n * C - C
  BY NextProduct
<1>2. m \in Nat /\ n * C <= m /\ m < n * C + C
  BY <1>1
<1> HIDE DEF m
<1>3. q \in Nat /\ q * C <= m /\ m < q * C + C
  BY <1>1, <1>2
<1> HIDE DEF q
<1>4. ~(q < n)
  <2> SUFFICES ASSUME q < n PROVE FALSE
    OBVIOUS
  <2>1. (q + 1) * C <= n * C /\ (q + 1) * C = q * C + C
    BY <1>3, Product, NextProduct
  <2> QED  BY <1>1, <1>2, <1>3, <2>1
<1>5. ~(n < q)
  <2> SUFFICES ASSUME n < q PROVE FALSE
    OBVIOUS
  <2>1. (n + 1) * C <= q * C /\ q * C \in Nat
    BY <1>3, Product, NextProduct
  <2> QED  BY <1>1, <1>2, <1>3, <2>1
<1>6. q = n
  BY <1>3, <1>4, <1>5
<1> QED  BY <1>6 DEF q, m, ChunkCount, C

\* A field that is not empty has a last chunk, and is used up by it.
LEMMA CountBounds ==
    ASSUME NEW v \in Seq(Byte), v # <<>>
    PROVE  LET n == ChunkCount(v)
           IN  n \in Nat /\ n > 0 /\ (n - 1) * C < Len(v) /\ Len(v) <= n * C
<1> DEFINE m == Len(v) + C - 1
           n == m \div C
<1>1. Len(v) \in Nat /\ Len(v) > 0 /\ C \in Nat /\ C > 0
  BY NextProduct, EmptySeq
<1>2. m \in Nat /\ m >= C
  BY <1>1
<1> HIDE DEF m
<1>3. n \in Nat /\ n * C <= m /\ m < n * C + C
  BY <1>1, <1>2
<1> HIDE DEF n
<1>4. n # 0
  BY <1>1, <1>2, <1>3
<1>5. (n - 1) * C = n * C - C /\ n * C \in Nat
  BY <1>3, <1>4, NextProduct
<1>6. (n - 1) * C < Len(v) /\ Len(v) <= n * C
  BY <1>1, <1>3, <1>5 DEF m
<1> QED  BY <1>3, <1>4, <1>6 DEF n, m, ChunkCount, C

\* A chunk, byte by byte.
LEMMA ChunkIs ==
    ASSUME NEW v \in Seq(Byte), NEW k \in Nat, k > 0, (k - 1) * C <= Len(v)
    PROVE  LET from == (k - 1) * C
               to == IF k * C < Len(v) THEN k * C ELSE Len(v)
           IN  /\ Chunk(v, k) \in Seq(Byte) /\ Len(Chunk(v, k)) = to - from
               /\ \A i \in 1..(to - from) : Chunk(v, k)[i] = v[from + i]
<1> DEFINE from == (k - 1) * C
           to == IF k * C < Len(v) THEN k * C ELSE Len(v)
<1>1. /\ C \in Nat /\ C > 0 /\ Len(v) \in Nat /\ k * C \in Nat /\ from \in Nat
      /\ from = k * C - C
  BY NextProduct
<1>2. to \in Nat /\ from <= to /\ to <= Len(v)
  BY <1>1
<1>3. Chunk(v, k) = SubSeq(v, from + 1, to)
  BY DEF Chunk, C
<1> HIDE DEF from, to
<1>4. from + 1 \in 1..(Len(v) + 1) /\ to \in (from + 1) - 1..Len(v)
  BY <1>1, <1>2
<1>5. /\ SubSeq(v, from + 1, to) \in Seq(Byte)
      /\ Len(SubSeq(v, from + 1, to)) = to - from
      /\ \A i \in 1..(to - from) : SubSeq(v, from + 1, to)[i] = v[from + i]
  BY <1>1, <1>2
<1> QED  BY <1>3, <1>5 DEF from, to

\* Two lists of bytes put together, byte by byte.
LEMMA Joined ==
    ASSUME NEW v \in Seq(Byte), NEW w \in Seq(Byte)
    PROVE  /\ v \o w \in Seq(Byte) /\ Len(v \o w) = Len(v) + Len(w)
           /\ Len(v) \in Nat /\ Len(w) \in Nat
           /\ \A i \in 1..Len(v) : (v \o w)[i] = v[i]
           /\ \A i \in 1..Len(w) : (v \o w)[Len(v) + i] = w[i]
<1>1. Len(v) \in Nat /\ Len(w) \in Nat
  OBVIOUS
<1> QED  BY <1>1, ConcatProperties

\* A chunk before the end of the field is whole.
LEMMA WholeChunk ==
    ASSUME NEW v \in Seq(Byte), NEW k \in Nat, k > 0, k * C <= Len(v)
    PROVE  /\ Chunk(v, k) \in Seq(Byte) /\ Len(Chunk(v, k)) = C
           /\ \A i \in 1..C : Chunk(v, k)[i] = v[(k - 1) * C + i]
<1> DEFINE from == (k - 1) * C
           end == k * C
<1>1. /\ end \in Nat /\ from = end - C /\ C \in Nat /\ from \in Nat /\ Len(v) \in Nat
      /\ end <= Len(v)
  BY NextProduct
<1>2. from <= Len(v)
  BY <1>1
<1>3. LET to == IF end < Len(v) THEN end ELSE Len(v)
      IN  /\ Chunk(v, k) \in Seq(Byte) /\ Len(Chunk(v, k)) = to - from
          /\ \A i \in 1..(to - from) : Chunk(v, k)[i] = v[from + i]
  BY <1>2, ChunkIs
<1> HIDE DEF from, end
<1>4. (IF end < Len(v) THEN end ELSE Len(v)) - from = C
  BY <1>1
<1>5. /\ Chunk(v, k) \in Seq(Byte) /\ Len(Chunk(v, k)) = C
      /\ \A i \in 1..C : Chunk(v, k)[i] = v[from + i]
  BY <1>3, <1>4
<1> QED  BY <1>5 DEF from

\* The chunk at the end has what is left.
LEMMA LastChunk ==
    ASSUME NEW v \in Seq(Byte), NEW k \in Nat, k > 0, (k - 1) * C <= Len(v), Len(v) <= k * C
    PROVE  /\ Chunk(v, k) \in Seq(Byte) /\ Len(Chunk(v, k)) = Len(v) - (k - 1) * C
           /\ \A i \in 1..Len(Chunk(v, k)) : Chunk(v, k)[i] = v[(k - 1) * C + i]
<1> DEFINE from == (k - 1) * C
           end == k * C
<1>1. /\ end \in Nat /\ from \in Nat /\ Len(v) \in Nat /\ Len(v) <= end
  BY NextProduct
<1>2. LET to == IF end < Len(v) THEN end ELSE Len(v)
      IN  /\ Chunk(v, k) \in Seq(Byte) /\ Len(Chunk(v, k)) = to - from
          /\ \A i \in 1..(to - from) : Chunk(v, k)[i] = v[from + i]
  BY ChunkIs
<1> HIDE DEF from, end
<1>3. /\ Chunk(v, k) \in Seq(Byte) /\ Len(Chunk(v, k)) = Len(v) - from
      /\ \A i \in 1..(Len(v) - from) : Chunk(v, k)[i] = v[from + i]
  BY <1>1, <1>2
<1> QED  BY <1>3 DEF from

\* The chunks before the end of a field are those of any continuation of it.
LEMMA ChunkKept ==
    ASSUME NEW v \in Seq(Byte), NEW w \in Seq(Byte), NEW k \in Nat, k > 0, k * C <= Len(v)
    PROVE  Chunk(v \o w, k) = Chunk(v, k)
<1> DEFINE from == (k - 1) * C
           end == k * C
           x == v \o w
<1>1. /\ end \in Nat /\ from = end - C /\ C \in Nat /\ from \in Nat /\ end <= Len(v)
  BY NextProduct
<1>2. /\ x \in Seq(Byte) /\ Len(x) = Len(v) + Len(w) /\ Len(v) \in Nat /\ Len(w) \in Nat
      /\ \A i \in 1..Len(v) : x[i] = v[i]
  BY Joined
<1> HIDE DEF x
<1>3. end <= Len(x)
  BY <1>1, <1>2
<1>4. /\ Chunk(v, k) \in Seq(Byte) /\ Len(Chunk(v, k)) = C
      /\ \A i \in 1..C : Chunk(v, k)[i] = v[from + i]
  BY <1>1, WholeChunk
<1>5. /\ Chunk(x, k) \in Seq(Byte) /\ Len(Chunk(x, k)) = C
      /\ \A i \in 1..C : Chunk(x, k)[i] = x[from + i]
  BY <1>2, <1>3, WholeChunk
<1> HIDE DEF from, end
<1>6. \A i \in 1..C : x[from + i] = v[from + i]
  BY <1>1, <1>2
<1>7. Chunk(x, k) = Chunk(v, k)
  BY <1>4, <1>5, <1>6, SeqEqual
<1> QED  BY <1>7 DEF x

\* What is put behind whole chunks is the next chunk.
LEMMA ChunkAdded ==
    ASSUME NEW v \in Seq(Byte), NEW w \in Seq(Byte), NEW n \in Nat,
           Len(v) = n * C, Len(w) <= C
    PROVE  Chunk(v \o w, n + 1) = w
<1> DEFINE k == n + 1
           x == v \o w
<1>1. n * C \in Nat /\ k * C = n * C + C /\ C \in Nat /\ k \in Nat /\ k > 0 /\ k - 1 = n
  BY NextProduct
<1>2. /\ x \in Seq(Byte) /\ Len(x) = Len(v) + Len(w) /\ Len(v) \in Nat /\ Len(w) \in Nat
      /\ \A i \in 1..Len(w) : x[Len(v) + i] = w[i]
  BY Joined
<1> HIDE DEF x, k
<1>3. (k - 1) * C <= Len(x) /\ Len(x) <= k * C /\ (k - 1) * C = Len(v)
  BY <1>1, <1>2
<1>4. /\ Chunk(x, k) \in Seq(Byte) /\ Len(Chunk(x, k)) = Len(x) - (k - 1) * C
      /\ \A i \in 1..Len(Chunk(x, k)) : Chunk(x, k)[i] = x[(k - 1) * C + i]
  BY <1>1, <1>2, <1>3, LastChunk
<1>5. Len(Chunk(x, k)) = Len(w) /\ \A i \in 1..Len(w) : Chunk(x, k)[i] = w[i]
  <2> DEFINE from == (k - 1) * C
             y == Chunk(x, k)
  <2>1. /\ from = Len(v) /\ Len(y) = Len(x) - from
        /\ \A i \in 1..Len(y) : y[i] = x[from + i]
    BY <1>3, <1>4
  <2> HIDE DEF from, y
  <2>2. Len(y) = Len(w)
    BY ONLY <1>2, <2>1
  <2>3. \A i \in 1..Len(w) : y[i] = w[i]
    BY ONLY <1>2, <2>1, <2>2
  <2> QED  BY <2>2, <2>3 DEF y
<1>6. Chunk(x, k) = w
  BY <1>4, <1>5, SeqEqual
<1> QED  BY <1>6 DEF x, k

----------------------------------------------------------------------------
(***************************************************************************)
(* What the decoder has made of the parts it read: the counts are spelled  *)
(* as the encoder spells them, and a field in the making consists of the   *)
(* chunks read, the last of which alone may be short.                      *)
(***************************************************************************)
From(i) == IF i = 1 THEN 4 ELSE IF i = 2 THEN 4 + counts[1] ELSE 4 + counts[1] + counts[2]

MadeOf(i, n) ==
    /\ \A k \in 1..n : body[From(i) + k] = Chunk(fields[i], k)
    /\ n < counts[i] => Len(fields[i]) = n * C
    /\ n = counts[i] => (n - 1) * C < Len(fields[i]) /\ Len(fields[i]) <= n * C

Spelled(i) == body[i + 1] = Decimal(counts[i])

Complete(i) == MadeOf(i, counts[i]) /\ Len(fields[i]) <= MaxEncodedLength[i]

Digits ==
    /\ digit = 0 => value = 0
    /\ digit = 1 => value \in 1..9 /\ value = Token[1]
    /\ digit >= 2 => /\ digit = 2 /\ Token[1] \in 1..9 /\ Token[2] \in 0..9
                     /\ value = Token[1] * 10 + Token[2]

HeaderOK == pc \in Reading => ~(BodyLength(body) > MaxTransportLength) /\ body[1] = Prefix

CountsOK == /\ pc = "count" => Digits /\ \A i \in FieldIndex : i < field => Spelled(i)
            /\ pc \in Counted => \A i \in FieldIndex : Spelled(i)

ChunksOK == /\ pc \in {"header", "count", "shape"} =>
                  fieldLen = 0 /\ \A i \in FieldIndex : fields[i] = <<>>
            /\ pc = "chunk" => /\ \A i \in FieldIndex : /\ i < field => Complete(i)
                                                        /\ i > field => fields[i] = <<>>
                               /\ MadeOf(field, taken) /\ fieldLen = Len(fields[field])
            /\ pc = "accept" => Len(body) = 4 + Declared /\ \A i \in FieldIndex : Complete(i)

SpellInv == HeaderOK /\ CountsOK /\ ChunksOK

\* A number of one or two digits is spelled by them.
LEMMA DecimalIs ==
    /\ \A a \in 1..9 : Decimal(a) = <<a>>
    /\ \A a \in 1..9, b \in 0..9 : Decimal(a * 10 + b) = <<a, b>>
<1>1. ASSUME NEW a \in 1..9
      PROVE  Decimal(a) = <<a>>
  BY DEF Decimal
<1>2. ASSUME NEW a \in 1..9, NEW b \in 0..9
      PROVE  Decimal(a * 10 + b) = <<a, b>>
  <2>1. ~(a * 10 + b < 10) /\ (a * 10 + b) \div 10 = a /\ (a * 10 + b) % 10 = b
    OBVIOUS
  <2> QED  BY <2>1 DEF Decimal
<1> QED  BY <1>1, <1>2

\* Nothing is read, so nothing is spelled otherwise.
LEMMA InitSpell == Init => SpellInv
BY DEF Init, SpellInv, HeaderOK, CountsOK, ChunksOK, Reading, Counted

\* A decoder that turned its input down promises nothing.
LEMMA RejectSpells == Reject => SpellInv'
BY DEF Reject, SpellInv, HeaderOK, CountsOK, ChunksOK, Reading, Counted

\* The header test establishes the prefix and the length.
LEMMA HeaderSpells == IInv /\ SpellInv /\ CheckHeader => SpellInv'
<1> SUFFICES ASSUME IInv, SpellInv, CheckHeader, ~Reject PROVE SpellInv'
  BY RejectSpells
<1>1. /\ ~(BodyLength(body) > MaxTransportLength) /\ body[1] = Prefix
      /\ pc' = "count" /\ pc = "header"
      /\ UNCHANGED <<body, origin, field, digit, value, counts, part, taken, fieldLen, fields>>
  BY DEF CheckHeader
<1>2. field = 1 /\ digit = 0 /\ value = 0
  BY <1>1 DEF IInv, StartInv
<1>3. HeaderOK'
  BY <1>1 DEF HeaderOK
<1>4. CountsOK'
  BY <1>1, <1>2 DEF CountsOK, Digits, Counted, FieldIndex
<1>5. ChunksOK'
  BY <1>1 DEF SpellInv, ChunksOK
<1> QED  BY <1>3, <1>4, <1>5 DEF SpellInv

\* The token that is read, with the header around it.
LEMMA TokenFacts ==
    ASSUME IInv, pc = "count"
    PROVE  /\ Token \in Seq(Nat) /\ Len(Token) \in Nat /\ field \in 1..3 /\ field + 1 \in 1..Len(body)
           /\ digit \in Nat /\ value \in Nat /\ digit <= Len(Token)
           /\ MaxChunks[field] \in Nat /\ MaxChunks[field] < 100 /\ value <= MaxChunks[field]
<1>1. /\ field \in 1..3 /\ Len(body) \in Nat /\ Len(body) >= 4
      /\ digit \in Nat /\ value \in Nat /\ MaxChunks[field] \in Nat
  BY Facts DEF IInv, TypeOK, Reading
<1>2. field + 1 \in 1..Len(body)
  BY <1>1
<1>3. Token \in Seq(Nat)
  BY <1>2, PartFacts DEF IInv, Token
<1> QED  BY <1>1, <1>2, <1>3, LimitsAssumption DEF IInv, CountInv, FieldIndex

\* One or two digits are the decimal of the value read.
LEMMA DigitSpells == IInv /\ SpellInv /\ ReadDigit => SpellInv'
<1> SUFFICES ASSUME IInv, SpellInv, ReadDigit, ~Reject PROVE SpellInv'
  BY RejectSpells
<1> DEFINE d == Token[digit + 1]
<1>1. /\ pc = "count" /\ ~CountMalformed /\ digit < Len(Token)
      /\ ~(d > 9 \/ Exceeds(d))
      /\ value' = value * 10 + d
      /\ digit' = digit + 1
      /\ UNCHANGED <<body, origin, pc, field, counts, part, taken, fieldLen, fields>>
  BY DEF ReadDigit
<1>2. Token' = Token /\ Token \in Seq(Nat) /\ digit \in Nat /\ value \in Nat /\ Len(Token) \in Nat
  BY <1>1, TokenFacts DEF Token
<1>3. d \in 0..9
  <2>1. d \in Nat /\ ~(d > 9)
    BY <1>1, <1>2
  <2> HIDE DEF d
  <2> QED  BY <2>1
<1>4. value * 10 + d <= MaxChunks[field] /\ MaxChunks[field] < 100 /\ MaxChunks[field] \in Nat
  <2>1. ~(value > MaxChunks[field] \div 10
          \/ (value = MaxChunks[field] \div 10 /\ d > MaxChunks[field] % 10))
    BY <1>1 DEF Exceeds
  <2> HIDE DEF d
  <2> QED  BY <1>1, <1>2, <1>3, <2>1, TokenFacts, DigitWithinMax
<1>5. Digits
  BY <1>1 DEF SpellInv, CountsOK
<1>6. digit = 0 => value' = Token[1] /\ value' \in 1..9
  <2> SUFFICES ASSUME digit = 0 PROVE value' = Token[1] /\ value' \in 1..9
    OBVIOUS
  <2>1. value = 0 /\ d = Token[1] /\ Token[1] # 0 /\ value' = value * 10 + d
    BY <1>1, <1>5 DEF Digits, CountMalformed
  <2> HIDE DEF d
  <2>3. value' = d
    BY ONLY <1>3, <2>1
  <2> QED  BY <1>3, <2>1, <2>3
<1>7. digit = 1 => /\ Token[1] \in 1..9 /\ Token[2] \in 0..9
                   /\ value' = Token[1] * 10 + Token[2]
  <2> SUFFICES ASSUME digit = 1
               PROVE  /\ Token[1] \in 1..9 /\ Token[2] \in 0..9
                      /\ value' = Token[1] * 10 + Token[2]
    OBVIOUS
  <2>1. digit + 1 = 2
    OBVIOUS
  <2>2. value \in 1..9 /\ value = Token[1] /\ d = Token[2] /\ value' = value * 10 + d
    BY <1>1, <1>5, <2>1 DEF Digits
  <2> HIDE DEF d
  <2> QED  BY ONLY <1>3, <2>2
<1>8. ~(digit >= 2)
  <2> SUFFICES ASSUME digit >= 2 PROVE FALSE
    OBVIOUS
  <2>1. value >= 10
    BY <1>5 DEF Digits
  <2> HIDE DEF d
  <2> QED  BY <1>2, <1>3, <1>4, <2>1
<1>9. Digits'
  BY <1>1, <1>2, <1>6, <1>7, <1>8 DEF Digits
<1>10. HeaderOK' /\ ChunksOK'
  BY <1>1 DEF SpellInv, HeaderOK, ChunksOK
<1>11. CountsOK'
  BY <1>1, <1>9 DEF SpellInv, CountsOK, Spelled, Counted
<1> QED  BY <1>10, <1>11 DEF SpellInv

\* A token that is used up is the decimal of its count.
LEMMA CountSpells == IInv /\ SpellInv /\ EndCount => SpellInv'
<1> SUFFICES ASSUME IInv, SpellInv, EndCount PROVE SpellInv'
  OBVIOUS
<1>1. /\ pc = "count" /\ ~CountMalformed /\ digit = Len(Token)
      /\ counts' = [counts EXCEPT ![field] = value]
      /\ value' = 0 /\ digit' = 0
      /\ UNCHANGED <<body, origin, part, taken, fieldLen, fields>>
      /\ \/ field < 3 /\ field' = field + 1 /\ pc' = pc
         \/ ~(field < 3) /\ field' = 1 /\ pc' = "shape"
  BY DEF EndCount
<1>2. Token \in Seq(Nat) /\ Len(Token) \in Nat /\ digit > 0 /\ Digits /\ field \in 1..3
  BY <1>1, TokenFacts DEF SpellInv, CountsOK, CountMalformed
<1>3. Token = Decimal(value)
  <2>1. CASE digit = 1
    <3>1. Token = <<Token[1]>>
      <4> DEFINE t == Token
      <4>1. t \in Seq(Nat) /\ Len(t) = 1
        BY <1>1, <1>2, <2>1
      <4> HIDE DEF t
      <4>2. t = <<t[1]>>
        BY <4>1
      <4> QED  BY <4>2 DEF t
    <3> QED  BY <1>2, <2>1, <3>1, DecimalIs DEF Digits
  <2>2. CASE digit # 1
    <3>1. /\ Len(Token) = 2 /\ Token[1] \in 1..9 /\ Token[2] \in 0..9
          /\ value = Token[1] * 10 + Token[2]
      <4>1. digit \in Nat /\ digit >= 2
        BY <1>1, <1>2, <2>2
      <4> QED  BY <1>1, <1>2, <4>1 DEF Digits
    <3>2. Token = <<Token[1], Token[2]>>
      <4> DEFINE t == Token
      <4>1. t \in Seq(Nat) /\ Len(t) = 2
        BY <1>2, <3>1
      <4> HIDE DEF t
      <4>2. t = <<t[1], t[2]>>
        BY <4>1
      <4> QED  BY <4>2 DEF t
    <3> QED  BY <3>1, <3>2, DecimalIs
  <2> QED  BY <2>1, <2>2
<1>4. counts'[field] = value /\ \A i \in FieldIndex : i # field => counts'[i] = counts[i]
  BY <1>1, <1>2 DEF IInv, TypeOK, FieldIndex
<1>5. \A i \in FieldIndex : i <= field => Spelled(i)'
  BY <1>1, <1>2, <1>3, <1>4 DEF Spelled, Token, SpellInv, CountsOK, FieldIndex
<1>6. HeaderOK' /\ ChunksOK'
  BY <1>1 DEF SpellInv, HeaderOK, ChunksOK, Reading
<1>7. CountsOK'
  <2>1. CASE field < 3 /\ field' = field + 1 /\ pc' = "count"
    <3>1. \A i \in FieldIndex : i < field' => i <= field
      BY <1>2, <2>1 DEF FieldIndex
    <3>2. \A i \in FieldIndex : i < field' => Spelled(i)'
      BY <3>1, <1>5
    <3>3. Digits'
      BY <1>1 DEF Digits
    <3> QED  BY <2>1, <3>2, <3>3 DEF CountsOK, Counted
  <2>2. CASE ~(field < 3) /\ field' = 1 /\ pc' = "shape"
    <3>1. \A i \in FieldIndex : i <= field
      BY <1>2, <2>2 DEF FieldIndex
    <3>2. \A i \in FieldIndex : Spelled(i)'
      BY <3>1, <1>5
    <3> QED  BY <2>2, <3>2 DEF CountsOK, Counted
  <2> QED  BY <1>1, <2>1, <2>2
<1> QED  BY <1>6, <1>7 DEF SpellInv

\* The first field begins empty.
LEMMA ShapeSpells == IInv /\ SpellInv /\ CheckShape => SpellInv'
<1> SUFFICES ASSUME IInv, SpellInv, CheckShape, ~Reject PROVE SpellInv'
  BY RejectSpells
<1>1. /\ pc = "shape" /\ pc' = "chunk"
      /\ UNCHANGED <<body, origin, field, digit, value, counts, taken, fieldLen, fields>>
  BY DEF CheckShape
<1>2. /\ field = 1 /\ taken = 0 /\ fieldLen = 0 /\ counts[1] > 0 /\ counts[1] \in Nat
      /\ \A i \in FieldIndex : fields[i] = <<>>
  BY <1>1, Numbers DEF IInv, StartInv, SpellInv, ChunksOK, ShapeInv, Counted, FieldIndex
<1>3. MadeOf(1, 0)
  <2>1. fields[1] = <<>>
    BY <1>2 DEF FieldIndex
  <2>2. 0 * C = 0
    BY NextProduct
  <2> QED  BY <1>2, <2>1, <2>2 DEF MadeOf
<1>4. ChunksOK'
  BY <1>1, <1>2, <1>3 DEF ChunksOK, MadeOf, From, FieldIndex
<1>5. HeaderOK' /\ CountsOK'
  BY <1>1 DEF SpellInv, HeaderOK, CountsOK, Reading, Counted, Spelled
<1> QED  BY <1>4, <1>5 DEF SpellInv

\* Where the next chunk of a field is.
LEMMA CursorIs ==
    ASSUME IInv, pc = "chunk"
    PROVE  /\ part = From(field) + taken /\ taken \in Nat /\ counts[field] \in Nat
           /\ taken <= counts[field] /\ From(field) \in Nat
<1>1. part = 4 + Before + taken /\ taken <= counts[field]
  BY DEF IInv, CursorInv
<1>2. From(field) = 4 + Before /\ Before \in Nat /\ counts[field] \in Nat
  BY Numbers DEF IInv, From, Before
<1> QED  BY <1>1, <1>2, Numbers DEF IInv

\* A chunk that is taken is the next chunk of the field it is put to.
LEMMA ChunkSpells == IInv /\ SpellInv /\ ReadChunk => SpellInv'
<1> SUFFICES ASSUME IInv, SpellInv, ReadChunk, ~Reject PROVE SpellInv'
  BY RejectSpells
<1> DEFINE n == taken + 1
           F == fields[field]
           w == Current
<1>1. /\ pc = "chunk" /\ taken < counts[field] /\ ~ChunkInvalid
      /\ fields' = [fields EXCEPT ![field] = F \o w]
      /\ fieldLen' = fieldLen + Len(w)
      /\ part' = part + 1 /\ taken' = n
      /\ UNCHANGED <<body, origin, pc, field, digit, value, counts>>
  BY DEF ReadChunk
<1>2. /\ F \in Seq(Byte) /\ w \in Seq(Byte) /\ field \in FieldIndex /\ fields \in Fragment
      /\ taken \in Nat /\ counts[field] \in Nat /\ n \in Nat
  BY <1>1, CursorInside, CursorIs DEF IInv, TypeOK, Fragment
<1>3. w = body[From(field) + n]
  BY <1>1, <1>2, CursorIs DEF Current
<1>4. /\ MadeOf(field, taken) /\ fieldLen = Len(F)
      /\ \A i \in FieldIndex : (i < field => Complete(i)) /\ (i > field => fields[i] = <<>>)
  BY <1>1 DEF SpellInv, ChunksOK
<1>5. /\ Len(F) = taken * C /\ taken * C \in Nat /\ n * C = taken * C + C
      /\ C \in Nat /\ (n - 1) * C = taken * C
  BY <1>1, <1>2, <1>4, NextProduct DEF MadeOf
<1>6. /\ Len(w) \in Nat /\ Len(w) # 0 /\ ~(Len(w) > C)
      /\ n < counts[field] => Len(w) = C
  BY <1>1, <1>2 DEF ChunkInvalid, Ragged, C
<1>7. /\ fields'[field] = F \o w
      /\ \A i \in FieldIndex : i # field => fields'[i] = fields[i]
  BY <1>1, <1>2 DEF Fragment
<1>8. Len(F \o w) = taken * C + Len(w)
  BY <1>2, <1>5, Joined
<1>9. \A k \in 1..n : body[From(field) + k] = Chunk(F \o w, k)
  <2> TAKE k \in 1..n
  <2>1. CASE k = n
    <3>1. Chunk(F \o w, taken + 1) = w
      BY <1>2, <1>5, <1>6, ChunkAdded
    <3> QED  BY <2>1, <3>1, <1>3
  <2>2. CASE k # n
    <3>1. k \in 1..taken /\ k \in Nat /\ k > 0
      BY <1>2, <2>2
    <3>2. k * C <= taken * C
      BY <1>2, <3>1, Product
    <3>3. Chunk(F \o w, k) = Chunk(F, k)
      BY <1>2, <1>5, <3>1, <3>2, ChunkKept
    <3> QED  BY <3>1, <3>3, <1>4 DEF MadeOf
  <2> QED  BY <2>1, <2>2
<1>10. \A i \in {1, 2, 3} : From(i)' = From(i)
  BY <1>1 DEF From
<1> HIDE DEF F, w, n
<1>11. MadeOf(field, taken)'
  <2>1. \A k \in 1..n : body'[From(field)' + k] = Chunk(fields'[field], k)
    BY <1>1, <1>2, <1>7, <1>9, <1>10 DEF FieldIndex, From
  <2>2. n < counts[field] => Len(F \o w) = n * C
    BY <1>5, <1>6, <1>8
  <2>3. (n - 1) * C < Len(F \o w) /\ Len(F \o w) <= n * C
    BY <1>5, <1>6, <1>8
  <2> QED  BY <1>1, <1>7, <2>1, <2>2, <2>3 DEF MadeOf
<1>12. \A i \in FieldIndex : (i < field => Complete(i)') /\ (i > field => fields'[i] = <<>>)
  <2> TAKE i \in FieldIndex
  <2>1. i # field => fields'[i] = fields[i]
    BY <1>7
  <2>2. i < field => i # field
    BY <1>2 DEF FieldIndex
  <2>3. i > field => i # field
    BY <1>2 DEF FieldIndex
  <2>4. ASSUME i < field PROVE Complete(i)'
    <3>1. Complete(i) /\ fields'[i] = fields[i] /\ From(i)' = From(i)
      BY <1>4, <1>10, <2>1, <2>2, <2>4 DEF FieldIndex
    <3> QED  BY <1>1, <3>1 DEF Complete, MadeOf
  <2> QED  BY <1>4, <2>1, <2>3, <2>4
<1>13. fieldLen' = Len(fields'[field])
  BY <1>1, <1>2, <1>4, <1>5, <1>6, <1>7, <1>8
<1>14. ChunksOK'
  BY <1>1, <1>11, <1>12, <1>13 DEF ChunksOK, MadeOf
<1>15. HeaderOK' /\ CountsOK'
  BY <1>1 DEF SpellInv, HeaderOK, CountsOK, Reading, Counted, Spelled
<1> QED  BY <1>14, <1>15 DEF SpellInv

\* A field with all its chunks is complete, and the next one begins empty.
LEMMA EndSpells == IInv /\ SpellInv /\ EndField => SpellInv'
<1> SUFFICES ASSUME IInv, SpellInv, EndField, ~Reject PROVE SpellInv'
  BY RejectSpells
<1>1. /\ pc = "chunk" /\ taken = counts[field] /\ ~TooLong
      /\ taken' = 0 /\ fieldLen' = 0
      /\ UNCHANGED <<body, origin, digit, value, counts, part, fields>>
      /\ \/ field < 3 /\ field' = field + 1 /\ pc' = "chunk"
         \/ ~(field < 3) /\ pc' = "accept" /\ field' = field
  BY DEF EndField
<1>2. /\ MadeOf(field, taken) /\ fieldLen = Len(fields[field])
      /\ \A i \in FieldIndex : (i < field => Complete(i)) /\ (i > field => fields[i] = <<>>)
  BY <1>1 DEF SpellInv, ChunksOK
<1>3. /\ field \in 1..3 /\ fieldLen \in Nat /\ MaxEncodedLength[field] \in Nat
      /\ Len(body) = 4 + Declared
  BY <1>1, Facts DEF IInv, TypeOK, CursorInv
<1>4. Complete(field)
  <2>1. fieldLen <= MaxEncodedLength[field]
    BY <1>1, <1>3 DEF TooLong
  <2> QED  BY <1>1, <1>2, <2>1 DEF Complete
<1>5. \A i \in FieldIndex : Complete(i)' <=> Complete(i)
  BY <1>1 DEF Complete, MadeOf, From
<1>6. ChunksOK'
  <2>1. CASE field < 3 /\ field' = field + 1 /\ pc' = "chunk"
    <3>1. \A i \in FieldIndex : i < field' => i < field \/ i = field
      BY <1>3, <2>1 DEF FieldIndex
    <3>2. \A i \in FieldIndex : i < field' => Complete(i)'
      BY <3>1, <1>2, <1>4, <1>5
    <3>3. field' \in FieldIndex /\ field' > field /\ \A i \in FieldIndex : i > field' => i > field
      BY <1>3, <2>1 DEF FieldIndex
    <3>4. \A i \in FieldIndex : i > field' => fields'[i] = <<>>
      BY <3>3, <1>1, <1>2
    <3>5. fields'[field'] = <<>>
      BY <3>3, <1>1, <1>2
    <3>6. counts'[field'] > 0 /\ counts'[field'] \in Nat
      BY <1>1, <3>3, Facts DEF IInv, ShapeInv, Counted, FieldIndex
    <3>7. 0 * C = 0
      BY NextProduct
    <3>8. MadeOf(field, taken)'
      BY <1>1, <3>5, <3>6, <3>7 DEF MadeOf
    <3> QED  BY <1>1, <2>1, <3>2, <3>4, <3>5, <3>8 DEF ChunksOK, MadeOf
  <2>2. CASE ~(field < 3) /\ pc' = "accept" /\ field' = field
    <3>1. \A i \in FieldIndex : i < field \/ i = field
      BY <1>3, <2>2 DEF FieldIndex
    <3>2. \A i \in FieldIndex : Complete(i)'
      BY <3>1, <1>2, <1>4, <1>5
    <3>3. Len(body)' = 4 + Declared'
      BY <1>1, <1>3 DEF Declared
    <3> QED  BY <1>1, <2>2, <3>2, <3>3 DEF ChunksOK
  <2> QED  BY <1>1, <2>1, <2>2
<1>7. HeaderOK' /\ CountsOK'
  BY <1>1 DEF SpellInv, HeaderOK, CountsOK, Reading, Counted, Spelled
<1> QED  BY <1>6, <1>7 DEF SpellInv

\* Every step keeps what the decoder has made true to the parts.
LEMMA SpellKeeps == IInv /\ SpellInv /\ [Next]_vars => SpellInv'
<1> SUFFICES ASSUME IInv, SpellInv, [Next]_vars PROVE SpellInv'
  OBVIOUS
<1>1. CASE CheckHeader  BY <1>1, HeaderSpells
<1>2. CASE ReadDigit    BY <1>2, DigitSpells
<1>3. CASE RejectCount  BY <1>3, RejectSpells DEF RejectCount
<1>4. CASE EndCount     BY <1>4, CountSpells
<1>5. CASE CheckShape   BY <1>5, ShapeSpells
<1>6. CASE ReadChunk    BY <1>6, ChunkSpells
<1>7. CASE EndField     BY <1>7, EndSpells
<1>8. CASE UNCHANGED vars
  BY <1>8 DEF vars, SpellInv, HeaderOK, CountsOK, ChunksOK, Digits, Complete, MadeOf, Spelled,
              From, Token, Declared, Reading, Counted
<1> QED  BY <1>1, <1>2, <1>3, <1>4, <1>5, <1>6, <1>7, <1>8 DEF Next

----------------------------------------------------------------------------
(***************************************************************************)
(* The length of a body, whose definition is recursive.                    *)
(***************************************************************************)

\* A nonempty set of numbers has a least one, and what holds of 0 and climbs
\* from a number to the next holds of all of them.
LEMMA LeastExists ==
    ASSUME NEW S \in SUBSET Nat, S # {}
    PROVE  \E i \in S : \A j \in S : i <= j
<1> DEFINE Less == {p \in Nat \X Nat : p[1] < p[2]}
<1>1. IsWellFoundedOn(Less, Nat)
  BY NatLessThanWellFounded DEF OpToRel
<1>2. PICK i \in S : \A j \in S : ~(<<j, i>> \in Less)
  BY <1>1, WFMin
<1>3. ASSUME NEW j \in S PROVE i <= j
  <2>1. i \in Nat /\ j \in Nat
    OBVIOUS
  <2>2. ~(j < i)
    BY <1>2, <2>1
  <2> QED  BY <2>1, <2>2
<1> QED  BY <1>3

\* What holds of 0 and climbs from a number to the next holds of all of them.
LEMMA Climb ==
    ASSUME NEW N \in Nat, NEW S, 0 \in S, \A k \in 0..N : k < N /\ k \in S => k + 1 \in S
    PROVE  \A k \in 0..N : k \in S
<1> DEFINE M == {k \in 0..N : k \notin S}
<1> SUFFICES ASSUME M # {} PROVE FALSE
  OBVIOUS
<1>1. M \in SUBSET Nat
  OBVIOUS
<1>2. PICK i \in M : \A j \in M : i <= j
  <2> HIDE DEF M
  <2> QED  BY <1>1, LeastExists
<1>3. i \in Nat /\ i # 0 /\ i <= N /\ i \notin S
  BY <1>2
<1>4. i - 1 \in 0..N /\ i - 1 < N /\ i - 1 < i
  BY <1>3
<1>5. i - 1 \in S
  BY <1>2, <1>3, <1>4
<1>6. (i - 1) + 1 = i
  BY <1>3
<1>7. (i - 1) + 1 \in S
  BY <1>4, <1>5
<1> QED  BY <1>3, <1>6, <1>7

IsSum(t, parts, n) ==
    t = [k \in 0..n |-> IF k = 0 THEN 0 ELSE t[k - 1] + Len(parts[k])]

Sum(parts) == CHOOSE t : IsSum(t, parts, Len(parts))

\* The recursive definition has a solution: one more part extends that of its prefix.
LEMMA SumExists ==
    ASSUME NEW parts \in Seq(Seq(Byte))
    PROVE  IsSum(Sum(parts), parts, Len(parts))
<1> DEFINE S == {n \in 0..Len(parts) : \E t : IsSum(t, parts, n)}
           N == Len(parts)
<1>1. N \in Nat
  OBVIOUS
<1>2. 0 \in S
  <2> DEFINE t == [k \in 0..0 |-> 0]
  <2>1. t = [k \in 0..0 |-> IF k = 0 THEN 0 ELSE t[k - 1] + Len(parts[k])]
    OBVIOUS
  <2>2. IsSum(t, parts, 0)
    BY <2>1 DEF IsSum
  <2> QED  BY <1>1, <2>2
<1>3. \A k \in 0..N : k < N /\ k \in S => k + 1 \in S
  <2> SUFFICES ASSUME NEW n \in 0..N, n < N, n \in S PROVE n + 1 \in S
    OBVIOUS
  <2>1. PICK t : IsSum(t, parts, n)
    OBVIOUS
  <2> DEFINE u == [k \in 0..(n + 1) |-> IF k = n + 1 THEN t[n] + Len(parts[n + 1]) ELSE t[k]]
  <2>2. n \in Nat /\ n + 1 \in 0..N
    BY <1>1
  <2>3. \A k \in 0..n : t[k] = IF k = 0 THEN 0 ELSE t[k - 1] + Len(parts[k])
    BY <2>1 DEF IsSum
  <2>4. ASSUME NEW k \in 0..(n + 1)
        PROVE  u[k] = IF k = 0 THEN 0 ELSE u[k - 1] + Len(parts[k])
    <3>1. CASE k = n + 1
      <4>1. k - 1 = n /\ k # 0 /\ n \in 0..(n + 1) /\ n # n + 1
        BY <2>2, <3>1
      <4>2. u[k] = t[n] + Len(parts[n + 1]) /\ u[k - 1] = t[n]
        BY <3>1, <4>1
      <4> QED  BY <3>1, <4>1, <4>2
    <3>2. CASE k # n + 1
      <4>1. k \in 0..n /\ u[k] = t[k]
        BY <2>2, <3>2
      <4>2. k # 0 => k - 1 \in 0..(n + 1) /\ k - 1 # n + 1
        BY <2>2, <4>1
      <4>3. k # 0 => u[k - 1] = t[k - 1]
        BY <4>2
      <4> QED  BY <2>3, <4>1, <4>3
    <3> QED  BY <3>1, <3>2
  <2>5. u = [k \in 0..(n + 1) |-> IF k = 0 THEN 0 ELSE u[k - 1] + Len(parts[k])]
    <3> DEFINE w == [k \in 0..(n + 1) |-> IF k = 0 THEN 0 ELSE u[k - 1] + Len(parts[k])]
    <3>1. \A k \in 0..(n + 1) : u[k] = w[k]
      BY <2>4
    <3>2. DOMAIN u = 0..(n + 1) /\ DOMAIN w = 0..(n + 1)
      OBVIOUS
    <3>3. u = [k \in 0..(n + 1) |-> u[k]] /\ w = [k \in 0..(n + 1) |-> w[k]]
      OBVIOUS
    <3> HIDE DEF u, w
    <3>4. u = w
      BY <3>1, <3>3
    <3> QED  BY <3>4 DEF w
  <2>6. IsSum(u, parts, n + 1)
    BY <2>5 DEF IsSum
  <2> QED  BY <2>2, <2>6
<1> HIDE DEF S
<1>4. N \in S
  <2>1. \A k \in 0..N : k \in S
    BY <1>1, <1>2, <1>3, Climb
  <2> QED  BY <1>1, <2>1
<1>5. \E t : IsSum(t, parts, N)
  BY <1>4 DEF S
<1> QED  BY <1>5 DEF Sum

\* The sum of the lengths, part by part.
LEMMA SumIs ==
    ASSUME NEW parts \in Seq(Seq(Byte))
    PROVE  /\ Sum(parts)[0] = 0
           /\ \A k \in 0..Len(parts) : Sum(parts)[k] \in Nat
           /\ \A k \in 1..Len(parts) : Sum(parts)[k] = Sum(parts)[k - 1] + Len(parts[k])
<1> DEFINE t == Sum(parts)
           N == Len(parts)
           S == {k \in 0..N : t[k] \in Nat}
<1>1. N \in Nat
  OBVIOUS
<1>2. t = [k \in 0..N |-> IF k = 0 THEN 0 ELSE t[k - 1] + Len(parts[k])]
  BY SumExists DEF IsSum
<1> HIDE DEF t
<1>3. \A k \in 0..N : t[k] = IF k = 0 THEN 0 ELSE t[k - 1] + Len(parts[k])
  BY <1>2
<1>4. t[0] = 0
  BY <1>1, <1>3
<1>5. \A k \in 1..N : t[k] = t[k - 1] + Len(parts[k])
  BY <1>1, <1>3
<1>6. \A k \in 0..N : k < N /\ k \in S => k + 1 \in S
  <2> SUFFICES ASSUME NEW k \in 0..N, k < N, k \in S PROVE k + 1 \in S
    OBVIOUS
  <2>1. k + 1 \in 1..N /\ k + 1 \in 0..N /\ (k + 1) - 1 = k
    BY <1>1
  <2>2. parts[k + 1] \in Seq(Byte)
    BY <2>1
  <2>3. Len(parts[k + 1]) \in Nat
    BY <2>2
  <2>4. t[k + 1] = t[k] + Len(parts[k + 1])
    BY <2>1, <1>5
  <2> QED  BY <2>1, <2>3, <2>4
<1>7. 0 \in S
  BY <1>1, <1>4
<1> HIDE DEF S
<1>8. \A k \in 0..N : k \in S
  BY <1>1, <1>6, <1>7, Climb
<1>9. \A k \in 0..N : t[k] \in Nat
  BY <1>8 DEF S
<1> QED  BY <1>4, <1>5, <1>9 DEF t

\* The length of a body is the sum and a dot between the parts.
LEMMA BodyLengthIs ==
    ASSUME NEW parts \in Seq(Seq(Byte))
    PROVE  /\ BodyLength(parts) = Sum(parts)[Len(parts)] + Len(parts) - 1
           /\ BodyLength(parts) \in Int
<1>1. BodyLength(parts) = Sum(parts)[Len(parts)] + Len(parts) - 1
  BY DEF BodyLength, Sum, IsSum
<1>2. Len(parts) \in Nat /\ Sum(parts)[Len(parts)] \in Nat
  BY SumIs
<1> QED  BY <1>1, <1>2

----------------------------------------------------------------------------
(***************************************************************************)
(* A transport, part by part.                                              *)
(***************************************************************************)
LEMMA ConcatIs ==
    ASSUME NEW T, NEW s \in Seq(T), NEW t \in Seq(T)
    PROVE  /\ s \o t \in Seq(T) /\ Len(s \o t) = Len(s) + Len(t)
           /\ Len(s) \in Nat /\ Len(t) \in Nat
           /\ \A i \in 1..Len(s) : (s \o t)[i] = s[i]
           /\ \A i \in 1..Len(t) : (s \o t)[Len(s) + i] = t[i]
<1>1. Len(s) \in Nat /\ Len(t) \in Nat
  OBVIOUS
<1> QED  BY <1>1, ConcatProperties

\* The same of lists of parts.
LEMMA Concatenated ==
    ASSUME NEW s \in Seq(Seq(Byte)), NEW t \in Seq(Seq(Byte))
    PROVE  /\ s \o t \in Seq(Seq(Byte)) /\ Len(s \o t) = Len(s) + Len(t)
           /\ \A i \in 1..Len(s) : (s \o t)[i] = s[i]
           /\ \A i \in 1..Len(t) : (s \o t)[Len(s) + i] = t[i]
<1> DEFINE T == Seq(Byte)
<1>1. s \in Seq(T) /\ t \in Seq(T)
  OBVIOUS
<1> HIDE DEF T
<1>2. /\ s \o t \in Seq(T) /\ Len(s \o t) = Len(s) + Len(t)
      /\ \A i \in 1..Len(s) : (s \o t)[i] = s[i]
      /\ \A i \in 1..Len(t) : (s \o t)[Len(s) + i] = t[i]
  BY <1>1, ConcatIs
<1> QED  BY <1>2 DEF T

\* A position behind the end of a prefix.
LEMMA Offset ==
    ASSUME NEW j \in Nat, NEW e \in Nat, NEW m \in Nat, e < j, j <= e + m
    PROVE  j - e \in 1..m /\ j = e + (j - e)
OBVIOUS

\* A decimal has one digit or two.
LEMMA DecimalType ==
    ASSUME NEW n \in Nat
    PROVE  Decimal(n) \in Seq(Byte) /\ Len(Decimal(n)) = IF n < 10 THEN 1 ELSE 2
<1>1. n \div 10 \in Nat /\ n % 10 \in Nat
  OBVIOUS
<1> QED  BY <1>1 DEF Decimal, Byte

\* The chunks of a field that is not empty, one by one.
LEMMA ChunksAre ==
    ASSUME NEW v \in Seq(Byte), v # <<>>
    PROVE  /\ Chunks(v) \in Seq(Seq(Byte)) /\ Len(Chunks(v)) = ChunkCount(v)
           /\ ChunkCount(v) \in Nat /\ ChunkCount(v) > 0
           /\ \A k \in 1..ChunkCount(v) : Chunks(v)[k] = Chunk(v, k) /\ Chunk(v, k) \in Seq(Byte)
<1> DEFINE n == ChunkCount(v)
<1>1. n \in Nat /\ n > 0 /\ (n - 1) * C < Len(v) /\ Len(v) \in Nat /\ (n - 1) * C \in Nat
  <2>1. n \in Nat /\ n > 0 /\ (n - 1) * C < Len(v)
    BY CountBounds
  <2> HIDE DEF n
  <2> QED  BY <2>1, NextProduct
<1>2. Chunks(v) = [k \in 1..n |-> Chunk(v, k)]
  BY DEF Chunks
<1> HIDE DEF n
<1>3. ASSUME NEW k \in 1..n
      PROVE  Chunk(v, k) \in Seq(Byte)
  <2>1. k \in Nat /\ k > 0 /\ k - 1 \in Nat /\ n - 1 \in Nat /\ k - 1 <= n - 1
    BY <1>1
  <2>2. (k - 1) * C <= (n - 1) * C /\ (k - 1) * C \in Nat
    BY <2>1, Product
  <2>3. (k - 1) * C <= Len(v)
    BY <1>1, <2>2
  <2> QED  BY <2>1, <2>3, ChunkIs
<1>4. [k \in 1..n |-> Chunk(v, k)] \in Seq(Seq(Byte))
  BY <1>1, <1>3
<1>5. Len(Chunks(v)) = n /\ \A k \in 1..n : Chunks(v)[k] = Chunk(v, k)
  BY <1>1, <1>2
<1> QED  BY <1>1, <1>2, <1>3, <1>4, <1>5 DEF n

\* The header, then the chunks of the three fields.
LEMMA TransportIs ==
    ASSUME NEW f \in Fragment, \A i \in FieldIndex : f[i] # <<>>
    PROVE  LET T == Transport(f)
               n(i) == ChunkCount(f[i])
           IN  /\ T \in Seq(Seq(Byte)) /\ Len(T) = 4 + n(1) + n(2) + n(3)
               /\ n(1) \in Nat /\ n(2) \in Nat /\ n(3) \in Nat
               /\ n(1) > 0 /\ n(2) > 0 /\ n(3) > 0
               /\ T[1] = Prefix /\ T[2] = Decimal(n(1)) /\ T[3] = Decimal(n(2)) /\ T[4] = Decimal(n(3))
               /\ \A k \in 1..n(1) : T[4 + k] = Chunk(f[1], k)
               /\ \A k \in 1..n(2) : T[4 + n(1) + k] = Chunk(f[2], k)
               /\ \A k \in 1..n(3) : T[4 + n(1) + n(2) + k] = Chunk(f[3], k)
<1> DEFINE n1 == ChunkCount(f[1])
           n2 == ChunkCount(f[2])
           n3 == ChunkCount(f[3])
           h == <<Prefix, Decimal(n1), Decimal(n2), Decimal(n3)>>
           c1 == Chunks(f[1])
           c2 == Chunks(f[2])
           c3 == Chunks(f[3])
           T == Transport(f)
<1>1. f[1] \in Seq(Byte) /\ f[2] \in Seq(Byte) /\ f[3] \in Seq(Byte)
  BY DEF Fragment, FieldIndex
<1>2. f[1] # <<>> /\ f[2] # <<>> /\ f[3] # <<>>
  BY DEF FieldIndex
<1>3. /\ c1 \in Seq(Seq(Byte)) /\ Len(c1) = n1 /\ n1 \in Nat /\ n1 > 0
      /\ \A k \in 1..n1 : c1[k] = Chunk(f[1], k)
  BY <1>1, <1>2, ChunksAre
<1>4. /\ c2 \in Seq(Seq(Byte)) /\ Len(c2) = n2 /\ n2 \in Nat /\ n2 > 0
      /\ \A k \in 1..n2 : c2[k] = Chunk(f[2], k)
  BY <1>1, <1>2, ChunksAre
<1>5. /\ c3 \in Seq(Seq(Byte)) /\ Len(c3) = n3 /\ n3 \in Nat /\ n3 > 0
      /\ \A k \in 1..n3 : c3[k] = Chunk(f[3], k)
  BY <1>1, <1>2, ChunksAre
<1>6. /\ h \in Seq(Seq(Byte)) /\ Len(h) = 4
      /\ h[1] = Prefix /\ h[2] = Decimal(n1) /\ h[3] = Decimal(n2) /\ h[4] = Decimal(n3)
  <2>1. Decimal(n1) \in Seq(Byte) /\ Decimal(n2) \in Seq(Byte) /\ Decimal(n3) \in Seq(Byte)
    BY <1>3, <1>4, <1>5, DecimalType
  <2> HIDE DEF n1, n2, n3
  <2> QED  BY <2>1, ContractAssumption
<1>7. T = ((h \o c1) \o c2) \o c3
  BY DEF Transport
<1> HIDE DEF h, c1, c2, c3, n1, n2, n3, T
<1>8. /\ h \o c1 \in Seq(Seq(Byte)) /\ Len(h \o c1) = 4 + n1
      /\ \A i \in 1..4 : (h \o c1)[i] = h[i]
      /\ \A i \in 1..n1 : (h \o c1)[4 + i] = c1[i]
  <2>1. /\ h \o c1 \in Seq(Seq(Byte)) /\ Len(h \o c1) = Len(h) + Len(c1)
        /\ \A i \in 1..Len(h) : (h \o c1)[i] = h[i]
        /\ \A i \in 1..Len(c1) : (h \o c1)[Len(h) + i] = c1[i]
    BY <1>3, <1>6, Concatenated
  <2> QED  BY <1>3, <1>6, <2>1
<1> DEFINE u == h \o c1
<1>9. u \in Seq(Seq(Byte)) /\ Len(u) = 4 + n1
  BY <1>8
<1> DEFINE w == u \o c2
<1> HIDE DEF u
<1>10. /\ w \in Seq(Seq(Byte)) /\ Len(w) = 4 + n1 + n2
       /\ \A i \in 1..(4 + n1) : w[i] = u[i]
       /\ \A i \in 1..n2 : w[4 + n1 + i] = c2[i]
  <2>1. /\ w \in Seq(Seq(Byte)) /\ Len(w) = Len(u) + Len(c2)
        /\ \A i \in 1..Len(u) : w[i] = u[i]
        /\ \A i \in 1..Len(c2) : w[Len(u) + i] = c2[i]
    BY <1>4, <1>9, Concatenated
  <2> HIDE DEF w
  <2> QED  BY <1>4, <1>9, <2>1
<1> HIDE DEF w
<1>11. /\ w \o c3 \in Seq(Seq(Byte)) /\ Len(w \o c3) = 4 + n1 + n2 + n3
       /\ \A i \in 1..(4 + n1 + n2) : (w \o c3)[i] = w[i]
       /\ \A i \in 1..n3 : (w \o c3)[4 + n1 + n2 + i] = c3[i]
  <2>1. /\ w \o c3 \in Seq(Seq(Byte)) /\ Len(w \o c3) = Len(w) + Len(c3)
        /\ \A i \in 1..Len(w) : (w \o c3)[i] = w[i]
        /\ \A i \in 1..Len(c3) : (w \o c3)[Len(w) + i] = c3[i]
    BY <1>5, <1>10, Concatenated
  <2> QED  BY <1>5, <1>10, <2>1
<1>12. T = w \o c3
  BY <1>7 DEF u, w
<1>13. \A i \in 1..4 : T[i] = h[i]
  <2> TAKE i \in 1..4
  <2>1. i \in 1..(4 + n1) /\ i \in 1..(4 + n1 + n2)
    BY <1>3, <1>4
  <2> QED  BY <2>1, <1>8, <1>10, <1>11, <1>12 DEF u
<1>14. \A k \in 1..n1 : T[4 + k] = c1[k]
  <2> TAKE k \in 1..n1
  <2>1. 4 + k \in 1..(4 + n1) /\ 4 + k \in 1..(4 + n1 + n2)
    BY <1>3, <1>4
  <2> QED  BY <2>1, <1>8, <1>10, <1>11, <1>12 DEF u
<1>15. \A k \in 1..n2 : T[4 + n1 + k] = c2[k]
  <2> TAKE k \in 1..n2
  <2>1. 4 + n1 + k \in 1..(4 + n1 + n2)
    BY <1>3, <1>4
  <2> QED  BY <2>1, <1>10, <1>11, <1>12
<1>16. /\ T[1] = Prefix /\ T[2] = Decimal(n1) /\ T[3] = Decimal(n2) /\ T[4] = Decimal(n3)
  <2>1. 1 \in 1..4 /\ 2 \in 1..4 /\ 3 \in 1..4 /\ 4 \in 1..4
    OBVIOUS
  <2> QED  BY <2>1, <1>6, <1>13
<1>17. /\ T \in Seq(Seq(Byte)) /\ Len(T) = 4 + n1 + n2 + n3
       /\ T[1] = Prefix /\ T[2] = Decimal(n1) /\ T[3] = Decimal(n2) /\ T[4] = Decimal(n3)
       /\ \A k \in 1..n1 : T[4 + k] = Chunk(f[1], k)
       /\ \A k \in 1..n2 : T[4 + n1 + k] = Chunk(f[2], k)
       /\ \A k \in 1..n3 : T[4 + n1 + n2 + k] = Chunk(f[3], k)
  BY <1>3, <1>4, <1>5, <1>11, <1>12, <1>14, <1>15, <1>16
<1>18. /\ n1 \in Nat /\ n2 \in Nat /\ n3 \in Nat
       /\ n1 > 0 /\ n2 > 0 /\ n3 > 0
  BY <1>3, <1>4, <1>5
<1> QED  BY <1>17, <1>18 DEF n1, n2, n3, T

PartsOf(b, f, m1, m2, m3) ==
    /\ \A i \in FieldIndex : f[i] # <<>>
    /\ m1 = ChunkCount(f[1]) /\ m2 = ChunkCount(f[2]) /\ m3 = ChunkCount(f[3])
    /\ Len(b) = 4 + m1 + m2 + m3
    /\ b[1] = Prefix /\ b[2] = Decimal(m1) /\ b[3] = Decimal(m2) /\ b[4] = Decimal(m3)
    /\ \A k \in 1..m1 : b[4 + k] = Chunk(f[1], k)
    /\ \A k \in 1..m2 : b[4 + m1 + k] = Chunk(f[2], k)
    /\ \A k \in 1..m3 : b[4 + m1 + m2 + k] = Chunk(f[3], k)

\* A list with the parts of a transport is that transport.
LEMMA TransportOnly ==
    ASSUME NEW f \in Fragment, NEW b \in Seq(Seq(Byte)), NEW m1, NEW m2, NEW m3,
           PartsOf(b, f, m1, m2, m3)
    PROVE  b = Transport(f)
<1> USE DEF PartsOf
<1> DEFINE T == Transport(f)
<1>1. /\ T \in Seq(Seq(Byte)) /\ Len(T) = 4 + m1 + m2 + m3
      /\ m1 \in Nat /\ m2 \in Nat /\ m3 \in Nat
      /\ T[1] = Prefix /\ T[2] = Decimal(m1) /\ T[3] = Decimal(m2) /\ T[4] = Decimal(m3)
      /\ \A k \in 1..m1 : T[4 + k] = Chunk(f[1], k)
      /\ \A k \in 1..m2 : T[4 + m1 + k] = Chunk(f[2], k)
      /\ \A k \in 1..m3 : T[4 + m1 + m2 + k] = Chunk(f[3], k)
  BY TransportIs
<1> HIDE DEF T
<1>0. m1 \in Nat /\ m2 \in Nat /\ m3 \in Nat
  BY <1>1
<1>9. /\ 4 + m1 \in Nat /\ 4 + m1 + m2 \in Nat
      /\ (4 + m1) + m2 = 4 + m1 + m2 /\ (4 + m1 + m2) + m3 = 4 + m1 + m2 + m3
  BY ONLY <1>0
<1>2. ASSUME NEW j \in 1..Len(b)
      PROVE  b[j] = T[j]
  <2>0. j \in Nat /\ j > 0 /\ j <= 4 + m1 + m2 + m3
    BY <1>0
  <2>1. CASE j <= 4
    <3>1. j = 1 \/ j = 2 \/ j = 3 \/ j = 4
      BY <2>0, <2>1
    <3> QED  BY <1>1, <3>1
  <2>2. CASE 4 < j /\ j <= 4 + m1
    <3> DEFINE k == j - 4
    <3>0. 4 \in Nat /\ j <= (4) + m1
      BY <1>0, <2>0, <2>2
    <3>1. k \in 1..m1 /\ j = 4 + k
      BY <1>0, <2>0, <2>2, <3>0, Offset
    <3> HIDE DEF k
    <3>2. b[4 + k] = Chunk(f[1], k) /\ T[4 + k] = Chunk(f[1], k)
      BY <1>1, <3>1
    <3> QED  BY <3>1, <3>2
  <2>3. CASE 4 + m1 < j /\ j <= 4 + m1 + m2
    <3> DEFINE k == j - (4 + m1)
    <3>0. 4 + m1 \in Nat /\ j <= (4 + m1) + m2
      BY ONLY <1>9, <2>3
    <3>1. k \in 1..m2 /\ j = 4 + m1 + k
      BY <1>0, <2>0, <2>3, <3>0, Offset
    <3> HIDE DEF k
    <3>2. b[4 + m1 + k] = Chunk(f[2], k) /\ T[4 + m1 + k] = Chunk(f[2], k)
      BY <1>1, <3>1
    <3> QED  BY <3>1, <3>2
  <2>4. CASE 4 + m1 + m2 < j
    <3> DEFINE k == j - (4 + m1 + m2)
    <3>0. 4 + m1 + m2 \in Nat /\ j <= (4 + m1 + m2) + m3
      BY ONLY <1>0, <1>9, <2>0, <2>4
    <3>1. k \in 1..m3 /\ j = 4 + m1 + m2 + k
      BY <1>0, <2>0, <2>4, <3>0, Offset
    <3> HIDE DEF k
    <3>2. b[4 + m1 + m2 + k] = Chunk(f[3], k) /\ T[4 + m1 + m2 + k] = Chunk(f[3], k)
      BY <1>1, <3>1
    <3> QED  BY <3>1, <3>2
  <2> QED  BY <1>0, <2>0, <2>1, <2>2, <2>3, <2>4
<1>3. b = T
  BY <1>1, <1>2, SeqEqual
<1> QED  BY <1>3 DEF T

\* What is accepted is the transport of what is returned.
LEMMA AcceptedIsTransport == IInv /\ SpellInv => OneSpelling
<1> SUFFICES ASSUME IInv, SpellInv, pc = "accept"
             PROVE  Encodable(fields) /\ body = Transport(fields)
  BY DEF OneSpelling
<1> DEFINE m1 == counts[1]
           m2 == counts[2]
           m3 == counts[3]
<1>1. fields \in Fragment /\ body \in Seq(Seq(Byte)) /\ MaxTransportLength \in Nat
  BY ContractAssumption DEF IInv, TypeOK
<1>2. ASSUME NEW i \in FieldIndex
      PROVE  /\ fields[i] \in Seq(Byte) /\ fields[i] # <<>>
             /\ ChunkCount(fields[i]) = counts[i] /\ counts[i] <= MaxChunks[i]
             /\ Len(fields[i]) <= MaxEncodedLength[i]
             /\ body[i + 1] = Decimal(counts[i])
             /\ \A k \in 1..counts[i] : body[From(i) + k] = Chunk(fields[i], k)
  <2> DEFINE n == counts[i]
  <2>1. fields[i] \in Seq(Byte) /\ n \in Nat /\ n > 0 /\ n <= MaxChunks[i]
    BY <1>1 DEF Fragment, IInv, TypeOK, ShapeInv, Counted
  <2>2. Complete(i) /\ Spelled(i)
    BY DEF SpellInv, ChunksOK, CountsOK, Counted
  <2>3. (n - 1) * C < Len(fields[i]) /\ Len(fields[i]) <= n * C
    BY <2>2 DEF Complete, MadeOf
  <2> HIDE DEF n
  <2>4. ChunkCount(fields[i]) = n
    BY <2>1, <2>3, CountIs
  <2>5. fields[i] # <<>>
    <3>1. (n - 1) * C \in Nat /\ Len(<<>>) = 0
      BY <2>1, NextProduct
    <3> QED  BY <2>3, <3>1
  <2> QED  BY <2>1, <2>2, <2>4, <2>5 DEF n, Complete, MadeOf, Spelled
<1>3. m1 = ChunkCount(fields[1]) /\ m2 = ChunkCount(fields[2]) /\ m3 = ChunkCount(fields[3])
  BY <1>2 DEF FieldIndex
<1>4. body[2] = Decimal(m1) /\ body[3] = Decimal(m2) /\ body[4] = Decimal(m3)
  <2>1. body[1 + 1] = Decimal(m1) /\ body[2 + 1] = Decimal(m2) /\ body[3 + 1] = Decimal(m3)
    BY <1>2 DEF FieldIndex
  <2> QED  BY <2>1
<1>5. /\ \A k \in 1..m1 : body[4 + k] = Chunk(fields[1], k)
      /\ \A k \in 1..m2 : body[4 + m1 + k] = Chunk(fields[2], k)
      /\ \A k \in 1..m3 : body[4 + m1 + m2 + k] = Chunk(fields[3], k)
  BY <1>2 DEF FieldIndex, From
<1>6. Len(body) = 4 + m1 + m2 + m3 /\ body[1] = Prefix /\ ~(BodyLength(body) > MaxTransportLength)
  <2>1. m1 \in Nat /\ m2 \in Nat /\ m3 \in Nat
    BY Numbers DEF IInv
  <2> QED  BY <2>1 DEF SpellInv, ChunksOK, HeaderOK, Reading, Declared
<1>7. \A i \in FieldIndex : fields[i] # <<>>
  BY <1>2
<1> HIDE DEF m1, m2, m3
<1>8. PartsOf(body, fields, m1, m2, m3)
  BY <1>3, <1>4, <1>5, <1>6, <1>7 DEF PartsOf
<1>9. body = Transport(fields)
  BY <1>1, <1>8, TransportOnly
<1>10. BodyLength(Transport(fields)) <= MaxTransportLength
  BY <1>1, <1>6, <1>9, BodyLengthIs
<1> QED  BY <1>2, <1>9, <1>10 DEF Encodable

----------------------------------------------------------------------------
(***************************************************************************)
(* What the encoder makes is within the limits of the contract.            *)
(***************************************************************************)
Admitted(f) == /\ f \in Fragment
               /\ \A i \in FieldIndex : f[i] # <<>> /\ Len(f[i]) <= MaxEncodedLength[i]
                                                    /\ InAlphabet(f[i])

\* The chunks of a field are as long as the field.
LEMMA ChunksSum ==
    ASSUME NEW v \in Seq(Byte), v # <<>>, NEW parts \in Seq(Seq(Byte)), NEW a \in Nat,
           a + ChunkCount(v) <= Len(parts),
           \A k \in 1..ChunkCount(v) : parts[a + k] = Chunk(v, k)
    PROVE  Sum(parts)[a + ChunkCount(v)] = Sum(parts)[a] + Len(v)
<1> DEFINE n == ChunkCount(v)
           t == Sum(parts)
           L == Len(v)
           upto(k) == IF k * C < L THEN k * C ELSE L
           S == {k \in 0..n : t[a + k] = t[a] + upto(k)}
<1>1. n \in Nat /\ n > 0 /\ (n - 1) * C < L /\ L <= n * C
  BY CountBounds
<1>2. L \in Nat /\ Len(parts) \in Nat
  OBVIOUS
<1>3. /\ \A k \in 0..Len(parts) : t[k] \in Nat
      /\ \A k \in 1..Len(parts) : t[k] = t[k - 1] + Len(parts[k])
  BY SumIs
<1>4. a + n <= Len(parts) /\ \A k \in 1..n : parts[a + k] = Chunk(v, k)
  OBVIOUS
<1> HIDE DEF n, t
<1>5. 0 \in S
  <2>1. 0 * C = 0 /\ t[a] \in Nat /\ 0 \in 0..n
    <3>1. a \in 0..Len(parts)
      BY <1>1, <1>2, <1>4
    <3> QED  BY <1>1, <1>3, <3>1, NextProduct
  <2>2. upto(0) = 0
    BY <1>2, <2>1
  <2> QED  BY <2>1, <2>2
<1>6. \A k \in 0..n : k < n /\ k \in S => k + 1 \in S
  <2> SUFFICES ASSUME NEW k \in 0..n, k < n, k \in S PROVE k + 1 \in S
    OBVIOUS
  <2>1. /\ k \in Nat /\ k + 1 \in Nat /\ k + 1 > 0 /\ (k + 1) - 1 = k /\ k + 1 \in 1..n
        /\ k <= n - 1 /\ n - 1 \in Nat /\ k + 1 \in 0..n
    BY <1>1
  <2>2. k * C <= (n - 1) * C /\ k * C \in Nat /\ (n - 1) * C \in Nat
    BY <2>1, Product
  <2>3. k * C < L
    BY <1>1, <1>2, <2>2
  <2>4. upto(k) = k * C
    BY <2>3
  <2>5. /\ a + (k + 1) \in 1..Len(parts) /\ (a + (k + 1)) - 1 = a + k
        /\ a + k \in 0..Len(parts) /\ a \in 0..Len(parts)
    BY <1>1, <1>2, <1>4, <2>1
  <2>6. t[a + (k + 1)] = t[a + k] + Len(Chunk(v, k + 1))
    BY <1>3, <1>4, <2>1, <2>5
  <2>7. Len(Chunk(v, k + 1)) = upto(k + 1) - k * C
    <3>1. ((k + 1) - 1) * C <= Len(v)
      BY <2>1, <2>2, <2>3, <1>2
    <3>2. Len(Chunk(v, k + 1)) = upto(k + 1) - ((k + 1) - 1) * C
      BY <2>1, <3>1, ChunkIs
    <3> QED  BY <2>1, <3>2
  <2>8. upto(k + 1) \in Nat /\ t[a] \in Nat /\ t[a + k] \in Nat
    <3>1. (k + 1) * C \in Nat
      BY <2>1, NextProduct
    <3> QED  BY <3>1, <1>2, <1>3, <2>5
  <2> HIDE DEF upto
  <2>9. t[a + k] = t[a] + k * C
    BY <2>4
  <2>10. t[a + (k + 1)] = t[a] + upto(k + 1)
    <3> DEFINE e == k * C
               m == Len(Chunk(v, k + 1))
    <3>1. /\ e \in Nat /\ m = upto(k + 1) - e /\ t[a + k] = t[a] + e
          /\ t[a + (k + 1)] = t[a + k] + m
      BY <2>2, <2>6, <2>7, <2>9
    <3> HIDE DEF e, m
    <3> QED  BY ONLY <2>8, <3>1
  <2> QED  BY <2>1, <2>10
<1>7. upto(n) = L
  <2>1. n * C \in Nat
    BY <1>1, NextProduct
  <2> QED  BY <1>1, <1>2, <2>1
<1> HIDE DEF upto, S
<1>8. \A k \in 0..n : k \in S
  BY <1>1, <1>5, <1>6, Climb
<1>9. t[a + n] = t[a] + upto(n)
  BY <1>1, <1>8 DEF S
<1> QED  BY <1>7, <1>9 DEF n, t

\* A field within its length has no more chunks than its maximum.
LEMMA CountWithin ==
    ASSUME NEW i \in FieldIndex, NEW v \in Seq(Byte), v # <<>>, Len(v) <= MaxEncodedLength[i]
    PROVE  /\ ChunkCount(v) \in Nat /\ ChunkCount(v) > 0 /\ ChunkCount(v) <= MaxChunks[i]
           /\ Len(Decimal(ChunkCount(v))) \in Nat
           /\ Len(Decimal(ChunkCount(v))) <= Len(Decimal(MaxChunks[i]))
<1> DEFINE n == ChunkCount(v)
           m == MaxChunks[i]
<1>1. n \in Nat /\ n > 0 /\ (n - 1) * C < Len(v)
  BY CountBounds
<1>2. /\ m \in Nat /\ m < 100 /\ MaxEncodedLength[i] <= m * C /\ MaxEncodedLength[i] \in Nat
      /\ Len(v) \in Nat
  BY ContractAssumption, LimitsAssumption DEF C
<1> HIDE DEF n, m
<1>3. ~(m < n)
  <2> SUFFICES ASSUME m < n PROVE FALSE
    OBVIOUS
  <2>1. m <= n - 1 /\ n - 1 \in Nat
    BY <1>1, <1>2
  <2>2. m * C <= (n - 1) * C /\ m * C \in Nat /\ (n - 1) * C \in Nat
    BY <1>2, <2>1, Product
  <2> QED  BY <1>1, <1>2, <2>2
<1>4. n <= m
  BY <1>1, <1>2, <1>3
<1>5. /\ Len(Decimal(n)) = IF n < 10 THEN 1 ELSE 2
      /\ Len(Decimal(m)) = IF m < 10 THEN 1 ELSE 2
  BY <1>1, <1>2, DecimalType
<1>6. Len(Decimal(n)) \in Nat /\ Len(Decimal(n)) <= Len(Decimal(m))
  BY <1>1, <1>2, <1>4, <1>5
<1> QED  BY <1>1, <1>4, <1>6 DEF n, m

\* The limits of the contract agree: what the field lengths admit is encodable.
LEMMA AdmittedFits ==
    ASSUME NEW f, Admitted(f)
    PROVE  Encodable(f)
<1> DEFINE T == Transport(f)
           t == Sum(T)
           L(i) == Len(f[i])
           n(i) == ChunkCount(f[i])
           d(i) == Len(Decimal(n(i)))
<1>1. f \in Fragment /\ \A i \in FieldIndex : f[i] \in Seq(Byte) /\ f[i] # <<>>
  BY DEF Admitted, Fragment
<1>2. ASSUME NEW i \in FieldIndex
      PROVE  /\ n(i) \in Nat /\ n(i) > 0 /\ n(i) <= MaxChunks[i]
             /\ d(i) \in Nat /\ d(i) <= Len(Decimal(MaxChunks[i]))
             /\ L(i) \in Nat /\ L(i) <= MaxEncodedLength[i]
             /\ MaxChunks[i] \in Nat /\ MaxEncodedLength[i] \in Nat
             /\ Len(Decimal(MaxChunks[i])) \in Nat
  <2>1. f[i] \in Seq(Byte) /\ f[i] # <<>> /\ L(i) <= MaxEncodedLength[i] /\ L(i) \in Nat
    BY <1>1 DEF Admitted
  <2>2. n(i) \in Nat /\ n(i) > 0 /\ n(i) <= MaxChunks[i] /\ d(i) \in Nat /\ d(i) <= Len(Decimal(MaxChunks[i]))
    BY <2>1, CountWithin
  <2>3. MaxChunks[i] \in Nat /\ MaxEncodedLength[i] \in Nat
    BY ContractAssumption
  <2>4. Len(Decimal(MaxChunks[i])) \in Nat
    BY <2>3, DecimalType
  <2> QED  BY <2>1, <2>2, <2>3, <2>4
<1>3. /\ T \in Seq(Seq(Byte)) /\ Len(T) = 4 + n(1) + n(2) + n(3)
      /\ T[1] = Prefix /\ T[2] = Decimal(n(1)) /\ T[3] = Decimal(n(2)) /\ T[4] = Decimal(n(3))
      /\ \A k \in 1..n(1) : T[4 + k] = Chunk(f[1], k)
      /\ \A k \in 1..n(2) : T[4 + n(1) + k] = Chunk(f[2], k)
      /\ \A k \in 1..n(3) : T[4 + n(1) + n(2) + k] = Chunk(f[3], k)
  BY <1>1, TransportIs
<1>4. /\ n(1) \in Nat /\ n(2) \in Nat /\ n(3) \in Nat /\ L(1) \in Nat /\ L(2) \in Nat /\ L(3) \in Nat
      /\ d(1) \in Nat /\ d(2) \in Nat /\ d(3) \in Nat /\ Len(Prefix) \in Nat
      /\ f[1] \in Seq(Byte) /\ f[2] \in Seq(Byte) /\ f[3] \in Seq(Byte)
      /\ f[1] # <<>> /\ f[2] # <<>> /\ f[3] # <<>>
  BY <1>1, <1>2, ContractAssumption DEF FieldIndex
<1>5. /\ t[0] = 0
      /\ \A k \in 0..Len(T) : t[k] \in Nat
      /\ \A k \in 1..Len(T) : t[k] = t[k - 1] + Len(T[k])
  BY <1>3, SumIs
<1>6. t[4] = Len(Prefix) + d(1) + d(2) + d(3)
  <2> HIDE DEF T, t
  <2>1. 1 \in 1..Len(T) /\ 2 \in 1..Len(T) /\ 3 \in 1..Len(T) /\ 4 \in 1..Len(T)
    BY <1>3, <1>4
  <2>0. 1 - 1 = 0 /\ 2 - 1 = 1 /\ 3 - 1 = 2 /\ 4 - 1 = 3
    OBVIOUS
  <2>2. /\ t[1] = t[0] + Len(T[1]) /\ t[2] = t[1] + Len(T[2])
        /\ t[3] = t[2] + Len(T[3]) /\ t[4] = t[3] + Len(T[4])
    BY <1>5, <2>0, <2>1
  <2>6. T[1] = Prefix /\ T[2] = Decimal(n(1)) /\ T[3] = Decimal(n(2)) /\ T[4] = Decimal(n(3))
    BY <1>3
  <2>7. Len(T[2]) = d(1) /\ Len(T[3]) = d(2) /\ Len(T[4]) = d(3) /\ Len(T[1]) = Len(Prefix)
    BY <2>6
  <2> HIDE DEF n, d
  <2>8. Len(Prefix) \in Nat /\ d(1) \in Nat /\ d(2) \in Nat /\ d(3) \in Nat
    BY <1>4
  <2>3. t[1] = Len(Prefix)
    BY ONLY <1>5, <2>2, <2>7, <2>8
  <2>4. t[2] = Len(Prefix) + d(1)
    BY ONLY <2>2, <2>3, <2>7
  <2>5. t[3] = Len(Prefix) + d(1) + d(2)
    BY ONLY <2>2, <2>4, <2>7
  <2> QED  BY ONLY <2>2, <2>5, <2>7
<1>13. Len(T) = 4 + n(1) + n(2) + n(3)
  BY <1>3
<1>14. /\ 4 + n(1) <= Len(T) /\ 4 + n(1) + n(2) <= Len(T) /\ 4 + n(1) + n(2) + n(3) <= Len(T)
       /\ 4 \in Nat /\ 4 + n(1) \in Nat /\ 4 + n(1) + n(2) \in Nat
  <2>1. n(1) \in Nat /\ n(2) \in Nat /\ n(3) \in Nat
    BY <1>4
  <2> DEFINE l == Len(T)
  <2>2. l = 4 + n(1) + n(2) + n(3)
    BY <1>13
  <2> HIDE DEF n, l
  <2> QED  BY ONLY <2>1, <2>2 DEF l
<1>7. t[4 + n(1)] = t[4] + L(1)
  BY <1>3, <1>4, <1>14, ChunksSum
<1>8. t[4 + n(1) + n(2)] = t[4 + n(1)] + L(2)
  BY <1>3, <1>4, <1>14, ChunksSum
<1>9. t[4 + n(1) + n(2) + n(3)] = t[4 + n(1) + n(2)] + L(3)
  BY <1>3, <1>4, <1>14, ChunksSum
<1>10. BodyLength(T) = t[Len(T)] + Len(T) - 1
  BY <1>3, BodyLengthIs
<1>11. /\ Len(Prefix) + (Len(Decimal(MaxChunks[1])) + MaxEncodedLength[1] + MaxChunks[1])
                      + (Len(Decimal(MaxChunks[2])) + MaxEncodedLength[2] + MaxChunks[2])
                      + (Len(Decimal(MaxChunks[3])) + MaxEncodedLength[3] + MaxChunks[3]) + 3
            <= MaxTransportLength
       /\ MaxTransportLength \in Nat
  BY LimitsAssumption, ContractAssumption
<1> HIDE DEF T, t, L, n, d
<1>12. BodyLength(T) <= MaxTransportLength
  <2>0. /\ n(1) \in Nat /\ n(2) \in Nat /\ n(3) \in Nat /\ L(1) \in Nat /\ L(2) \in Nat
        /\ L(3) \in Nat /\ d(1) \in Nat /\ d(2) \in Nat /\ d(3) \in Nat /\ Len(Prefix) \in Nat
    BY <1>4
  <2>1. BodyLength(T) = (Len(Prefix) + d(1) + d(2) + d(3)) + L(1) + L(2) + L(3)
                        + (4 + n(1) + n(2) + n(3)) - 1
    BY <1>3, <1>4, <1>6, <1>7, <1>8, <1>9, <1>10
  <2>2. 1 \in FieldIndex /\ 2 \in FieldIndex /\ 3 \in FieldIndex
    BY DEF FieldIndex
  <2>3. /\ d(1) + L(1) + n(1) <= Len(Decimal(MaxChunks[1])) + MaxEncodedLength[1] + MaxChunks[1]
        /\ d(2) + L(2) + n(2) <= Len(Decimal(MaxChunks[2])) + MaxEncodedLength[2] + MaxChunks[2]
        /\ d(3) + L(3) + n(3) <= Len(Decimal(MaxChunks[3])) + MaxEncodedLength[3] + MaxChunks[3]
    <3> DEFINE D(i) == Len(Decimal(MaxChunks[i]))
               E(i) == MaxEncodedLength[i]
               M(i) == MaxChunks[i]
    <3>1. \A i \in FieldIndex : /\ d(i) \in Nat /\ d(i) <= D(i) /\ D(i) \in Nat
                                /\ L(i) \in Nat /\ L(i) <= E(i) /\ E(i) \in Nat
                                /\ n(i) \in Nat /\ n(i) <= M(i) /\ M(i) \in Nat
      BY <1>2
    <3> HIDE DEF D, E, M
    <3>2. \A i \in FieldIndex : d(i) + L(i) + n(i) <= D(i) + E(i) + M(i)
      BY <3>1
    <3> QED  BY <2>2, <3>2 DEF D, E, M
  <2>4. \A i \in FieldIndex : Len(Decimal(MaxChunks[i])) + MaxEncodedLength[i] + MaxChunks[i] \in Nat
    BY <1>2
  <2>5. /\ Len(Decimal(MaxChunks[1])) + MaxEncodedLength[1] + MaxChunks[1] \in Nat
        /\ Len(Decimal(MaxChunks[2])) + MaxEncodedLength[2] + MaxChunks[2] \in Nat
        /\ Len(Decimal(MaxChunks[3])) + MaxEncodedLength[3] + MaxChunks[3] \in Nat
    BY <2>2, <2>4
  <2> DEFINE r1 == Len(Decimal(MaxChunks[1])) + MaxEncodedLength[1] + MaxChunks[1]
             r2 == Len(Decimal(MaxChunks[2])) + MaxEncodedLength[2] + MaxChunks[2]
             r3 == Len(Decimal(MaxChunks[3])) + MaxEncodedLength[3] + MaxChunks[3]
  <2>6. /\ Len(Prefix) + r1 + r2 + r3 + 3 <= MaxTransportLength
        /\ r1 \in Nat /\ r2 \in Nat /\ r3 \in Nat /\ MaxTransportLength \in Nat
        /\ d(1) + L(1) + n(1) <= r1 /\ d(2) + L(2) + n(2) <= r2 /\ d(3) + L(3) + n(3) <= r3
    BY <1>11, <2>3, <2>5
  <2> HIDE DEF r1, r2, r3
  <2>7. (Len(Prefix) + d(1) + d(2) + d(3)) + L(1) + L(2) + L(3) + (4 + n(1) + n(2) + n(3)) - 1
            <= MaxTransportLength
    <3> DEFINE p == Len(Prefix)   m == MaxTransportLength
               d1 == d(1)  d2 == d(2)  d3 == d(3)
               l1 == L(1)  l2 == L(2)  l3 == L(3)
               n1 == n(1)  n2 == n(2)  n3 == n(3)
    <3>1. /\ p \in Nat /\ m \in Nat
          /\ d1 \in Nat /\ d2 \in Nat /\ d3 \in Nat
          /\ l1 \in Nat /\ l2 \in Nat /\ l3 \in Nat
          /\ n1 \in Nat /\ n2 \in Nat /\ n3 \in Nat
      BY <2>0, <2>6
    <3>2. /\ r1 \in Nat /\ r2 \in Nat /\ r3 \in Nat /\ p + r1 + r2 + r3 + 3 <= m
          /\ d1 + l1 + n1 <= r1 /\ d2 + l2 + n2 <= r2 /\ d3 + l3 + n3 <= r3
      BY <2>6
    <3>3. (p + d1 + d2 + d3) + l1 + l2 + l3 + (4 + n1 + n2 + n3) - 1 <= m
      <4> HIDE DEF p, m, d1, d2, d3, l1, l2, l3, n1, n2, n3
      <4> QED  BY ONLY <3>1, <3>2
    <3> QED  BY <3>3
  <2> QED  BY ONLY <2>1, <2>7
<1> QED  BY <1>2, <1>12, <1>1 DEF Encodable, n, L, T, Admitted

----------------------------------------------------------------------------
(***************************************************************************)
(* What the decoder makes of a transport.  It never turns one down: the    *)
(* header, the counts, the chunks and the lengths it checks are those the  *)
(* encoder wrote.                                                          *)
(***************************************************************************)
Coming == origin # NoFragment =>
              Admitted(origin) /\ body = Transport(origin) /\ pc # "reject"

\* Two numbers below 100 are not spelled alike.
LEMMA DecimalOnce ==
    ASSUME NEW m \in Nat, NEW n \in Nat, Decimal(m) = Decimal(n)
    PROVE  m = n
<1> DEFINE a == m \div 10
           b == m % 10
           c == n \div 10
           d == n % 10
<1>1. /\ a \in Nat /\ b \in 0..9 /\ m = 10 * a + b
      /\ c \in Nat /\ d \in 0..9 /\ n = 10 * c + d
  OBVIOUS
<1>2. Decimal(m) = IF m < 10 THEN <<m>> ELSE <<a, b>>
  BY DEF Decimal
<1>3. Decimal(n) = IF n < 10 THEN <<n>> ELSE <<c, d>>
  BY DEF Decimal
<1> HIDE DEF a, b, c, d
<1>4. CASE m < 10 /\ n < 10
  <2>1. <<m>>[1] = <<n>>[1]
    BY <1>2, <1>3, <1>4
  <2> QED  BY <2>1
<1>5. CASE ~(m < 10) /\ ~(n < 10)
  <2>1. <<a, b>>[1] = <<c, d>>[1] /\ <<a, b>>[2] = <<c, d>>[2]
    BY <1>2, <1>3, <1>5
  <2>2. a = c /\ b = d
    BY <2>1
  <2> QED  BY <1>1, <2>2
<1>6. CASE m < 10 /\ ~(n < 10)
  <2>1. Len(<<m>>) = Len(<<c, d>>)
    BY <1>2, <1>3, <1>6
  <2> QED  BY <2>1
<1>7. CASE ~(m < 10) /\ n < 10
  <2>1. Len(<<n>>) = Len(<<a, b>>)
    BY <1>2, <1>3, <1>7
  <2> QED  BY <2>1
<1> QED  BY <1>4, <1>5, <1>6, <1>7

\* A field is determined by its chunks.
LEMMA SameChunks ==
    ASSUME NEW v \in Seq(Byte), NEW w \in Seq(Byte), NEW n \in Nat, n > 0,
           (n - 1) * C < Len(v), Len(v) <= n * C,
           (n - 1) * C < Len(w), Len(w) <= n * C,
           \A k \in 1..n : Chunk(v, k) = Chunk(w, k)
    PROVE  v = w
<1>1. /\ Len(v) \in Nat /\ Len(w) \in Nat /\ (n - 1) * C \in Nat
      /\ C \in Nat /\ C > 0 /\ n * C \in Nat /\ n * C = (n - 1) * C + C
  <2> DEFINE e == (n - 1) * C
             f == n * C
  <2>1. e \in Nat /\ f \in Nat /\ C \in Nat /\ C > 0 /\ e = f - C
    BY NextProduct
  <2>2. Len(v) \in Nat /\ Len(w) \in Nat
    OBVIOUS
  <2> HIDE DEF e, f
  <2>3. f = e + C
    BY <2>1
  <2> QED  BY <2>1, <2>2, <2>3 DEF e, f
<1>2. Len(v) = Len(w)
  <2>1. Len(Chunk(v, n)) = Len(v) - (n - 1) * C
    BY <1>1, LastChunk
  <2>2. Len(Chunk(w, n)) = Len(w) - (n - 1) * C
    BY <1>1, LastChunk
  <2>3. Chunk(v, n) = Chunk(w, n)
    OBVIOUS
  <2> DEFINE e == (n - 1) * C
  <2>4. Len(v) - e = Len(w) - e /\ e \in Nat
    BY <1>1, <2>1, <2>2, <2>3
  <2> HIDE DEF e
  <2> QED  BY <1>1, <2>4
<1>3. ASSUME NEW j \in 1..Len(v)
      PROVE  v[j] = w[j]
  <2> DEFINE q == (j - 1) \div C
             k == q + 1
             i == j - q * C
  <2>1. q \in Nat /\ q * C <= j - 1 /\ j - 1 < q * C + C
    <3> DEFINE m == j - 1
    <3>1. m \in Nat
      BY <1>1
    <3> HIDE DEF m
    <3>2. m \div C \in Nat /\ (m \div C) * C <= m /\ m < (m \div C) * C + C
      BY <1>1, <3>1
    <3> QED  BY <3>2 DEF m
  <2> HIDE DEF q
  <2>2. /\ q * C \in Nat /\ k \in Nat /\ k > 0 /\ k - 1 = q /\ k * C = q * C + C /\ k * C \in Nat
    BY <2>1, NextProduct
  <2>3. ~(n < k)
    <3> SUFFICES ASSUME n < k PROVE FALSE
      OBVIOUS
    <3>1. n <= q
      BY <2>1
    <3>2. n * C <= q * C
      BY <2>1, <3>1, Product
    <3> QED  BY <1>1, <2>1, <2>2, <3>2
  <2>4. k \in 1..n /\ Chunk(v, k) = Chunk(w, k)
    BY <2>2, <2>3
  <2>5. i \in Nat /\ i > 0 /\ i <= C /\ j = q * C + i /\ q * C <= Len(v) /\ j \in Nat /\ j <= Len(v)
    BY <1>1, <2>1, <2>2
  <2> DEFINE to == IF k * C < Len(v) THEN k * C ELSE Len(v)
  <2>6. i \in 1..(to - q * C)
    <3> DEFINE e == q * C
               f == k * C
    <3>1. /\ e \in Nat /\ f \in Nat /\ f = e + C /\ Len(v) \in Nat /\ C \in Nat
          /\ i \in Nat /\ i > 0 /\ i <= C /\ j = e + i /\ j <= Len(v)
      BY <1>1, <2>2, <2>5
    <3> HIDE DEF e, f, i
    <3>2. i \in 1..((IF f < Len(v) THEN f ELSE Len(v)) - e)
      BY <3>1
    <3> QED  BY <3>2 DEF e, f
  <2> HIDE DEF i, k
  <2>7. (k - 1) * C <= Len(v) /\ (k - 1) * C <= Len(w)
    BY <1>2, <2>2, <2>5
  <2>8. \A x \in 1..(to - (k - 1) * C) : Chunk(v, k)[x] = v[(k - 1) * C + x]
    BY ONLY v \in Seq(Byte), <2>2, <2>7, ChunkIs
  <2>9. \A x \in 1..(to - (k - 1) * C) : Chunk(w, k)[x] = w[(k - 1) * C + x]
    BY ONLY w \in Seq(Byte), <1>2, <2>2, <2>7, ChunkIs
  <2>10. Chunk(v, k)[i] = v[j] /\ Chunk(w, k)[i] = w[j]
    <3>1. (k - 1) * C + i = j
      BY <2>2, <2>5
    <3>2. i \in 1..(to - (k - 1) * C)
      BY <2>2, <2>6
    <3> HIDE DEF to
    <3> QED  BY ONLY <2>8, <2>9, <3>1, <3>2
  <2> QED  BY <2>4, <2>10
<1> QED  BY <1>2, <1>3, SeqEqual

\* The overflow test lets a digit through that keeps within the maximum.
LEMMA DigitFits ==
    ASSUME NEW max \in Nat, NEW v \in Nat, NEW d \in 0..9, v * 10 + d <= max
    PROVE  ~(v > max \div 10 \/ (v = max \div 10 /\ d > max % 10))
<1> DEFINE q == max \div 10
           r == max % 10
<1>1. q \in Nat /\ r \in 0..9 /\ max = 10 * q + r
  OBVIOUS
<1> HIDE DEF q, r
<1>2. ~(v > q) /\ ~(v = q /\ d > r)
  BY <1>1
<1> QED  BY <1>2 DEF q, r

Written(i) == ChunkCount(origin[i])

\* The parts of an input that has an origin.
LEMMA WrittenIs ==
    ASSUME Coming, origin # NoFragment
    PROVE  /\ origin \in Fragment /\ Encodable(origin)
           /\ Len(body) = 4 + Written(1) + Written(2) + Written(3) /\ body[1] = Prefix
           /\ \A i \in FieldIndex :
                 /\ origin[i] \in Seq(Byte) /\ origin[i] # <<>> /\ InAlphabet(origin[i])
                 /\ Len(origin[i]) <= MaxEncodedLength[i]
                 /\ Written(i) \in Nat /\ Written(i) > 0 /\ Written(i) <= MaxChunks[i]
                 /\ body[i + 1] = Decimal(Written(i))
           /\ \A k \in 1..Written(1) : body[4 + k] = Chunk(origin[1], k)
           /\ \A k \in 1..Written(2) : body[4 + Written(1) + k] = Chunk(origin[2], k)
           /\ \A k \in 1..Written(3) : body[4 + Written(1) + Written(2) + k] = Chunk(origin[3], k)
<1>1. Admitted(origin) /\ body = Transport(origin)
  BY DEF Coming
<1>2. /\ origin \in Fragment
      /\ \A i \in FieldIndex : /\ origin[i] \in Seq(Byte) /\ origin[i] # <<>>
                               /\ Len(origin[i]) <= MaxEncodedLength[i] /\ InAlphabet(origin[i])
  BY <1>1 DEF Admitted, Fragment
<1>3. /\ Len(body) = 4 + Written(1) + Written(2) + Written(3) /\ body[1] = Prefix
      /\ body[2] = Decimal(Written(1)) /\ body[3] = Decimal(Written(2)) /\ body[4] = Decimal(Written(3))
      /\ \A k \in 1..Written(1) : body[4 + k] = Chunk(origin[1], k)
      /\ \A k \in 1..Written(2) : body[4 + Written(1) + k] = Chunk(origin[2], k)
      /\ \A k \in 1..Written(3) : body[4 + Written(1) + Written(2) + k] = Chunk(origin[3], k)
  BY <1>1, <1>2, TransportIs DEF Written
<1>4. \A i \in FieldIndex : Written(i) \in Nat /\ Written(i) > 0 /\ Written(i) <= MaxChunks[i]
  BY <1>2, CountWithin DEF Written
<1>5. \A i \in FieldIndex : body[i + 1] = Decimal(Written(i))
  <2>1. body[1 + 1] = Decimal(Written(1)) /\ body[2 + 1] = Decimal(Written(2)) /\ body[3 + 1] = Decimal(Written(3))
    BY <1>3
  <2>2. \A i \in FieldIndex : i = 1 \/ i = 2 \/ i = 3
    BY DEF FieldIndex
  <2> QED  BY <2>1, <2>2
<1>6. Encodable(origin)
  BY <1>1, AdmittedFits
<1> QED  BY <1>2, <1>3, <1>4, <1>5, <1>6

\* The counts the decoder parses are those the encoder wrote.
LEMMA CountWritten ==
    ASSUME IInv, Coming, origin # NoFragment, NEW i \in FieldIndex, Spelled(i)
    PROVE  counts[i] = Written(i)
<1>1. counts[i] \in Nat
  BY DEF IInv, TypeOK
<1>2. Written(i) \in Nat /\ body[i + 1] = Decimal(Written(i))
  BY WrittenIs
<1>3. Decimal(counts[i]) = Decimal(Written(i))
  BY <1>2 DEF Spelled
<1> QED  BY <1>1, <1>2, <1>3, DecimalOnce

\* All three of them, once they are read.
LEMMA CountsWritten ==
    ASSUME IInv, SpellInv, Coming, origin # NoFragment, pc \in Counted
    PROVE  \A i \in FieldIndex : counts[i] = Written(i)
<1>1. \A i \in FieldIndex : Spelled(i)
  BY DEF SpellInv, CountsOK
<1> QED  BY <1>1, CountWritten

\* And so are the chunks.
LEMMA ChunkWritten ==
    ASSUME IInv, SpellInv, Coming, origin # NoFragment, pc \in Counted,
           NEW i \in FieldIndex, NEW k \in 1..counts[i]
    PROVE  body[From(i) + k] = Chunk(origin[i], k)
<1>1. counts[1] = Written(1) /\ counts[2] = Written(2) /\ counts[3] = Written(3)
  BY CountsWritten DEF FieldIndex
<1>2. /\ \A j \in 1..counts[1] : body[4 + j] = Chunk(origin[1], j)
      /\ \A j \in 1..counts[2] : body[4 + counts[1] + j] = Chunk(origin[2], j)
      /\ \A j \in 1..counts[3] : body[4 + counts[1] + counts[2] + j] = Chunk(origin[3], j)
  BY <1>1, WrittenIs
<1>3. i = 1 \/ i = 2 \/ i = 3
  BY DEF FieldIndex
<1>4. CASE i = 1  BY <1>2, <1>4 DEF From
<1>5. CASE i = 2  BY <1>2, <1>5 DEF From
<1>6. CASE i = 3  BY <1>2, <1>6 DEF From
<1> QED  BY <1>3, <1>4, <1>5, <1>6

\* A complete field is that of the fragment that was encoded.
LEMMA CompleteIsOrigin ==
    ASSUME IInv, SpellInv, Coming, origin # NoFragment, pc \in Counted,
           NEW i \in FieldIndex, MadeOf(i, counts[i])
    PROVE  fields[i] = origin[i]
<1> DEFINE n == counts[i]
           v == fields[i]
           w == origin[i]
<1>1. n = Written(i) /\ n \in Nat /\ n > 0 /\ w \in Seq(Byte) /\ w # <<>>
  BY CountsWritten, WrittenIs
<1>2. v \in Seq(Byte)
  BY DEF IInv, TypeOK, Fragment
<1>3. (n - 1) * C < Len(v) /\ Len(v) <= n * C
  BY DEF MadeOf
<1>4. (n - 1) * C < Len(w) /\ Len(w) <= n * C
  <2>1. n = ChunkCount(w)
    BY <1>1 DEF Written
  <2> HIDE DEF n, w
  <2> QED  BY <1>1, <2>1, CountBounds
<1>5. \A k \in 1..n : Chunk(v, k) = Chunk(w, k)
  BY ChunkWritten DEF MadeOf
<1> HIDE DEF n, v, w
<1>6. v = w
  BY <1>1, <1>2, <1>3, <1>4, <1>5, SameChunks
<1> QED  BY <1>6 DEF v, w

\* An input with an origin is its transport.
LEMMA InitComing == Init => Coming
<1> SUFFICES ASSUME Init, origin # NoFragment
             PROVE  Admitted(origin) /\ body = Transport(origin) /\ pc # "reject"
  BY DEF Coming
<1>1. PICK input \in Inputs : body = input.body /\ origin = input.origin
  BY DEF Init
<1>2. /\ body = Transport(origin) /\ origin \in Fragment
      /\ \A i \in FieldIndex : /\ origin[i] # <<>> /\ Len(origin[i]) <= MaxEncodedLength[i]
                               /\ InAlphabet(origin[i])
  BY <1>1, EncodedAssumption, InputsAssumption
<1> QED  BY <1>2 DEF Init, Admitted

\* The header test lets a transport through.
LEMMA HeaderComes == IInv /\ SpellInv /\ Coming /\ CheckHeader => Coming'
<1> SUFFICES ASSUME IInv, SpellInv, Coming, CheckHeader, origin # NoFragment PROVE Coming'
  BY DEF Coming, CheckHeader, Reject
<1>1. ~(BodyLength(body) > MaxTransportLength)
  <2>1. Encodable(origin) /\ body = Transport(origin) /\ body \in Seq(Seq(Byte))
    BY WrittenIs DEF Coming, IInv, TypeOK
  <2>2. BodyLength(body) <= MaxTransportLength /\ BodyLength(body) \in Int /\ MaxTransportLength \in Nat
    BY <2>1, BodyLengthIs, ContractAssumption DEF Encodable
  <2> QED  BY <2>2
<1>2. ~(Len(body) < 4) /\ body[1] = Prefix
  <2>1. /\ Len(body) = 4 + Written(1) + Written(2) + Written(3) /\ body[1] = Prefix
        /\ Written(1) \in Nat /\ Written(2) \in Nat /\ Written(3) \in Nat
    BY WrittenIs DEF FieldIndex
  <2> QED  BY <2>1
<1>3. pc' = "count" /\ UNCHANGED <<body, origin>>
  BY <1>1, <1>2 DEF CheckHeader
<1> QED  BY <1>3 DEF Coming

\* The token that is read is the decimal of the number of chunks.
LEMMA TokenWritten ==
    ASSUME IInv, Coming, origin # NoFragment, pc = "count"
    PROVE  LET n == Written(field)
           IN  /\ n \in Nat /\ n > 0 /\ n <= MaxChunks[field] /\ MaxChunks[field] \in Nat /\ n < 100
               /\ Token = Decimal(n)
               /\ n < 10 => Len(Token) = 1 /\ Token[1] = n
               /\ ~(n < 10) => /\ Len(Token) = 2 /\ Token[1] = n \div 10 /\ Token[2] = n % 10
<1> DEFINE n == Written(field)
<1>1. field \in FieldIndex /\ MaxChunks[field] \in Nat /\ MaxChunks[field] < 100
  BY TokenFacts DEF FieldIndex
<1>2. n \in Nat /\ n > 0 /\ n <= MaxChunks[field] /\ Token = Decimal(n)
  BY <1>1, WrittenIs DEF Token
<1> HIDE DEF n
<1>3. n < 100
  BY <1>1, <1>2
<1>4. n < 10 => Token = <<n>>
  BY <1>2 DEF Decimal
<1>5. ~(n < 10) => Token = <<n \div 10, n % 10>>
  BY <1>2 DEF Decimal
<1>6. n < 10 => Len(Token) = 1 /\ Token[1] = n
  BY <1>4
<1>7. ~(n < 10) => Len(Token) = 2 /\ Token[1] = n \div 10 /\ Token[2] = n % 10
  BY <1>5
<1> QED  BY <1>1, <1>2, <1>3, <1>6, <1>7 DEF n

\* A count of the encoder has no leading zero.
LEMMA NotMalformed ==
    ASSUME IInv, Coming, origin # NoFragment, pc = "count"
    PROVE  ~CountMalformed
<1> DEFINE n == Written(field)
<1>1. /\ n \in Nat /\ n > 0
      /\ n < 10 => Len(Token) = 1 /\ Token[1] = n
      /\ ~(n < 10) => Len(Token) = 2 /\ Token[1] = n \div 10
  BY TokenWritten
<1> HIDE DEF n
<1>2. ~(n < 10) => n \div 10 # 0
  BY <1>1
<1>3. Token[1] # 0 /\ Len(Token) # 0
  BY <1>1, <1>2
<1>4. Token # <<>>
  BY <1>3
<1> QED  BY <1>3, <1>4 DEF CountMalformed

\* The overflow test lets its digits through.
LEMMA DigitComes == IInv /\ SpellInv /\ Coming /\ ReadDigit => Coming'
<1> SUFFICES ASSUME IInv, SpellInv, Coming, ReadDigit, origin # NoFragment PROVE Coming'
  BY DEF Coming, ReadDigit, Reject
<1> DEFINE d == Token[digit + 1]
           n == Written(field)
           max == MaxChunks[field]
<1>1. pc = "count" /\ digit < Len(Token) /\ digit \in Nat /\ value \in Nat /\ Digits
  BY DEF ReadDigit, SpellInv, CountsOK, IInv, TypeOK
<1>2. /\ n \in Nat /\ n > 0 /\ n <= max /\ max \in Nat /\ n < 100
      /\ n < 10 => Len(Token) = 1 /\ Token[1] = n
      /\ ~(n < 10) => Len(Token) = 2 /\ Token[1] = n \div 10 /\ Token[2] = n % 10
  BY <1>1, TokenWritten
<1> HIDE DEF n, max
<1>3. n \div 10 \in 0..9 /\ n % 10 \in 0..9 /\ (n \div 10) * 10 + (n % 10) = n
  BY <1>2
<1>4. d \in 0..9 /\ value * 10 + d <= max
  <2>1. CASE digit = 0
    <3>1. value = 0 /\ d = Token[1]
      BY <1>1, <2>1 DEF Digits
    <3>2. d \in 0..9 /\ d <= n
      <4> HIDE DEF d
      <4>1. CASE n < 10  BY <1>2, <3>1, <4>1
      <4>2. CASE ~(n < 10)  BY <1>2, <1>3, <3>1, <4>2
      <4> QED  BY <4>1, <4>2
    <3> HIDE DEF d
    <3> QED  BY <1>2, <3>1, <3>2
  <2>2. CASE digit # 0
    <3>0. (n < 10 => Len(Token) = 1) /\ (~(n < 10) => Len(Token) = 2)
      BY <1>2
    <3>1. ~(n < 10) /\ digit = 1
      <4> DEFINE l == Len(Token)
      <4>1. digit < l /\ digit \in Nat
        BY <1>1
      <4>2. (n < 10 => l = 1) /\ (~(n < 10) => l = 2)
        BY <3>0
      <4> HIDE DEF l
      <4>3. CASE n < 10
        BY <2>2, <4>1, <4>2, <4>3
      <4>4. CASE ~(n < 10)
        BY <2>2, <4>1, <4>2, <4>4
      <4> QED  BY <4>3, <4>4
    <3>2. value = Token[1] /\ d = Token[2]
      BY <1>1, <3>1 DEF Digits
    <3> HIDE DEF d
    <3> QED  BY <1>2, <1>3, <3>1, <3>2
  <2> QED  BY <2>1, <2>2
<1> HIDE DEF d
<1>5. ~(value > max \div 10 \/ (value = max \div 10 /\ d > max % 10)) /\ ~(d > 9)
  BY <1>1, <1>2, <1>4, DigitFits
<1>6. ~(d > 9 \/ Exceeds(d))
  BY <1>5 DEF Exceeds, max
<1>7. pc' = pc /\ UNCHANGED <<body, origin>>
  BY <1>6 DEF ReadDigit, d
<1> QED  BY <1>7 DEF Coming

\* And none of its counts is malformed.
LEMMA CountComes == IInv /\ Coming /\ (RejectCount \/ EndCount) => Coming'
<1>1. ASSUME IInv, Coming, EndCount PROVE Coming'
  BY <1>1 DEF EndCount, Coming
<1>2. ASSUME IInv, Coming, RejectCount PROVE Coming'
  BY <1>2, NotMalformed DEF RejectCount, Reject, Coming
<1> QED  BY <1>1, <1>2

\* The parts are as many as the counts say.
LEMMA ShapeComes == IInv /\ SpellInv /\ Coming /\ CheckShape => Coming'
<1> SUFFICES ASSUME IInv, SpellInv, Coming, CheckShape, origin # NoFragment PROVE Coming'
  BY DEF Coming, CheckShape, Reject
<1>1. counts[1] = Written(1) /\ counts[2] = Written(2) /\ counts[3] = Written(3)
  BY CountsWritten DEF FieldIndex, CheckShape, Counted
<1>2. /\ Len(body) = 4 + Written(1) + Written(2) + Written(3)
      /\ Written(1) \in Nat /\ Written(2) \in Nat /\ Written(3) \in Nat
  BY WrittenIs DEF FieldIndex
<1>3. ShapeHolds
  BY <1>1, <1>2 DEF ShapeHolds, Declared
<1>4. pc' = "chunk" /\ UNCHANGED <<body, origin>>
  BY <1>3 DEF CheckShape
<1> QED  BY <1>4 DEF Coming

\* A chunk of the encoder is one the decoder takes.
LEMMA ChunkTaken ==
    ASSUME NEW v \in Seq(Byte), v # <<>>, InAlphabet(v), NEW k \in 1..ChunkCount(v)
    PROVE  LET w == Chunk(v, k)
           IN  /\ Len(w) \in Nat /\ Len(w) # 0 /\ Len(w) <= C
               /\ k < ChunkCount(v) => Len(w) = C
               /\ InAlphabet(w)
<1> DEFINE n == ChunkCount(v)
           w == Chunk(v, k)
           e == (k - 1) * C
           f == k * C
           g == (n - 1) * C
           to == IF f < Len(v) THEN f ELSE Len(v)
<1>1. n \in Nat /\ n > 0 /\ g < Len(v) /\ Len(v) \in Nat
  BY CountBounds
<1>2. k \in Nat /\ k > 0 /\ k - 1 <= n - 1 /\ k - 1 \in Nat /\ n - 1 \in Nat /\ k <= n
  <2>1. k \in 1..n
    OBVIOUS
  <2> HIDE DEF n
  <2> QED  BY <1>1, <2>1
<1>3. /\ C \in Nat /\ C > 0 /\ e \in Nat /\ f \in Nat /\ g \in Nat /\ e = f - C
      /\ e <= g /\ (k < n => f <= g)
  <2>1. C \in Nat /\ C > 0 /\ e \in Nat /\ f \in Nat /\ e = f - C
    BY <1>2, NextProduct
  <2>2. g \in Nat /\ e <= g
    BY <1>2, Product
  <2>3. k < n => f <= g
    <3> SUFFICES ASSUME k < n PROVE f <= g
      OBVIOUS
    <3>1. k <= n - 1
      <4> HIDE DEF n
      <4> QED  BY <1>1, <1>2
    <3> QED  BY <1>2, <3>1, Product
  <2> QED  BY <2>1, <2>2, <2>3
<1>4. /\ Len(w) = to - e
      /\ \A i \in 1..(to - e) : w[i] = v[e + i]
  <2>1. e <= Len(v)
    <3> HIDE DEF e, g
    <3> QED  BY <1>1, <1>3
  <2> QED  BY <1>2, <2>1, ChunkIs
<1>5. \A i \in 1..Len(v) : v[i] <= LastAlphabetByte
  BY DEF InAlphabet
<1> HIDE DEF w, e, f, g, n
<1>6. /\ to - e \in Nat /\ to - e # 0 /\ to - e <= C /\ to <= Len(v) /\ to \in Nat
      /\ k < n => to - e = C
  BY <1>1, <1>3
<1> HIDE DEF to
<1>7. InAlphabet(w)
  <2> SUFFICES ASSUME NEW i \in 1..Len(w) PROVE w[i] <= LastAlphabetByte
    BY DEF InAlphabet
  <2>1. i \in 1..(to - e)
    BY <1>4
  <2>2. e + i \in 1..Len(v)
    BY <1>1, <1>3, <1>6, <2>1
  <2> QED  BY <1>4, <1>5, <2>1, <2>2
<1>8. Len(w) \in Nat /\ Len(w) # 0 /\ Len(w) <= C /\ (k < n => Len(w) = C)
  BY <1>4, <1>6
<1> QED  BY <1>7, <1>8 DEF w, n

\* Every chunk is taken.
LEMMA ChunkComes == IInv /\ SpellInv /\ Coming /\ ReadChunk => Coming'
<1> SUFFICES ASSUME IInv, SpellInv, Coming, ReadChunk, origin # NoFragment PROVE Coming'
  BY DEF Coming, ReadChunk, Reject
<1> DEFINE k == taken + 1
           v == origin[field]
<1>1. pc = "chunk" /\ taken < counts[field] /\ pc \in Counted
  BY DEF ReadChunk, Counted
<1>2. /\ field \in FieldIndex /\ part = From(field) + taken /\ From(field) \in Nat
      /\ taken \in Nat /\ counts[field] \in Nat
  BY <1>1, CursorIs DEF IInv, TypeOK
<1>3. k \in 1..counts[field] /\ part + 1 = From(field) + k
  BY <1>1, <1>2
<1>4. Current = Chunk(v, k)
  BY <1>1, <1>2, <1>3, ChunkWritten DEF Current
<1>5. counts[field] = ChunkCount(v) /\ v \in Seq(Byte) /\ v # <<>> /\ InAlphabet(v)
  BY <1>1, <1>2, CountsWritten, WrittenIs DEF Written
<1> HIDE DEF v
<1>6. /\ Len(Current) \in Nat /\ Len(Current) # 0 /\ Len(Current) <= C
      /\ k < counts[field] => Len(Current) = C
      /\ InAlphabet(Current)
  BY <1>3, <1>4, <1>5, ChunkTaken
<1>7. ~ChunkInvalid
  <2>1. C \in Nat
    BY NextProduct
  <2>2. ~(Len(Current) > ComponentMax)
    BY <1>6, <2>1 DEF C
  <2>3. ~Ragged
    BY <1>6 DEF Ragged, C
  <2> QED  BY <1>6, <2>2, <2>3 DEF ChunkInvalid
<1>8. pc' = pc /\ UNCHANGED <<body, origin>>
  BY <1>7 DEF ReadChunk
<1> QED  BY <1>8 DEF Coming

\* And no field is too long.
LEMMA EndComes == IInv /\ SpellInv /\ Coming /\ EndField => Coming'
<1> SUFFICES ASSUME IInv, SpellInv, Coming, EndField, origin # NoFragment PROVE Coming'
  BY DEF Coming, EndField, Reject
<1>1. pc = "chunk" /\ taken = counts[field] /\ pc \in Counted /\ field \in FieldIndex
  BY DEF EndField, Counted, IInv, TypeOK
<1>2. MadeOf(field, counts[field]) /\ fieldLen = Len(fields[field])
  BY <1>1 DEF SpellInv, ChunksOK
<1>3. fields[field] = origin[field]
  BY <1>1, <1>2, CompleteIsOrigin
<1>4. fieldLen <= MaxEncodedLength[field] /\ fieldLen \in Nat /\ MaxEncodedLength[field] \in Nat
  BY <1>1, <1>2, <1>3, WrittenIs, ContractAssumption DEF IInv, TypeOK
<1>5. ~TooLong
  BY <1>4 DEF TooLong
<1>6. pc' \in {"chunk", "accept"} /\ UNCHANGED <<body, origin>>
  BY <1>1, <1>5 DEF EndField
<1> QED  BY <1>6 DEF Coming

\* No step turns a transport down.
LEMMA ComingKept == IInv /\ SpellInv /\ Coming /\ [Next]_vars => Coming'
<1> SUFFICES ASSUME IInv, SpellInv, Coming, [Next]_vars PROVE Coming'
  OBVIOUS
<1>1. CASE CheckHeader  BY <1>1, HeaderComes
<1>2. CASE ReadDigit    BY <1>2, DigitComes
<1>3. CASE RejectCount \/ EndCount  BY <1>3, CountComes
<1>4. CASE CheckShape   BY <1>4, ShapeComes
<1>5. CASE ReadChunk    BY <1>5, ChunkComes
<1>6. CASE EndField     BY <1>6, EndComes
<1>7. CASE UNCHANGED vars  BY <1>7 DEF vars, Coming
<1> QED  BY <1>1, <1>2, <1>3, <1>4, <1>5, <1>6, <1>7 DEF Next

\* What the encoder made comes back.
LEMMA ComesBack == IInv /\ SpellInv /\ Coming => RoundTrip
<1> SUFFICES ASSUME IInv, SpellInv, Coming, origin # NoFragment
             PROVE  Encodable(origin) /\ pc # "reject" /\ (pc = "accept" => fields = origin)
  BY DEF RoundTrip
<1>1. Encodable(origin) /\ pc # "reject" /\ origin \in Fragment
  BY WrittenIs DEF Coming
<1>2. ASSUME pc = "accept" PROVE fields = origin
  <2>1. \A i \in FieldIndex : MadeOf(i, counts[i])
    BY <1>2 DEF SpellInv, ChunksOK, Complete
  <2>2. \A i \in FieldIndex : fields[i] = origin[i]
    BY <1>2, <2>1, CompleteIsOrigin DEF Counted
  <2> QED  BY <1>1, <2>2 DEF Fragment, IInv, TypeOK
<1> QED  BY <1>1, <1>2

(***************************************************************************)
(* Encoder and decoder are inverse to each other, whatever the limits of   *)
(* the contract, as long as they agree: what decodeConformanceTransport    *)
(* accepts is the encoding of what it returns, and what the encoder makes  *)
(* of a canonical fragment it accepts and gives back.                      *)
(***************************************************************************)
THEOREM CodecExact == Spec => []CodecIsExact
<1>1. IInv /\ SpellInv /\ Coming => CodecIsExact
  BY AcceptedIsTransport, ComesBack DEF CodecIsExact
<1>2. Init => IInv /\ SpellInv /\ Coming
  BY InitIInv, InitSpell, InitComing
<1>3. (IInv /\ SpellInv /\ Coming) /\ [Next]_vars => (IInv /\ SpellInv /\ Coming)'
  BY NextKeeps, SpellKeeps, ComingKept
<1> QED  BY <1>1, <1>2, <1>3, PTL DEF Spec
=============================================================================
