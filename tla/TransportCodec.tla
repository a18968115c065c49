--------------------------- MODULE TransportCodec ---------------------------
(***************************************************************************)
(* The share-safe qv2t1 transport of a qURL fragment.  The encoder of the  *)
(* vector generator (EncodeTransportFragment) cuts the three fields of a   *)
(* canonical fragment into chunks of at most ComponentMax bytes behind a   *)
(* header of three chunk counts; the loader's decoder                      *)
(* (decodeConformanceTransport) checks the framing and puts the fragment   *)
(* together again.  The decoder is a machine that reads one count digit or *)
(* one chunk per step, so that every index it uses is a state.             *)
(*                                                                         *)
(* A byte is a number: 0..9 are the digits, up to LastAlphabetByte the     *)
(* base64url bytes, the rest is outside the alphabet.  Strings split at    *)
(* "." are sequences of parts.                                             *)
(***************************************************************************)
EXTENDS Naturals, Sequences

CONSTANTS ComponentMax,        \* longest part: 240
          MaxEncodedLength,    \* per field: 6144, 512 and 128
          MaxChunks,           \* per field: 26, 3 and 1
          MaxTransportLength,  \* of the whole body: 6826
          Prefix,              \* the bytes of the first part
          LastAlphabetByte,
          Inputs               \* [body, origin] pairs: see Init

FieldIndex == 1..3           \* claims, secret, signature
Byte == Nat
Fragment == [FieldIndex -> Seq(Byte)]
NoFragment == <<>>

ASSUME ContractAssumption ==
    /\ ComponentMax \in Nat \ {0} /\ MaxTransportLength \in Nat
    /\ MaxEncodedLength \in [FieldIndex -> Nat \ {0}]
    /\ MaxChunks \in [FieldIndex -> Nat \ {0}]
    /\ Prefix \in Seq(Byte) /\ LastAlphabetByte \in Nat
ASSUME InputsAssumption ==
    Inputs \subseteq [body : Seq(Seq(Byte)), origin : Fragment \cup {NoFragment}]

----------------------------------------------------------------------------
\* The encoder.

\* (a slip: a field that fills its last chunk gets an empty one after it)
ChunkCount_OneMore(v) == Len(v) \div ComponentMax + 1

ChunkCount(v) == (Len(v) + ComponentMax - 1) \div ComponentMax

Chunk(v, k) == SubSeq(v, (k - 1) * ComponentMax + 1,
                      IF k * ComponentMax < Len(v) THEN k * ComponentMax ELSE Len(v))

Chunks(v) == [k \in 1..ChunkCount(v) |-> Chunk(v, k)]

\* fmt.Sprint of a chunk count (of at most two digits)
Decimal(n) == IF n < 10 THEN <<n>> ELSE <<n \div 10, n % 10>>

Transport(f) == <<Prefix, Decimal(ChunkCount(f[1])), Decimal(ChunkCount(f[2])),
                  Decimal(ChunkCount(f[3]))>>
                \o Chunks(f[1]) \o Chunks(f[2]) \o Chunks(f[3])

\* The parts and the dots between them.
\* (a slip: a dot after every part)
BodyLength_TrailingDot(parts) ==
    LET total[k \in 0..Len(parts)] ==
            IF k = 0 THEN 0 ELSE total[k - 1] + Len(parts[k]) + 1
    IN  total[Len(parts)]

BodyLength(parts) ==
    LET total[k \in 0..Len(parts)] ==
            IF k = 0 THEN 0 ELSE total[k - 1] + Len(parts[k])
    IN  total[Len(parts)] + Len(parts) - 1

\* The fragments the encoder does not refuse.  It never looks at the alphabet.
Encodable(f) ==
    /\ \A i \in FieldIndex : /\ f[i] # <<>>
                             /\ Len(f[i]) <= MaxEncodedLength[i]
                             /\ ChunkCount(f[i]) <= MaxChunks[i]
    /\ BodyLength(Transport(f)) <= MaxTransportLength

InAlphabet(v) == \A k \in 1..Len(v) : v[k] <= LastAlphabetByte

\* An input with an origin is what the encoder made of it, and the origin is a
\* canonical fragment.
ASSUME EncodedAssumption ==
    \A input \in Inputs : input.origin # NoFragment =>
        /\ input.body = Transport(input.origin)
        /\ \A i \in FieldIndex : LET v == input.origin[i]
                                 IN  v # <<>> /\ Len(v) <= MaxEncodedLength[i] /\ InAlphabet(v)

\* The limits of the contract agree: 6144 <= 26 * 240, 512 <= 3 * 240, 128 <= 240, and
\* 5 bytes of prefix, 2 + 1 + 1 digits, 6784 bytes and 33 dots are 6826.
ASSUME LimitsAssumption ==
    LET room(i) == Len(Decimal(MaxChunks[i])) + MaxEncodedLength[i] + MaxChunks[i]
    IN  /\ \A i \in FieldIndex : /\ MaxEncodedLength[i] <= MaxChunks[i] * ComponentMax
                                /\ MaxChunks[i] < 100
        /\ Len(Prefix) + room(1) + room(2) + room(3) + 3 <= MaxTransportLength

----------------------------------------------------------------------------
VARIABLES
    body,      \* the parts of the input
    origin,    \* the fragment it was encoded from, or NoFragment
    pc,        \* header, count, shape, chunk, accept or reject
    field,     \* the field whose count or chunks are read
    digit,     \* digits of the count read so far
    value,     \* and their value
    counts,    \* the counts parsed
    part,      \* parts consumed, 4 of them the header
    taken,     \* chunks of the field consumed
    fieldLen,  \* their bytes
    fields     \* the fields put together

vars == <<body, origin, pc, field, digit, value, counts, part, taken, fieldLen,
          fields>>

TypeOK ==
    /\ body \in Seq(Seq(Byte)) /\ origin \in Fragment \cup {NoFragment}
    /\ pc \in {"header", "count", "shape", "chunk", "accept", "reject"}
    /\ field \in FieldIndex
    /\ digit \in Nat /\ value \in Nat
    /\ counts \in [FieldIndex -> Nat]
    /\ \A i \in FieldIndex : counts[i] <= MaxChunks[i]
    /\ part \in Nat /\ taken \in Nat /\ fieldLen \in Nat
    /\ fields \in Fragment

Init == /\ \E input \in Inputs : body = input.body /\ origin = input.origin
        /\ pc = "header"
        /\ field = 1 /\ digit = 0 /\ value = 0
        /\ counts = [i \in FieldIndex |-> 0]
        /\ part = 0 /\ taken = 0 /\ fieldLen = 0
        /\ fields = [i \in FieldIndex |-> <<>>]

Reject == /\ pc' = "reject"
          /\ UNCHANGED <<body, origin, field, digit, value, counts, part, taken,
                         fieldLen, fields>>

CheckHeader == /\ pc = "header"
               /\ IF \/ BodyLength(body) > MaxTransportLength
                     \/ Len(body) < 4
                     \/ body[1] # Prefix
                  THEN Reject
                  ELSE /\ pc' = "count"
                       /\ UNCHANGED <<body, origin, field, digit, value, counts,
                                      part, taken, fieldLen, fields>>

----------------------------------------------------------------------------
\* parseConformanceTransportCount on the token of the current field.

Token == body[field + 1]

CountMalformed == ~(Token # <<>> /\ Token[1] # 0)

\* value > max/10 || value == max/10 && digit > max%10
\* (a slip: the last digit is not compared)
Exceeds_TensOnly(d) == value > MaxChunks[field] \div 10

Exceeds(d) == LET max == MaxChunks[field] IN
              value > max \div 10 \/ (value = max \div 10 /\ d > max % 10)

ReadDigit ==
    /\ pc = "count" /\ ~CountMalformed /\ digit < Len(Token)
    /\ LET d == Token[digit + 1] IN
       IF d > 9 \/ Exceeds(d)
       THEN Reject
       ELSE /\ value' = value * 10 + d
            /\ digit' = digit + 1
            /\ UNCHANGED <<body, origin, pc, field, counts, part, taken,
                           fieldLen, fields>>

RejectCount == pc = "count" /\ CountMalformed /\ Reject

EndCount ==
    /\ pc = "count" /\ ~CountMalformed /\ digit = Len(Token)
    /\ counts' = [counts EXCEPT ![field] = value]
    /\ value' = 0 /\ digit' = 0
    /\ IF field < 3 THEN field' = field + 1 /\ UNCHANGED pc
                    ELSE field' = 1 /\ pc' = "shape"
    /\ UNCHANGED <<body, origin, part, taken, fieldLen, fields>>

----------------------------------------------------------------------------
Declared == counts[1] + counts[2] + counts[3]

\* (a slip: surplus parts are let through)
ShapeHolds_AtLeast == Len(body) >= 4 + Declared

ShapeHolds == Len(body) = 4 + Declared

CheckShape ==
    /\ pc = "shape"
    /\ IF ~ShapeHolds THEN Reject
       ELSE /\ pc' = "chunk" /\ part' = 4
            /\ UNCHANGED <<body, origin, field, digit, value, counts, taken,
                           fieldLen, fields>>

\* The chunk under the cursor; only read where the cursor is in range.
Current == body[part + 1]

Ragged == taken + 1 < counts[field] /\ Len(Current) # ComponentMax

ChunkInvalid == \/ Len(Current) = 0 \/ Len(Current) > ComponentMax
                \/ Ragged
                \/ ~InAlphabet(Current)

ReadChunk ==
    /\ pc = "chunk" /\ taken < counts[field]
    /\ IF ChunkInvalid
       THEN Reject
       ELSE /\ fields' = [fields EXCEPT ![field] = @ \o Current]
            /\ fieldLen' = fieldLen + Len(Current)
            /\ part' = part + 1 /\ taken' = taken + 1
            /\ UNCHANGED <<body, origin, pc, field, digit, value, counts>>

\* (a slip: the number of chunks is taken to bound the field)
TooLong_ByChunks == taken > MaxChunks[field]

TooLong == fieldLen > MaxEncodedLength[field]

EndField ==
    /\ pc = "chunk" /\ taken = counts[field]
    /\ IF TooLong
       THEN Reject
       ELSE /\ taken' = 0 /\ fieldLen' = 0
            /\ IF field < 3 THEN field' = field + 1 /\ UNCHANGED pc
                            ELSE pc' = "accept" /\ UNCHANGED field
            /\ UNCHANGED <<body, origin, digit, value, counts, part, fields>>

Next == \/ CheckHeader \/ ReadDigit \/ RejectCount \/ EndCount
        \/ CheckShape \/ ReadChunk \/ EndField

\* One sequential function that runs to its return.
Spec == Init /\ [][Next]_vars /\ WF_vars(Next)

----------------------------------------------------------------------------
(***************************************************************************)
(* The decoder never reads a part that is not there: the slice             *)
(* parts[part : part+count] stays inside the list whatever counts the      *)
(* header declares, and no count exceeds the number of chunks its field    *)
(* may have, however many digits it is written with.                       *)
(***************************************************************************)
NoSliceOutOfRange ==
    /\ pc = "count" => field + 1 <= Len(body)
    /\ pc = "chunk" => part + (counts[field] - taken) <= Len(body)
    /\ pc \in {"chunk", "accept"} =>
          \A i \in FieldIndex : counts[i] \in 1..MaxChunks[i]

(***************************************************************************)
(* There is one transport per fragment: what the decoder accepts is the    *)
(* encoding of what it returns, to the byte.  Counts, chunk boundaries and *)
(* surplus parts give no second spelling of a link.                        *)
(***************************************************************************)
OneSpelling ==
    pc = "accept" => Encodable(fields) /\ body = Transport(fields)

(***************************************************************************)
(* What the generator publishes the loader accepts, and reconstructs.  It  *)
(* holds of every in-alphabet fragment whose fields keep to their encoded  *)
(* lengths: neither the chunk counts nor the total length refuse what the  *)
(* field lengths admit, so the limits of the contract agree.               *)
(***************************************************************************)
RoundTrip ==
    origin # NoFragment =>
        /\ Encodable(origin)
        /\ pc # "reject"
        /\ pc = "accept" => fields = origin

(***************************************************************************)
(* Encoder and decoder are inverse to each other: the decoder accepts what *)
(* the encoder makes of a fragment, and nothing else.                      *)
(***************************************************************************)
CodecIsExact == OneSpelling /\ RoundTrip
=============================================================================
