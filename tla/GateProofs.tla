----------------------------- MODULE GateProofs -----------------------------
(***************************************************************************)
(* The gates of bodies and of single values, for every set of identifiers, *)
(* texts and edits: what is accepted, reported, shown, sent and signed.    *)
(***************************************************************************)
EXTENDS ContractGates, VectorProofs

\* The helpers that LinkKnock has its own copy of are the same ones.
LEMMA LinkCopies ==
    /\ L!Pass = Pass
    /\ \A checks : L!FirstOf(checks) = FirstOf(checks)
    /\ \A holds, class : L!Unless(holds, class) = Unless(holds, class)
    /\ \A v, key : L!Field(v, key) = Field(v, key) /\ L!Has(v, key) = Has(v, key)
    /\ \A text : L!Str(text) = Str(text)
    /\ \A text : L!Bool(text) = Bool(text)
<1>1. L!Pass = Pass /\ \A checks : L!FirstOf(checks) = FirstOf(checks)
  BY DEF L!Pass, Pass, L!FirstOf, FirstOf
<1>2. \A v, key : L!Field(v, key) = Field(v, key) /\ L!Has(v, key) = Has(v, key)
  BY DEF L!Field, Field, L!Keys, Keys, L!IsObject, IsObject, L!Absent, Absent,
         L!Scalar, Scalar, L!Has, Has
<1>3. \A holds, class : L!Unless(holds, class) = Unless(holds, class)
  BY DEF L!Unless, Unless, L!Pass, Pass
<1>4. (\A text : L!Str(text) = Str(text)) /\ \A text : L!Bool(text) = Bool(text)
  BY DEF L!Str, Str, L!Bool, Bool, L!Scalar, Scalar
<1> QED  BY <1>1, <1>2, <1>4, <1>3

----------------------------------------------------------------------------
(***************************************************************************)
(* Bodies: whatever is done to one, it is made of lexemes.                 *)
(***************************************************************************)
\* No step changes the gate, or what it knows.
LEMMA GateKept == [GatesNext]_gateVars => UNCHANGED <<gate, about>>
BY DEF GatesNext, BodyNext, ValueNext, gateVars

\* An object with a key set.
LEMMA WithIs ==
    ASSUME NEW v, NEW key, NEW lexeme
    PROVE  LET w == With(v, key, lexeme)
           IN  /\ IsObject(w) /\ Keys(w) = Keys(v) \cup {key} /\ IsLexeme(w)
               /\ \A k \in Keys(w) : w.fields[k] = IF k = key THEN lexeme ELSE v.fields[k]
<1> DEFINE f == [k \in Keys(v) \cup {key} |-> IF k = key THEN lexeme ELSE v.fields[k]]
           w == With(v, key, lexeme)
<1>1. w.type = "object" /\ w.fields = f /\ w = Obj(f)
  BY DEF With, Obj
<1> HIDE DEF w
<1>2. DOMAIN f = Keys(v) \cup {key} /\ f = [k \in DOMAIN f |-> f[k]]
  OBVIOUS
<1>3. IsObject(w) /\ Keys(w) = DOMAIN f
  BY <1>1 DEF IsObject, Keys
<1>4. w = Obj([k \in Keys(w) |-> w.fields[k]])
  BY <1>1, <1>2, <1>3
<1>5. IsLexeme(w)
  BY <1>1, <1>4 DEF IsLexeme
<1>6. \A k \in Keys(w) : w.fields[k] = IF k = key THEN lexeme ELSE v.fields[k]
  BY <1>1, <1>2, <1>3
<1> QED  BY <1>2, <1>3, <1>5, <1>6 DEF w

\* An object with a key taken away.
LEMMA WithoutIs ==
    ASSUME NEW v, NEW key
    PROVE  LET w == Without(v, key)
           IN  /\ IsObject(w) /\ Keys(w) = Keys(v) \ {key} /\ IsLexeme(w)
               /\ \A k \in Keys(w) : w.fields[k] = v.fields[k]
<1> DEFINE f == [k \in Keys(v) \ {key} |-> v.fields[k]]
           w == Without(v, key)
<1>1. w.type = "object" /\ w.fields = f /\ w = Obj(f)
  BY DEF Without, Obj
<1> HIDE DEF w
<1>2. DOMAIN f = Keys(v) \ {key} /\ f = [k \in DOMAIN f |-> f[k]]
  OBVIOUS
<1>3. IsObject(w) /\ Keys(w) = DOMAIN f
  BY <1>1 DEF IsObject, Keys
<1>4. w = Obj([k \in Keys(w) |-> w.fields[k]])
  BY <1>1, <1>2, <1>3
<1>5. IsLexeme(w)
  BY <1>1, <1>4 DEF IsLexeme
<1>6. \A k \in Keys(w) : w.fields[k] = v.fields[k]
  BY <1>1, <1>2, <1>3
<1> QED  BY <1>2, <1>3, <1>5, <1>6 DEF w

\* A value of k + 1 levels stays one when a value of k levels is put into it.
LEMMA WithKeeps ==
    ASSUME NEW v, NEW key, NEW lexeme
    PROVE  /\ HoldsLexemes(v) /\ IsLexeme(lexeme) => HoldsLexemes(With(v, key, lexeme))
           /\ IsJson(v) /\ HoldsLexemes(lexeme) => IsJson(With(v, key, lexeme))
<1>1. PICK w : w = With(v, key, lexeme)
  OBVIOUS
<1>2. /\ Keys(w) = Keys(v) \cup {key} /\ IsLexeme(w)
      /\ \A k \in Keys(w) : w.fields[k] = IF k = key THEN lexeme ELSE v.fields[k]
  BY <1>1, WithIs
<1>3. HoldsLexemes(v) /\ IsLexeme(lexeme) => HoldsLexemes(w)
  BY <1>2 DEF HoldsLexemes
<1>4. IsJson(v) /\ HoldsLexemes(lexeme) => IsJson(w)
  BY <1>2 DEF IsJson
<1> QED  BY <1>1, <1>3, <1>4

\* Without a key, an object still holds what it may hold.
LEMMA WithoutKeeps ==
    ASSUME NEW v, NEW key
    PROVE  /\ HoldsLexemes(v) => HoldsLexemes(Without(v, key))
           /\ IsJson(v) => IsJson(Without(v, key))
<1>1. PICK w : w = Without(v, key)
  OBVIOUS
<1>2. /\ Keys(w) = Keys(v) \ {key} /\ IsLexeme(w)
      /\ \A k \in Keys(w) : w.fields[k] = v.fields[k]
  BY <1>1, WithoutIs
<1> QED  BY <1>1, <1>2 DEF IsJson, HoldsLexemes

\* A field that is there, and one that is not.
LEMMA FieldIs ==
    ASSUME NEW v, NEW key
    PROVE  /\ key \in Keys(v) => Field(v, key) = v.fields[key]
           /\ key \notin Keys(v) => Field(v, key) = Absent /\ Field(v, key).type = "absent"
           /\ IsJson(v) /\ key \in Keys(v) => Field(v, key).type # "absent"
<1>1. Absent.type = "absent"
  BY DEF Absent, Scalar
<1> QED  BY <1>1 DEF Field, IsJson, HoldsLexemes, IsLexeme

\* A field is made like the object it is in, one level down.
LEMMA FieldLexeme ==
    ASSUME NEW v, NEW key, key \in Keys(v)
    PROVE  /\ HoldsLexemes(v) => IsLexeme(Field(v, key))
           /\ IsJson(v) => HoldsLexemes(Field(v, key))
BY DEF Field, HoldsLexemes, IsJson

\* What an edit puts into a body.
JsonIn(lexicon) == \A k \in DOMAIN lexicon : \A lexeme \in lexicon[k] : IsJson(lexeme)

\* One edit of an object leaves it made of what objects are made of.
LEMMA FlatEditsKeep ==
    ASSUME NEW lexicon, JsonIn(lexicon), NEW v, NEW w \in FlatEdits(v, lexicon)
    PROVE  IsLexeme(w) /\ (HoldsLexemes(v) => HoldsLexemes(w)) /\ (IsJson(v) => IsJson(w))
<1>1. CASE \E k \in Keys(v) : w = Without(v, k)
  BY <1>1, WithoutIs, WithoutKeeps
<1>2. CASE \E k \in DOMAIN lexicon : \E lexeme \in lexicon[k] : w = With(v, k, lexeme)
  <2>1. PICK k \in DOMAIN lexicon : \E lexeme \in lexicon[k] : w = With(v, k, lexeme)
    BY <1>2
  <2>2. PICK lexeme \in lexicon[k] : w = With(v, k, lexeme)
    BY <2>1
  <2>3. IsJson(lexeme)
    BY DEF JsonIn
  <2>4. IsLexeme(lexeme) /\ HoldsLexemes(lexeme)
    BY <2>3 DEF IsJson, HoldsLexemes
  <2>5. IsLexeme(w)
    BY <2>2, WithIs
  <2> QED  BY <2>2, <2>4, <2>5, WithKeeps
<1> QED  BY <1>1, <1>2 DEF FlatEdits

\* And so does one of an object inside it.
LEMMA EditedKeeps ==
    ASSUME NEW lexicon, JsonIn(lexicon), NEW v, IsJson(v), NEW w \in Edited(v, lexicon)
    PROVE  IsJson(w)
<1> DEFINE Fourth(x) == FlatEdits(x, lexicon)
           Third(x) ==
               FlatEdits(x, lexicon) \cup EditsInside(x, [k \in Keys(x) |-> Fourth(Field(x, k))])
           Second(x) ==
               FlatEdits(x, lexicon) \cup EditsInside(x, [k \in Keys(x) |-> Third(Field(x, k))])
<1>1. w \in FlatEdits(v, lexicon) \cup EditsInside(v, [k \in Keys(v) |-> Second(Field(v, k))])
  BY DEF Edited
<1>2. ASSUME NEW x, NEW y \in Third(x) PROVE IsLexeme(y)
  <2>1. CASE y \in FlatEdits(x, lexicon)
    BY <2>1, FlatEditsKeep
  <2>2. CASE y \in EditsInside(x, [k \in Keys(x) |-> Fourth(Field(x, k))])
    BY <2>2, WithIs DEF EditsInside
  <2> QED  BY <2>1, <2>2
<1>3. ASSUME NEW x, HoldsLexemes(x), NEW y \in Second(x) PROVE HoldsLexemes(y)
  <2>1. CASE y \in FlatEdits(x, lexicon)
    BY <1>3, <2>1, FlatEditsKeep
  <2>2. CASE y \in EditsInside(x, [k \in Keys(x) |-> Third(Field(x, k))])
    <3> HIDE DEF Third
    <3>1. PICK k \in Keys(x) : \E z \in Third(Field(x, k)) : y = With(x, k, z)
      BY <2>2 DEF EditsInside
    <3>2. PICK z \in Third(Field(x, k)) : y = With(x, k, z)
      BY <3>1
    <3> QED  BY <1>2, <1>3, <3>2, WithKeeps
  <2> QED  BY <2>1, <2>2
<1>4. CASE w \in FlatEdits(v, lexicon)
  BY <1>4, FlatEditsKeep
<1>5. CASE w \in EditsInside(v, [k \in Keys(v) |-> Second(Field(v, k))])
  <2> HIDE DEF Second
  <2>1. PICK k \in Keys(v) : \E z \in Second(Field(v, k)) : w = With(v, k, z)
    BY <1>5 DEF EditsInside
  <2>2. PICK z \in Second(Field(v, k)) : w = With(v, k, z)
    BY <2>1
  <2>3. HoldsLexemes(Field(v, k))
    BY FieldLexeme
  <2> QED  BY <1>3, <2>2, <2>3, WithKeeps
<1> QED  BY <1>1, <1>4, <1>5

\* Bodies are JSON values around which some bytes may be damaged.
Jsons ==
    gate \in BodyGateNames => body = Flawed(body.flaw, body.value) /\ IsJson(body.value)

\* A damaged body is its value and the damage.
LEMMA FlawedIs ==
    ASSUME NEW flaw, NEW v
    PROVE  /\ Flawed(flaw, v).flaw = flaw /\ Flawed(flaw, v).value = v
           /\ Body(v) = Flawed("none", v)
BY DEF Flawed, Body

\* A null holds nothing.
LEMMA NullIsJson == IsJson(Null) /\ Keys(Null) = {}
BY DEF IsJson, IsLexeme, Keys, IsObject, Null, Scalar

\* The bodies that a run starts from are made of lexemes.
LEMMA InitJsons == GatesInit => Jsons
<1> SUFFICES ASSUME GatesInit, gate \in BodyGateNames
             PROVE  body = Flawed(body.flaw, body.value) /\ IsJson(body.value)
  BY DEF Jsons
<1>1. gate \notin ValueGateNames
  BY DEF ValueGateNames, TextGates, RecordGates, BodyGateNames
<1>2. PICK seed \in Seeds[gate] : body = seed.body
  BY <1>1 DEF GatesInit, BodyInit, ValueInit
<1>3. seed.body = Body(seed.body.value) /\ IsJson(seed.body.value)
  BY LexemesAssumption
<1> QED  BY <1>2, <1>3, FlawedIs

\* No edit and no damage makes anything else of them.
LEMMA JsonsKept == Jsons /\ [GatesNext]_gateVars => Jsons'
<1> SUFFICES ASSUME Jsons, [GatesNext]_gateVars, gate' \in BodyGateNames
             PROVE  body' = Flawed(body'.flaw, body'.value) /\ IsJson(body'.value)
  BY DEF Jsons
<1>1. gate' = gate /\ gate \in BodyGateNames /\ gate \notin ValueGateNames
  BY GateKept DEF ValueGateNames, TextGates, RecordGates, BodyGateNames
<1>2. body = Flawed(body.flaw, body.value) /\ IsJson(body.value)
  BY <1>1 DEF Jsons
<1>3. CASE Edit
  <2>1. PICK v \in Edited(body.value, Lexicon[gate]) : body' = Body(v)
    BY <1>3 DEF Edit
  <2>2. JsonIn(Lexicon[gate])
    BY <1>1, LexemesAssumption DEF JsonIn
  <2>3. IsJson(v)
    BY <1>2, <2>2, EditedKeeps
  <2> QED  BY <2>1, <2>3, FlawedIs
<1>4. CASE Damage
  <2>1. CASE \E flaw \in FlawsAt(gate) : body' = Flawed(flaw, body.value)
    BY <1>2, <2>1, FlawedIs
  <2>2. CASE body' = Body(Null)
    BY <2>2, FlawedIs, NullIsJson
  <2> QED  BY <1>4, <2>1, <2>2 DEF Damage
<1>5. CASE body' = body
  BY <1>2, <1>5
<1> QED  BY <1>1, <1>3, <1>4, <1>5 DEF GatesNext, BodyNext, ValueNext, gateVars

----------------------------------------------------------------------------
(***************************************************************************)
(* Links.                                                                  *)
(***************************************************************************)
LEMMA ValueGatePass ==
    ASSUME NEW crid
    PROVE  L!ValueGate(crid) = Pass <=>
              /\ crid.alphabet /\ crid.length \in {60, 47} /\ crid.canonical
              /\ crid.checksum /\ crid.version # 0
<1> DEFINE checks == <<L!Unless(crid.alphabet, "charset"),
              L!Unless(crid.length \in {L!FullLength, L!TruncatedLength}, "length"),
              L!Unless(crid.canonical, "non_canonical"),
              L!Unless(crid.checksum, "checksum"),
              L!Unless(crid.version # 0, "version")>>
<1>1. L!ValueGate(crid) = FirstOf(checks)
  BY LinkCopies DEF L!ValueGate
<1>2. Len(checks) = 5
  OBVIOUS
<1>3. /\ checks[1] = Pass <=> crid.alphabet
      /\ checks[2] = Pass <=> crid.length \in {60, 47}
      /\ checks[3] = Pass <=> crid.canonical
      /\ checks[4] = Pass <=> crid.checksum
      /\ checks[5] = Pass <=> crid.version # 0
  BY DEF L!Unless, L!Pass, Pass, L!FullLength, L!TruncatedLength
<1> HIDE DEF checks
<1>4. FirstOf(checks) = Pass <=> \A i \in 1..5 : checks[i] = Pass
  BY <1>2, FirstOfPass
<1> QED  BY <1>1, <1>3, <1>4

\* A link is asked for by a CRID that passes the local gate, in a version in use.
LEMMA RequestGatePass ==
    ASSUME NEW crid, L!RequestGate(crid) = Pass
    PROVE  L!ValueGate(crid) = Pass /\ crid.version \in {1, 129} /\ crid.length = 60
<1> DEFINE active == \E row \in L!Rows(crid) : row.length = crid.length
     /\ row.status = "active"
           checks == <<L!ValueGate(crid), L!Unless(active, "version")>>
<1>1. L!RequestGate(crid) = FirstOf(checks) /\ Len(checks) = 2
  BY LinkCopies DEF L!RequestGate
<1>2. checks[2] = Pass <=> active
  BY DEF L!Unless, L!Pass, Pass
<1>3. checks[1] = L!ValueGate(crid)
  OBVIOUS
<1> HIDE DEF checks, active
<1>4. L!ValueGate(crid) = Pass /\ active
  BY <1>1, <1>2, <1>3, FirstOfPass
<1>5. PICK row \in L!Rows(crid) : row.length = crid.length /\ row.status = "active"
  BY <1>4 DEF active
<1>6. row \in {L!Row(1, 60, "active"), L!Row(129, 60, "active"),
               L!Row(2, 47, "reserved"), L!Row(130, 47, "reserved")}
  BY DEF L!Rows, L!Registry, L!FullLength, L!TruncatedLength
<1>7. row.version = crid.version
  BY DEF L!Rows
<1>8. crid.version \in {1, 129} /\ crid.length = 60
  BY <1>5, <1>6, <1>7 DEF L!Row
<1> QED  BY <1>4, <1>8

\* What a link that opens is known to be.
LEMMA OpenLinkPass ==
    ASSUME NEW link, L!OpenLink(link) = Pass
    PROVE  /\ link.origin /\ link.location # "authority"
           /\ link.location \in {"none", "slash"}
           /\ link.transport /\ link.signed /\ link.readable
<1> DEFINE checks == <<L!SplitLink(link), L!Unless(link.transport, "transport"),
                       L!Unless(link.signed /\ link.readable, "issuer_signature")>>
           parts == <<L!Unless(link.origin /\ link.location # "authority", "origin"),
                      L!Unless(link.location \in {"none", "slash"}, "path_or_query")>>
<1>1. L!OpenLink(link) = FirstOf(checks) /\ Len(checks) = 3
  BY LinkCopies DEF L!OpenLink
<1>2. L!SplitLink(link) = FirstOf(parts) /\ Len(parts) = 2
  BY LinkCopies DEF L!SplitLink
<1>3. /\ checks[1] = L!SplitLink(link)
      /\ checks[2] = Pass => link.transport
      /\ checks[3] = Pass => link.signed /\ link.readable
  BY DEF L!Unless, L!Pass, Pass
<1>4. /\ parts[1] = Pass => link.origin /\ link.location # "authority"
      /\ parts[2] = Pass => link.location \in {"none", "slash"}
  BY DEF L!Unless, L!Pass, Pass
<1> HIDE DEF checks, parts
<1>5. \A i \in 1..3 : checks[i] = Pass
  BY <1>1, FirstOfPass
<1>6. \A i \in 1..2 : parts[i] = Pass
  BY <1>2, <1>3, <1>5, FirstOfPass
<1> QED  BY <1>3, <1>4, <1>5, <1>6

\* What an accepted link is known to be.
LEMMA LinkAccepted ==
    ASSUME NEW crid, NEW ack, L!LinkRejectClass(crid, ack) = Pass
    PROVE  /\ Field(ack, "redirectUrl").type = "link"
           /\ L!OpenLink(Field(ack, "redirectUrl").link) = Pass
           /\ L!KeyMatches(crid, Field(ack, "redirectUrl").link.key)
<1> DEFINE redirect == Field(ack, "redirectUrl")
           checks == <<L!OpenLink(redirect.link),
                       L!Unless(L!KeyMatches(crid, redirect.link.key), "crid_mismatch"),
                       L!Unless(L!InfoCridMatches(crid, ack), "info_crid_mismatch")>>
<1>1. L!Field(ack, "redirectUrl") = redirect
  BY LinkCopies
<1> HIDE DEF redirect
<1>2. redirect.type = "link" /\ FirstOf(checks) = Pass /\ Len(checks) = 3
  BY <1>1, LinkCopies DEF L!LinkRejectClass, Pass
<1>3. /\ checks[1] = L!OpenLink(redirect.link)
      /\ checks[2] = Pass => L!KeyMatches(crid, redirect.link.key)
  BY DEF L!Unless, L!Pass, Pass
<1> HIDE DEF checks
<1>4. \A i \in 1..3 : checks[i] = Pass
  <2>1. FirstOf(checks) = Pass <=> \A i \in 1..Len(checks) : checks[i] = Pass
    BY <1>2, FirstOfPass
  <2> QED  BY <1>2, <2>1
<1> QED  BY <1>2, <1>3, <1>4 DEF redirect

\* A link is asked for with a CRID that the client holds and that passes the request gate.
LinkAsked == gate = "link" => about \in HeldCrids /\ L!RequestGate(about) = Pass

\* At first it is,
LEMMA InitAsked == GatesInit => LinkAsked
BY IdentifiersAssumption
   DEF GatesInit, BodyInit, ValueInit, LinkAsked, ValueGateNames, TextGates, RecordGates

\* and the CRID that was asked with stays.
LEMMA LinkAskedKept == LinkAsked /\ [GatesNext]_gateVars => LinkAsked'
BY GateKept DEF LinkAsked

\* What the user sees, in the two cases there are.
LEMMA ReplyIs ==
    ASSUME Jsons, gate = "link"
    PROVE
    \/ Reply.link = <<>> /\ Reply.info = L!NoInfo
    \/ /\ Field(body.value, "errCode") = Str("52600")
       /\ L!LinkRejectClass(about, body.value) = Pass
       /\ Reply.link = <<Field(body.value, "redirectUrl").link>>
       /\ Reply.info = L!Sanitize(Field(body.value, "redirectInfo"))
<1> DEFINE ack == body.value
           code == L!Field(ack, "errCode")
           class == L!LinkRejectClass(about, ack)
<1>1. Reply = CASE ~L!IsCode(code) -> L!Answer("protocol_violation")
                [] L!IsCode(code) /\ code.text \notin DOMAIN L!ClientResult ->
                      L!Answer("server_error")
                [] L!IsCode(code) /\ code.text \in DOMAIN L!ClientResult \ {L!LinkIssued} ->
                      L!Answer(L!ClientResult[code.text])
                [] OTHER -> IF class # L!Pass THEN L!Rejected(class)
                            ELSE [L!Answer("link") EXCEPT
                                    !.link = <<L!Field(ack, "redirectUrl").link>>,
                                    !.info = L!Sanitize(L!Field(ack, "redirectInfo"))]
  BY DEF Reply, L!InterpretACK
<1>2. \A result : L!Answer(result).link = <<>> /\ L!Answer(result).info = L!NoInfo
  BY DEF L!Answer
<1>3. \A c : L!Rejected(c).link = <<>> /\ L!Rejected(c).info = L!NoInfo
  BY DEF L!Rejected
<1>4. L!IsCode(code) <=> code.type = "string" /\ code.text \notin {"", "0"}
  BY DEF L!IsCode
<1>5. CASE ~L!IsCode(code)
  <2>1. Reply = L!Answer("protocol_violation")
    BY <1>1, <1>4, <1>5
  <2> QED  BY <1>2, <2>1
<1>6. CASE L!IsCode(code) /\ code.text \notin DOMAIN L!ClientResult
  <2>1. Reply = L!Answer("server_error")
    BY <1>1, <1>4, <1>6
  <2> QED  BY <1>2, <2>1
<1>7. CASE L!IsCode(code) /\ code.text \in DOMAIN L!ClientResult \ {L!LinkIssued}
  <2>1. Reply = L!Answer(L!ClientResult[code.text])
    BY <1>1, <1>4, <1>7
  <2> QED  BY <1>2, <2>1
<1>8. CASE L!IsCode(code) /\ code.text = L!LinkIssued /\ class # L!Pass
  <2>1. Reply = L!Rejected(class)
    BY <1>1, <1>4, <1>8 DEF L!ClientResult
  <2> QED  BY <1>3, <2>1
<1>9. CASE L!IsCode(code) /\ code.text = L!LinkIssued /\ class = L!Pass
  <2>1. Reply = [L!Answer("link") EXCEPT
                    !.link = <<L!Field(ack, "redirectUrl").link>>,
                    !.info = L!Sanitize(L!Field(ack, "redirectInfo"))]
    BY <1>1, <1>4, <1>9 DEF L!ClientResult
  <2>2. /\ Reply.link = <<Field(ack, "redirectUrl").link>>
        /\ Reply.info = L!Sanitize(Field(ack, "redirectInfo"))
    BY <2>1, LinkCopies DEF L!Answer
  <2>3. code.type = "string" /\ code.text = "52600" /\ code = Field(ack, "errCode")
    BY <1>4, <1>9, LinkCopies DEF L!LinkIssued
  <2>4. HoldsLexemes(code)
    <3>1. "errCode" \in Keys(ack)
      BY <2>3, FieldIs
    <3> QED  BY <2>3, <3>1, FieldLexeme DEF Jsons, BodyGateNames
  <2>5. code = Str("52600")
    BY <2>3, <2>4 DEF HoldsLexemes, IsLexeme, Str
  <2> QED  BY <1>9, <2>2, <2>3, <2>5, LinkCopies
<1> QED  BY <1>5, <1>6, <1>7, <1>8, <1>9

\* A link that reaches the user is for the CRID that was asked with.
LEMMA LinkGated == Jsons /\ LinkAsked => LinkIsForTheCrid
<1> SUFFICES ASSUME Jsons, LinkAsked, gate = "link", Reply.link # <<>>
             PROVE  LET link == Reply.link[1]
                    IN  /\ Field(body.value, "errCode") = Str("52600")
                        /\ link.origin /\ link.location \in {"none", "slash"}
                        /\ link.transport /\ link.signed /\ link.readable
                        /\ about \in {L!Derive(version, link.key, 60) : version \in {1, 129}}
  BY DEF LinkIsForTheCrid
<1> DEFINE link == Field(body.value, "redirectUrl").link
<1>1. /\ Field(body.value, "errCode") = Str("52600")
      /\ L!LinkRejectClass(about, body.value) = Pass
      /\ Reply.link[1] = link
  BY ReplyIs
<1>2. L!OpenLink(link) = Pass /\ L!KeyMatches(about, link.key)
  BY <1>1, LinkAccepted
<1> HIDE DEF link
<1>3. /\ link.origin /\ link.location \in {"none", "slash"}
      /\ link.transport /\ link.signed /\ link.readable
  BY <1>2, OpenLinkPass
<1>4. about = L!Derive(about.version, link.key, 60) /\ about.version \in {1, 129}
  BY <1>2, RequestGatePass DEF LinkAsked, L!KeyMatches
<1> QED  BY <1>1, <1>3, <1>4

\* What is shown beside a link comes from where it belongs.
LEMMA ShownEarned == Jsons => NothingShownUnearned
<1> SUFFICES ASSUME Jsons, gate = "link" PROVE
        /\ Reply.link = <<>> => Reply.info = L!NoInfo
        /\ Reply.info.verified =>
              Field(Field(Field(body.value, "redirectInfo"), "publisher"), "verified")
                  = Bool("true")
        /\ {Reply.info.id, Reply.info.name, Reply.info.expires} \cap LongTexts = {}
  BY DEF NothingShownUnearned
<1> DEFINE info == Field(body.value, "redirectInfo")
<1>1. CASE Reply.link = <<>> /\ Reply.info = L!NoInfo
  <2>1. /\ Reply.info.verified = FALSE
        /\ Reply.info.id = "" /\ Reply.info.name = "" /\ Reply.info.expires = ""
    <3>1. L!NoInfo.verified = FALSE
      BY DEF L!NoInfo
    <3>2. L!NoInfo.id = "" /\ L!NoInfo.name = "" /\ L!NoInfo.expires = ""
      BY DEF L!NoInfo
    <3> QED  BY <1>1, <3>1, <3>2
  <2> QED  BY <1>1, <2>1, LongTextsAssumption
<1>2. CASE Reply.link # <<>> /\ Reply.info = L!Sanitize(info)
  <2> DEFINE publisher == Field(info, "publisher")
  <2>1. /\ Reply.info.id = L!InfoText(Field(info, "qurl_id"))
        /\ Reply.info.name = L!InfoText(Field(publisher, "name"))
        /\ Reply.info.expires = L!InfoText(Field(info, "expires_at"))
        /\ Reply.info.verified = L!Verified(publisher)
    BY <1>2, LinkCopies DEF L!Sanitize
  <2>2. \A v : L!InfoText(v) \notin LongTexts
    BY LongTextsAssumption DEF L!InfoText
  <2>3. L!Verified(publisher) => Field(publisher, "verified") = Bool("true")
    BY LinkCopies DEF L!Verified
  <2> HIDE DEF info
  <2>4. {Reply.info.id, Reply.info.name, Reply.info.expires} \cap LongTexts = {}
    BY <2>1, <2>2
  <2> QED  BY <1>2, <2>1, <2>3, <2>4 DEF info
<1>3. Reply.link = <<Field(body.value, "redirectUrl").link>> => Reply.link # <<>>
  OBVIOUS
<1> QED  BY <1>1, <1>2, <1>3, ReplyIs

(***************************************************************************)
(* A user is shown a link only for the CRID that was asked for, and beside *)
(* it nothing that the reply does not earn: in every reply, however far    *)
(* from a legitimate one, interpretACK leaves the link out unless each     *)
(* gate of it passes (crid_link_knock.go:1205, 1343).                      *)
(***************************************************************************)
THEOREM LinkEarned == GatesSpec => []LinkIsEarned
<1>1. Jsons /\ LinkAsked => LinkIsEarned
  BY LinkGated, ShownEarned DEF LinkIsEarned
<1> QED  BY <1>1, InitAsked, LinkAskedKept, InitJsons, JsonsKept, PTL DEF GatesSpec

----------------------------------------------------------------------------
(***************************************************************************)
(* What is accepted can be acted on.                                       *)
(***************************************************************************)
LEMMA AssignmentCopies ==
    /\ A!Pass = Pass
    /\ \A checks : A!FirstOf(checks) = FirstOf(checks)
    /\ \A holds, class : A!Unless(holds, class) = Unless(holds, class)
    /\ \A v : A!Keys(v) = Keys(v) /\ A!IsObject(v) = IsObject(v)
    /\ \A v, key : /\ A!Field(v, key) = Field(v, key) /\ A!Text(v, key) = Text(v, key)
                   /\ A!Has(v, key) = Has(v, key)
    /\ \A v, required, allowed : A!ExactKeys(v, required, allowed)
                                    = ExactKeys(v, required, allowed)
    /\ \A text : A!Num(text) = Num(text)
<1>1. A!Pass = Pass /\ \A checks : A!FirstOf(checks) = FirstOf(checks)
  BY DEF A!Pass, Pass, A!FirstOf, FirstOf
<1>2. \A holds, class : A!Unless(holds, class) = Unless(holds, class)
  BY DEF A!Unless, Unless, A!Pass, Pass
<1>3. \A v : A!Keys(v) = Keys(v) /\ A!IsObject(v) = IsObject(v)
  BY DEF A!Keys, Keys, A!IsObject, IsObject
<1>4. \A v, key : A!Field(v, key) = Field(v, key) /\ A!Has(v, key) = Has(v, key)
  BY <1>3 DEF A!Field, Field, A!Has, Has, A!Absent, Absent, A!Scalar, Scalar
<1>5. \A v, key : A!Text(v, key) = Text(v, key)
  BY <1>4 DEF A!Text, Text
<1>6. \A v, required, allowed :
         A!ExactKeys(v, required, allowed) = ExactKeys(v, required, allowed)
  BY <1>1, <1>2, <1>3 DEF A!ExactKeys, ExactKeys
<1>7. \A text : A!Num(text) = Num(text)
  BY DEF A!Num, Num, A!Scalar, Scalar
<1> QED  BY <1>1, <1>2, <1>3, <1>4, <1>5, <1>6, <1>7

\* The keys of an object that passes the exact-object gate.
LEMMA ExactKeysPass ==
    ASSUME NEW v, NEW required, NEW allowed
    PROVE  ExactKeys(v, required, allowed) = Pass <=>
              Keys(v) \subseteq allowed /\ required \subseteq Keys(v)
<1> DEFINE checks == <<Unless(Keys(v) \subseteq allowed, "unknown_field"),
                       Unless(required \subseteq Keys(v), "missing_field")>>
<1>1. ExactKeys(v, required, allowed) = FirstOf(checks) /\ Len(checks) = 2
  BY DEF ExactKeys
<1>2. /\ checks[1] = Pass <=> Keys(v) \subseteq allowed
      /\ checks[2] = Pass <=> required \subseteq Keys(v)
  BY DEF Unless, Pass
<1> HIDE DEF checks
<1>3. FirstOf(checks) = Pass <=> \A i \in 1..2 : checks[i] = Pass
  BY <1>1, FirstOfPass
<1> QED  BY <1>1, <1>2, <1>3

\* An object of allowed keys only.
LEMMA AllowedOnlyPass ==
    ASSUME NEW v, NEW keys, A!AllowedOnly(v, keys) = Pass
    PROVE  IsObject(v) /\ Keys(v) \subseteq keys
<1> DEFINE checks == <<Unless(IsObject(v), "wrong_type"), ExactKeys(v, {}, keys)>>
<1>1. A!AllowedOnly(v, keys) = FirstOf(checks) /\ Len(checks) = 2
  BY AssignmentCopies DEF A!AllowedOnly
<1>2. /\ checks[1] = Pass <=> IsObject(v)
      /\ checks[2] = ExactKeys(v, {}, keys)
  BY DEF Unless, Pass
<1> HIDE DEF checks
<1>3. \A i \in 1..2 : checks[i] = Pass
  BY <1>1, FirstOfPass
<1> QED  BY <1>2, <1>3, ExactKeysPass

\* An error of a registration names no delay and is never about a rate.
LEMMA RegistrationErrorIs ==
    ASSUME NEW b, A!ClassifyRegistrationError(b) = Pass
    PROVE  /\ ~Has(b.value, "retryAfterSeconds") /\ b.flaw = "none"
           /\ Text(b.value, "errCode") \in A!RegistrationErrors
<1> DEFINE v == b.value
           keys == {"errCode", "errMsg", "aspId"}
           checks == <<A!WholeBody(b), A!AllowedOnly(v, keys),
                       A!Decodes(v, keys \cap Keys(v), {}),
                       Unless(A!NonEmpty(v, "errCode") /\ Text(v, "aspId") = "agent",
                              "body_parse"),
                       Unless(Text(v, "errCode") \in A!RegistrationErrors,
                              "unknown_error_code")>>
<1>1. A!ClassifyRegistrationError(b) = FirstOf(checks) /\ Len(checks) = 5
  BY AssignmentCopies DEF A!ClassifyRegistrationError
<1>2. /\ checks[1] = Pass => b.flaw = "none"
      /\ checks[2] = A!AllowedOnly(v, keys)
      /\ checks[5] = Pass <=> Text(v, "errCode") \in A!RegistrationErrors
  BY AssignmentCopies DEF Unless, Pass, A!WholeBody
<1> HIDE DEF checks
<1>3. \A i \in 1..5 : checks[i] = Pass
  BY <1>1, FirstOfPass
<1>4. Keys(v) \subseteq keys
  BY <1>2, <1>3, AllowedOnlyPass
<1> QED  BY <1>2, <1>3, <1>4 DEF Has

\* A delay that fits the outcome.
LEMMA DelayFitsPass ==
    ASSUME NEW v, A!DelayFits(v) = Pass
    PROVE  /\ Text(v, "errCode") \in A!RetryRequired => A!Delayed(v)
           /\ A!Delayed(v) => /\ Field(v, "retryAfterSeconds").text \in A!Positive
                              /\ Text(v, "errCode") \in A!RetryPermitted
<1> DEFINE checks == <<Unless(Text(v, "errCode") \in A!RetryRequired => A!Delayed(v),
                              "retry_after_missing"),
                       Unless(A!Delayed(v) => Field(v, "retryAfterSeconds").text \in A!Positive,
                              "retry_after_invalid"),
                       Unless(A!Delayed(v) => Text(v, "errCode") \in A!RetryPermitted,
                              "retry_after_unexpected")>>
<1>1. A!DelayFits(v) = FirstOf(checks) /\ Len(checks) = 3
  BY AssignmentCopies DEF A!DelayFits
<1>2. /\ checks[1] = Pass => (Text(v, "errCode") \in A!RetryRequired => A!Delayed(v))
      /\ checks[2] = Pass =>
            (A!Delayed(v) => Field(v, "retryAfterSeconds").text \in A!Positive)
      /\ checks[3] = Pass => (A!Delayed(v) => Text(v, "errCode") \in A!RetryPermitted)
  BY DEF Unless, Pass
<1> HIDE DEF checks
<1>3. \A i \in 1..3 : checks[i] = Pass
  BY <1>1, FirstOfPass
<1> QED  BY <1>2, <1>3

\* What an accepted error of the list phases is known to be.
LEMMA ListErrorIs ==
    ASSUME NEW b, A!ClassifyListError(b) = Pass
    PROVE  /\ b.flaw = "none" /\ A!DelayFits(b.value) = Pass
           /\ Text(b.value, "errCode") \in A!ListErrors
<1> DEFINE v == b.value
           keys == {"errCode", "errMsg", "retryAfterSeconds", "list"}
           checks == <<A!WholeBody(b), A!AllowedOnly(v, keys),
                  Unless(A!Decodes(v, {}, {"retryAfterSeconds"} \cap Keys(v)) = Pass,
                         "retry_after_invalid"),
                  A!Decodes(v, {"errCode", "errMsg"} \cap Keys(v), {}),
                  Unless(A!NonEmpty(v, "errCode"), "body_parse"),
                  Unless(Text(v, "errCode") \in A!ListErrors, "unknown_error_code"),
                  Unless(~Has(v, "list"), "list_on_error"),
                  A!DelayFits(v)>>
<1>1. A!ClassifyListError(b) = FirstOf(checks) /\ Len(checks) = 8
  BY AssignmentCopies DEF A!ClassifyListError
<1>2. /\ checks[1] = Pass => b.flaw = "none"
      /\ checks[6] = Pass <=> Text(v, "errCode") \in A!ListErrors
      /\ checks[8] = A!DelayFits(v)
  BY AssignmentCopies DEF Unless, Pass, A!WholeBody
<1> HIDE DEF checks
<1>3. FirstOf(checks) = Pass /\ Len(checks) \in Nat
  BY <1>1
<1>4. \A i \in 1..Len(checks) : checks[i] = Pass
  BY <1>3, FirstOfPass
<1>5. checks[1] = Pass /\ checks[6] = Pass /\ checks[8] = Pass
  BY <1>1, <1>4
<1> QED  BY <1>2, <1>5

\* The outcomes that name a delay, and those that have to.
LEMMA OutcomeIs ==
    ASSUME NEW code \in A!ListErrors \cup A!RegistrationErrors
    PROVE  /\ code \in A!RetryPermitted => A!Outcome[code] \in {"retry", "rate_limited"}
           /\ A!Outcome[code] = "rate_limited" => code \in A!RetryRequired
           /\ A!Outcome[code] = "rate_limited" => code \notin A!RegistrationErrors
BY DEF A!Outcome, A!ListErrors, A!RegistrationErrors, A!AssignmentErrors,
       A!CredentialErrors, A!CompletionErrors, A!RetryPermitted, A!RetryRequired

\* Every accepted error says whether and how long to wait.
LEMMA DelayTells == DelayTellsTheOutcome
<1> DEFINE v == body.value
           code == Text(v, "errCode")
           outcome == A!Outcome[code]
           delayed == Field(v, "retryAfterSeconds").type = "number"
<1> SUFFICES ASSUME gate = "assignment_error", Accepted
             PROVE  /\ delayed => /\ outcome \in {"retry", "rate_limited"}
                                  /\ Field(v, "retryAfterSeconds").text \in {"1", "3600"}
                    /\ outcome = "rate_limited" => delayed
  BY DEF DelayTellsTheOutcome
<1>1. A!ClassifyError(about, body) = Pass
  BY DEF Accepted, Class
<1>2. CASE about = "RAK"
  <2>1. A!ClassifyRegistrationError(body) = Pass
    BY <1>1, <1>2 DEF A!ClassifyError
  <2>2. ~Has(v, "retryAfterSeconds") /\ code \in A!RegistrationErrors
    BY <2>1, RegistrationErrorIs
  <2>3. ~delayed
    BY <2>2, FieldIs DEF Has
  <2> QED  BY <2>2, <2>3, OutcomeIs
<1>3. CASE about = "LRT"
  <2>1. A!ClassifyListError(body) = Pass
    BY <1>1, <1>3 DEF A!ClassifyError
  <2>2. A!DelayFits(v) = Pass /\ code \in A!ListErrors
    BY <2>1, ListErrorIs
  <2>3. A!Delayed(v) <=> delayed
    BY AssignmentCopies DEF A!Delayed
  <2>4. /\ code \in A!RetryRequired => delayed
        /\ delayed => /\ Field(v, "retryAfterSeconds").text \in {"1", "3600"}
                      /\ code \in A!RetryPermitted
    BY <2>2, <2>3, DelayFitsPass DEF A!Positive
  <2> QED  BY <2>2, <2>4, OutcomeIs
<1>4. CASE about \notin {"RAK", "LRT"}
  BY <1>1, <1>4 DEF A!ClassifyError, Pass
<1> QED  BY <1>2, <1>3, <1>4

----------------------------------------------------------------------------
\* The helpers that KnockBody has its own copy of are the same ones.
LEMMA KnockCopies ==
    /\ K!Pass = Pass
    /\ \A checks : K!FirstOf(checks) = FirstOf(checks)
    /\ \A holds, class : K!Unless(holds, class) = Unless(holds, class)
    /\ \A v : K!Keys(v) = Keys(v) /\ K!IsObject(v) = IsObject(v)
    /\ \A v, key : /\ K!Field(v, key) = Field(v, key) /\ K!Text(v, key) = Text(v, key)
                   /\ K!Has(v, key) = Has(v, key)
    /\ \A text : K!Num(text) = Num(text) /\ K!Str(text) = Str(text)
    /\ K!Null = Null
<1>1. K!Pass = Pass /\ \A checks : K!FirstOf(checks) = FirstOf(checks)
  BY DEF K!Pass, Pass, K!FirstOf, FirstOf
<1>2. \A holds, class : K!Unless(holds, class) = Unless(holds, class)
  BY DEF K!Unless, Unless, K!Pass, Pass
<1>3. \A v : K!Keys(v) = Keys(v) /\ K!IsObject(v) = IsObject(v)
  BY DEF K!Keys, Keys, K!IsObject, IsObject
<1>4. \A v, key : K!Field(v, key) = Field(v, key) /\ K!Has(v, key) = Has(v, key)
  BY <1>3, Zenon DEF K!Field, Field, K!Has, Has, K!Absent, Absent, K!Scalar, Scalar
<1>5. \A v, key : K!Text(v, key) = Text(v, key)
  BY <1>4, Zenon DEF K!Text, Text
<1>6. (\A text : K!Num(text) = Num(text) /\ K!Str(text) = Str(text)) /\ K!Null = Null
  BY DEF K!Num, Num, K!Str, Str, K!Scalar, Scalar, K!Null, Null
<1> QED  BY <1>1, <1>2, <1>3, <1>4, <1>5, <1>6

\* A body whose envelope passes denies nothing and opens a session, or denies.
LEMMA EnvelopePass ==
    ASSUME NEW b, K!EnvelopeClass(b) = Pass
    PROVE  /\ K!SessionIdFits(b) /\ b.flaw = "none"
           /\ Field(b.value, "errCode").type \in {"string", "null"}
           /\ \/ K!OpensNothing(b.value)
              \/ /\ Field(b.value, "opnTime").type = "number"
                 /\ Field(b.value, "opnTime").text \in OpenTimes
           /\ K!SessionPresence(b.value)
           /\ K!Denied(b.value) \/ ~K!OpensNothing(b.value)
<1> DEFINE v == b.value
           opens == /\ Field(v, "opnTime").type = "number"
                    /\ Field(v, "opnTime").text \in OpenTimes
           checks ==
              <<Unless(K!SessionIdFits(b), "session_id"),
                Unless(b.flaw = "none" /\ IsObject(v), "body_parse"),
                Unless(Field(v, "errCode").type \in {"string", "null"}, "body_parse"),
                Unless(K!Denied(v) => K!SessionPresence(v), "session_id"),
                Unless(K!OpensNothing(v) \/ opens, "body_parse"),
                Unless(K!Denied(v) => K!OpensNothing(v), "body_parse"),
                Unless(K!SessionPresence(v), "session_id"),
                Unless(K!Denied(v) \/ ~K!OpensNothing(v), "session_lifetime")>>
<1>1. K!EnvelopeClass(b) = FirstOf(checks) /\ Len(checks) = 8
  BY KnockCopies DEF K!EnvelopeClass
<1>2. /\ checks[1] = Pass => K!SessionIdFits(b)
      /\ checks[2] = Pass => b.flaw = "none"
      /\ checks[3] = Pass => Field(v, "errCode").type \in {"string", "null"}
      /\ checks[5] = Pass => K!OpensNothing(v) \/ opens
      /\ checks[7] = Pass => K!SessionPresence(v)
      /\ checks[8] = Pass => K!Denied(v) \/ ~K!OpensNothing(v)
  BY DEF Unless, Pass
<1> HIDE DEF checks
<1>3. FirstOf(checks) = Pass /\ Len(checks) \in Nat
  BY <1>1
<1>4. \A i \in 1..Len(checks) : checks[i] = Pass
  BY <1>3, FirstOfPass
<1>5. /\ checks[1] = Pass /\ checks[2] = Pass /\ checks[3] = Pass
      /\ checks[5] = Pass /\ checks[7] = Pass /\ checks[8] = Pass
  BY <1>1, <1>4
<1> QED  BY <1>2, <1>5

\* A field that is a string, a number or null, as it is spelled.
LEMMA SpelledIs ==
    ASSUME NEW v, IsJson(v), NEW key
    PROVE  /\ Field(v, key).type = "string" =>
                 Field(v, key) = Str(Field(v, key).text) /\ Text(v, key) = Field(v, key).text
           /\ Field(v, key).type = "number" => Field(v, key) = Num(Field(v, key).text)
           /\ Field(v, key).type = "null" => Field(v, key) = Null
           /\ Field(v, key).type # "string" => Text(v, key) = ""
<1>1. CASE key \in Keys(v)
  <2>1. IsLexeme(Field(v, key))
    BY <1>1, FieldLexeme DEF HoldsLexemes
  <2> QED  BY <2>1 DEF IsLexeme, Str, Num, Text
<1>2. CASE key \notin Keys(v)
  BY <1>2, FieldIs DEF Text
<1> QED  BY <1>1, <1>2

\* What stands for a resource was given to it by some spelling of the member.
LEMMA StandingIsGiven ==
    ASSUME NEW v, NEW member, NEW r, NEW text, Str(text) \in K!Standing(v, member, r)
    PROVE  \E map \in MapsOf(v, member) : Text(map, r) = text
<1>1. PICK i \in DOMAIN Spellings[member] : Str(text) = K!Field(K!Keyed(v, member, i), r)
  BY DEF K!Standing
<1>2. Field(K!Keyed(v, member, i), r) = Str(text)
  BY <1>1, KnockCopies
<1>3. Text(K!Keyed(v, member, i), r) = text
  BY <1>2 DEF Text, Str, Scalar
<1> QED  BY <1>3 DEF MapsOf

\* Of the spellings that speak of a resource there is a last one.
LEMMA LastExists ==
    ASSUME NEW n \in Nat, NEW S \in SUBSET (1..n), S # {}
    PROVE  \E i \in S : \A j \in S : j <= i
<1> DEFINE T == {n - i : i \in S}
<1>1. T \in SUBSET Nat /\ T # {}
  <2>1. \A i \in S : n - i \in Nat
    OBVIOUS
  <2> QED  BY <2>1
<1>2. PICK k \in T : \A j \in T : k <= j
  BY <1>1, LeastExists
<1>3. PICK i \in S : k = n - i
  BY <1>2
<1>4. ASSUME NEW j \in S PROVE j <= i
  <2>1. k <= n - j
    BY <1>2
  <2> QED  BY <1>3, <2>1
<1> QED  BY <1>4

\* If nothing but nulls stands for a resource, whatever a spelling gives it is
\* withdrawn by one.
LEMMA OthersWithdraw ==
    ASSUME NEW v, NEW member \in DOMAIN Spellings, NEW r,
           K!Standing(v, member, r) \subseteq {Null},
           NEW map \in MapsOf(v, member), r \in Keys(map)
    PROVE  \E other \in MapsOf(v, member) : other = Null \/ Field(other, r) = Null
<1> DEFINE n == Len(Spellings[member])
           speaking == {i \in 1..n : Has(K!Keyed(v, member, i), r)}
<1>1. n \in Nat /\ DOMAIN Spellings[member] = 1..n
  BY SpellingsAssumption
<1>2. speaking # {}
  BY <1>1 DEF MapsOf, Has
<1>3. PICK i \in speaking : \A j \in speaking : j <= i
  BY <1>1, <1>2, LastExists
<1>4. \A j \in 1..n : i < j => ~Has(K!Keyed(v, member, j), r)
  BY <1>1, <1>3
<1>5. CASE \E j \in 1..n : K!Keyed(v, member, j) = Null
  BY <1>1, <1>5 DEF MapsOf
<1>6. CASE \A j \in 1..n : K!Keyed(v, member, j) # Null
  <2>1. Field(K!Keyed(v, member, i), r) \in K!Standing(v, member, r)
    BY <1>1, <1>3, <1>4, <1>6, KnockCopies DEF K!Standing
  <2> QED  BY <1>1, <1>3, <2>1 DEF MapsOf
<1> QED  BY <1>5, <1>6

\* A row that promises a success is one the agent can use.
LEMMA SuccessSound == Jsons => SuccessRowsAreSound
<1> SUFFICES ASSUME Jsons, gate = "knock_reply", NEW row \in SuccessRows,
                    K!RowFits(row, body)
             PROVE  LET v == body.value
                        won == row.expected[1]
                    IN  /\ body.flaw = "none" /\ row.echoed /\ row.type = 2
                        /\ Field(v, "errCode") \in {Null, Str(""), Str("0")}
                        /\ Field(v, "sessId") = Num(won.session) /\ won.session # "0"
                        /\ Field(v, "opnTime") = Num(won.open) /\ won.open # "0"
                        /\ \E map \in MapsOf(v, "acTokens") :
                              Text(map, KnockId.resId) = won.token
                        /\ \E map \in MapsOf(v, "resHost") :
                              Text(map, KnockId.resId) = won.host
                        /\ \A map \in MapsOf(v, "preActions") : \A r \in Keys(map) :
                              Field(map, r) # Null =>
                                  \E other \in MapsOf(v, "preActions") :
                                      other = Null \/ Field(other, r) = Null
  BY DEF SuccessRowsAreSound
<1> DEFINE v == body.value
           won == row.expected[1]
<1>1. PICK r \in Results : row.expected = <<r>>
  <2>1. row.expected \in {<<r>> : r \in Results}
    BY DEF SuccessRows
  <2> QED  BY <2>1
<1>2. row.outcome = "success" /\ Len(row.expected) = 1
  BY <1>1 DEF SuccessRows
<1>3. row.echoed /\ row.type = 2
  BY <1>2 DEF K!RowFits, K!Disposition, K!ACK
<1>4. won.open # "0"
  <2>1. \A i \in DOMAIN row.expected : row.expected[i].open # "0"
    BY DEF K!RowFits, K!Promises
  <2> QED  BY <1>1, <2>1
<1>5. /\ Str(won.token) \in K!Standing(v, "acTokens", KnockId.resId)
      /\ Str(won.host) \in K!Standing(v, "resHost", KnockId.resId)
      /\ \A res \in K!Resources(v, "preActions") :
            K!Standing(v, "preActions", res) \subseteq {Null}
  BY <1>2, KnockCopies DEF K!RowFits, K!ResultAgrees
<1>6. /\ K!EnvelopeClass(body) = Pass
      /\ won.session = K!SessionOf(v) /\ won.open = K!OpenTimeOf(v)
  BY <1>2, <1>3, KnockCopies DEF K!RowFits, K!EnvelopeAgrees, K!ACK
<1>7. /\ K!SessionIdFits(body) /\ body.flaw = "none"
      /\ Field(v, "errCode").type \in {"string", "null"}
      /\ \/ K!OpensNothing(v)
         \/ Field(v, "opnTime").type = "number" /\ Field(v, "opnTime").text \in OpenTimes
      /\ K!SessionPresence(v)
      /\ K!Denied(v) \/ ~K!OpensNothing(v)
  BY <1>6, EnvelopePass
<1>8. ~K!Denied(v)
  BY <1>4, <1>6 DEF K!OpenTimeOf
<1>9. IsJson(v)
  BY DEF Jsons, BodyGateNames
<1>10. Field(v, "errCode") \in {Null, Str(""), Str("0")}
  <2>1. Text(v, "errCode") \in {"", "0"}
    BY <1>8, KnockCopies DEF K!Denied
  <2>2. CASE Field(v, "errCode").type = "string"
    BY <1>9, <2>1, <2>2, SpelledIs
  <2>3. CASE Field(v, "errCode").type = "null"
    BY <1>9, <2>3, SpelledIs
  <2> QED  BY <1>7, <2>2, <2>3
<1>11. Field(v, "sessId") = Num(won.session) /\ won.session # "0"
  <2>1. Has(v, "sessId")
    BY <1>7, <1>8, KnockCopies DEF K!SessionPresence
  <2>2. Field(v, "sessId").type = "number" /\ Field(v, "sessId").text \in SessionIds
    BY <1>7, <2>1, KnockCopies DEF K!SessionIdFits
  <2>3. won.session = Field(v, "sessId").text
    BY <1>6, <1>8, KnockCopies DEF K!SessionOf
  <2> QED  BY <1>9, <2>2, <2>3, SpelledIs, SessionIdsAssumption
<1>12. Field(v, "opnTime") = Num(won.open)
  <2>1. Field(v, "opnTime").type = "number"
    BY <1>7, <1>8
  <2>2. won.open = Field(v, "opnTime").text
    BY <1>6, <1>8, KnockCopies DEF K!OpenTimeOf
  <2> QED  BY <1>9, <2>1, <2>2, SpelledIs
<1>13. /\ \E map \in MapsOf(v, "acTokens") : Text(map, KnockId.resId) = won.token
       /\ \E map \in MapsOf(v, "resHost") : Text(map, KnockId.resId) = won.host
  BY <1>5, StandingIsGiven
<1>14. ASSUME NEW map \in MapsOf(v, "preActions"), NEW res \in Keys(map),
              Field(map, res) # Null
       PROVE  \E other \in MapsOf(v, "preActions") :
                 other = Null \/ Field(other, res) = Null
  <2>1. "preActions" \in DOMAIN Spellings
    BY SpellingsAssumption
  <2>2. PICK i \in DOMAIN Spellings["preActions"] : map = K!Keyed(v, "preActions", i)
    BY DEF MapsOf
  <2>3. res \in K!Resources(v, "preActions")
    BY <2>2, KnockCopies DEF K!Resources
  <2> QED  BY <1>5, <1>14, <2>1, <2>3, OthersWithdraw
<1> QED  BY <1>3, <1>4, <1>7, <1>10, <1>11, <1>12, <1>13, <1>14

----------------------------------------------------------------------------
(***************************************************************************)
(* Tickets.                                                                *)
(***************************************************************************)
ClaimNumbers ==
    gate = "claims" =>
        /\ body = Flawed(body.flaw, body.value)
        /\ \A k \in Keys(body.value) : WholeNumber(body.value.fields[k])

\* What is an object is no number.
LEMMA ObjectIsNoNumber ==
    ASSUME NEW v, IsObject(v) PROVE WholeNumber(v)
BY DEF IsObject, WholeNumber, IsInt

\* The numbers of the tickets that a run starts from are whole,
LEMMA InitNumbers == GatesInit => ClaimNumbers
<1> SUFFICES ASSUME GatesInit, gate = "claims"
             PROVE  /\ body = Flawed(body.flaw, body.value)
                    /\ \A k \in Keys(body.value) : WholeNumber(body.value.fields[k])
  BY DEF ClaimNumbers
<1>1. PICK seed \in Seeds["claims"] : body = seed.body
  BY DEF GatesInit, BodyInit, ValueInit, BodyGateNames
<1>2. /\ seed.body = Body(seed.body.value)
      /\ \A k \in Keys(seed.body.value) : WholeNumber(seed.body.value.fields[k])
  BY TicketAssumption
<1> QED  BY <1>1, <1>2, FlawedIs

\* an edit of the claims leaves them whole,
LEMMA ClaimEditKeeps ==
    ASSUME NEW v, \A k \in Keys(v) : WholeNumber(v.fields[k]),
           NEW w \in Edited(v, Lexicon["claims"])
    PROVE  \A k \in Keys(w) : WholeNumber(w.fields[k])
<1> DEFINE lexicon == Lexicon["claims"]
           Fourth(x) == FlatEdits(x, lexicon)
           Third(x) ==
               FlatEdits(x, lexicon) \cup EditsInside(x, [k \in Keys(x) |-> Fourth(Field(x, k))])
           Second(x) ==
               FlatEdits(x, lexicon) \cup EditsInside(x, [k \in Keys(x) |-> Third(Field(x, k))])
<1>1. w \in FlatEdits(v, lexicon) \cup EditsInside(v, [k \in Keys(v) |-> Second(Field(v, k))])
  BY DEF Edited
<1>2. CASE \E k \in Keys(v) : w = Without(v, k)
  BY <1>2, WithoutIs
<1>3. ASSUME NEW k, NEW x, w = With(v, k, x), WholeNumber(x)
      PROVE  \A j \in Keys(w) : WholeNumber(w.fields[j])
  BY <1>3, WithIs
<1>4. CASE \E k \in DOMAIN lexicon : \E x \in lexicon[k] : w = With(v, k, x)
  <2>1. PICK k \in DOMAIN lexicon : \E x \in lexicon[k] : w = With(v, k, x)
    BY <1>4
  <2>2. PICK x \in lexicon[k] : w = With(v, k, x)
    BY <2>1
  <2>3. WholeNumber(x)
    BY TicketAssumption
  <2> QED  BY <1>3, <2>2, <2>3
<1>5. ASSUME NEW x, NEW y \in Second(x) PROVE IsObject(y)
  <2> HIDE DEF Third
  <2>1. CASE y \in FlatEdits(x, lexicon)
    <3>1. CASE \E k \in Keys(x) : y = Without(x, k)
      BY <3>1, WithoutIs
    <3>2. CASE \E k \in DOMAIN lexicon : \E z \in lexicon[k] : y = With(x, k, z)
      BY <3>2, WithIs
    <3> QED  BY <2>1, <3>1, <3>2 DEF FlatEdits
  <2>2. CASE y \in EditsInside(x, [k \in Keys(x) |-> Third(Field(x, k))])
    <3>1. \E k \in Keys(x) : \E z \in Third(Field(x, k)) : y = With(x, k, z)
      BY <2>2 DEF EditsInside
    <3> QED  BY <3>1, WithIs
  <2> QED  BY <2>1, <2>2
<1>6. CASE w \in EditsInside(v, [k \in Keys(v) |-> Second(Field(v, k))])
  <2> HIDE DEF Second
  <2>1. PICK k \in Keys(v) : \E x \in Second(Field(v, k)) : w = With(v, k, x)
    BY <1>6 DEF EditsInside
  <2>2. PICK x \in Second(Field(v, k)) : w = With(v, k, x)
    BY <2>1
  <2>3. WholeNumber(x)
    BY <1>5, ObjectIsNoNumber
  <2> QED  BY <1>3, <2>2, <2>3
<1>7. CASE w \in FlatEdits(v, lexicon)
  BY <1>2, <1>4, <1>7 DEF FlatEdits
<1> QED  BY <1>1, <1>6, <1>7

\* and so does every step.
LEMMA NumbersKept == ClaimNumbers /\ [GatesNext]_gateVars => ClaimNumbers'
<1> SUFFICES ASSUME ClaimNumbers, [GatesNext]_gateVars, gate' = "claims"
             PROVE  /\ body' = Flawed(body'.flaw, body'.value)
                    /\ \A k \in Keys(body'.value) : WholeNumber(body'.value.fields[k])
  BY DEF ClaimNumbers
<1>1. /\ gate = "claims" /\ body = Flawed(body.flaw, body.value)
      /\ \A k \in Keys(body.value) : WholeNumber(body.value.fields[k])
  BY GateKept DEF ClaimNumbers
<1>2. CASE Edit
  <2>1. PICK w \in Edited(body.value, Lexicon["claims"]) : body' = Body(w)
    BY <1>1, <1>2 DEF Edit
  <2>2. \A k \in Keys(w) : WholeNumber(w.fields[k])
    BY <1>1, ClaimEditKeeps
  <2> QED  BY <2>1, <2>2, FlawedIs
<1>3. CASE EditClaims /\ ~Edit
  <2>1. PICK flaw \in Flaws : body' = Flawed(flaw, body.value)
    BY <1>3 DEF EditClaims
  <2> QED  BY <1>1, <2>1, FlawedIs
<1>4. CASE body' = body
  BY <1>1, <1>4
<1> QED  BY <1>1, <1>2, <1>3, <1>4
         DEF GatesNext, BodyNext, ValueNext, gateVars, BodyGateNames, Grow, Change,
             EditClaims, EditFence, TextGates, RecordGates

\* What the structure, the window and the placement of a ticket say.
LEMMA ClaimsPass ==
    ASSUME NEW b, ParseClaims(b) = Pass
    PROVE  /\ Keys(b.value) \subseteq Claims /\ RequiredClaims \subseteq Keys(b.value)
           /\ Typed(b.value) /\ Window(b.value) /\ Placement(b.value) = Pass
<1> DEFINE v == b.value
           closed == Keys(v) \subseteq Claims /\ RequiredClaims \subseteq Keys(v)
                     /\ Typed(v)
           first == <<Unless(b.flaw # "oversize", "size"),
                      Unless(b.flaw \in {"none", "utf8"} /\ IsObject(v), "claims"),
                      Unless(Keys(v) \subseteq Claims /\ RequiredClaims \subseteq Keys(v)
                               /\ Typed(v), "claims")>>
           checks == <<
               Unless(Profile(v), "claims"),
               Unless(Text(v, "environment_id") \in EnvironmentIds
                        /\ Text(v, "kid") \in Kids, "claims"),
               Unless(Window(v), "time"),
               Unless(Text(v, "jti") \in Jtis, "key_length"),
               Unless(Text(v, "agent_id") \in TicketAgents
                        /\ Text(v, "credential_key_id") \in TicketKeyIds, "claims"),
               Unless(Text(v, "agent_public_key_b64") \in PublicKeys, "key_length"),
               Unless({Text(v, "credential_key_hash_b64"),
                         Text(v, "credential_fence_b64"),
                         Text(v, "cell_fence_b64")} \subseteq Digests, "key_length"),
               Unless(/\ Text(v, "credential_kind") \in CredentialKinds
                        /\ At(v, "assignment_generation") >= 1
                        /\ At(v, "endpoint_revision") >= 1
                        /\ Text(v, "cell_id") # "", "claims"),
               Placement(v)>>
<1>1. Structure(b) = FirstOf(first) /\ Len(first) = 3
  BY DEF Structure
<1>2. ParseClaims(b) = IF Structure(b) # Pass THEN Structure(b) ELSE FirstOf(checks)
  BY DEF ParseClaims
<1>3. Len(checks) = 9
  OBVIOUS
<1>4. /\ checks[3] = Pass => Window(v)
      /\ checks[9] = Placement(v)
  BY DEF Unless, Pass
<1>5. first[3] = Pass => closed
  BY DEF Unless, Pass
<1> HIDE DEF first, checks
<1>6. FirstOf(first) = Pass /\ FirstOf(checks) = Pass
  BY <1>1, <1>2
<1>7. Len(first) \in Nat /\ Len(checks) \in Nat
  BY <1>1, <1>3
<1>8. \A i \in 1..Len(first) : first[i] = Pass
  BY <1>6, <1>7, FirstOfPass
<1>9. \A i \in 1..Len(checks) : checks[i] = Pass
  BY <1>6, <1>7, FirstOfPass
<1>10. first[3] = Pass /\ checks[3] = Pass /\ checks[9] = Pass
  BY <1>1, <1>3, <1>8, <1>9
<1> QED  BY <1>4, <1>5, <1>10

\* The fence of a placement is there when it has to be.
LEMMA PlacementPass ==
    ASSUME NEW v, Placement(v) = Pass
    PROVE  /\ Has(v, "assignment_fence_b64") <=> Text(v, "placement_mode") = "existing"
           /\ Has(v, "assignment_fence_b64") => Text(v, "assignment_fence_b64") \in Digests
<1> DEFINE placed == Text(v, "placement_mode")
           fenced == Has(v, "assignment_fence_b64")
           checks == <<Unless(placed \in {"new", "existing"}, "claims"),
                       Unless(fenced <=> placed = "existing", "claims"),
                       Unless(fenced => Text(v, "assignment_fence_b64") \in Digests,
                              "key_length")>>
<1>1. Placement(v) = FirstOf(checks) /\ Len(checks) = 3
  BY DEF Placement
<1>2. /\ checks[2] = Pass => (fenced <=> placed = "existing")
      /\ checks[3] = Pass => (fenced => Text(v, "assignment_fence_b64") \in Digests)
  BY DEF Unless, Pass
<1> HIDE DEF checks
<1>3. FirstOf(checks) = Pass /\ Len(checks) \in Nat
  BY <1>1
<1>4. \A i \in 1..Len(checks) : checks[i] = Pass
  BY <1>3, FirstOfPass
<1>5. checks[2] = Pass /\ checks[3] = Pass
  BY <1>1, <1>4
<1> QED  BY <1>2, <1>5

\* An accepted ticket names the fence of an assignment when there was one.
LEMMA Fenced == FencedWhenExisting
<1> SUFFICES ASSUME Taken
             PROVE  LET v == body.value
                    IN  /\ Text(v, "assignment_fence_b64") \in Digests
                              <=> Text(v, "placement_mode") = "existing"
                        /\ \A k \in Keys(v) : Field(v, k).type \in {"string", "number"}
  BY DEF FencedWhenExisting
<1> DEFINE v == body.value
<1>1. Typed(v) /\ Placement(v) = Pass
  BY ClaimsPass DEF Taken
<1>2. \A k \in Keys(v) : Field(v, k).type \in {"string", "number"}
  BY <1>1 DEF Typed, IsInt
<1>3. ~Has(v, "assignment_fence_b64") => Text(v, "assignment_fence_b64") = ""
  BY FieldIs DEF Has, Text
<1> QED  BY <1>1, <1>2, <1>3, PlacementPass, TicketAssumption

\* An accepted ticket is valid in the window around its issue and at no other time.
LEMMA Windowed == ClaimNumbers => TicketHasItsWindow
<1> DEFINE v == body.value
           issue == At(v, "iat")
           ready == At(v, "nbf")
           end == At(v, "exp")
<1> SUFFICES ASSUME ClaimNumbers, Taken
             PROVE  /\ ValidAt(v, issue)
                    /\ \A time \in 0..(issue + 2 * MaxLifetime) : ValidAt(v, time) =>
                          issue - NotBefore <= time /\ time < issue + MaxLifetime
  BY DEF TicketHasItsWindow
<1>1. Typed(v) /\ Window(v) /\ RequiredClaims \subseteq Keys(v)
  BY ClaimsPass DEF Taken
<1>2. ASSUME NEW c \in {"iat", "nbf", "exp"} PROVE At(v, c) \in Int
  <2>1. c \in Keys(v) /\ c \in Numbers
    BY <1>1 DEF RequiredClaims, Numbers
  <2>2. IsInt(v.fields[c])
    BY <1>1, <2>1, FieldIs DEF Typed
  <2>3. At(v, c) = v.fields[c].at
    BY <2>1, FieldIs DEF At
  <2> QED  BY <2>1, <2>2, <2>3 DEF ClaimNumbers, Taken, WholeNumber
<1>3. issue \in Int /\ ready \in Int /\ end \in Int
  BY <1>2
<1>4. NotBefore \in Nat /\ MaxLifetime \in Nat
  BY TicketAssumption
<1>5. ready = issue - NotBefore /\ end > issue /\ end - issue <= MaxLifetime
  BY <1>1 DEF Window
<1>6. \A time : ValidAt(v, time) <=> ready <= time /\ time < end
  BY DEF ValidAt
<1> HIDE DEF issue, ready, end
<1>7. ValidAt(v, issue)
  BY <1>3, <1>5, <1>6, <1>4
<1>8. ASSUME NEW time \in 0..(issue + 2 * MaxLifetime), ValidAt(v, time)
      PROVE  issue - NotBefore <= time /\ time < issue + MaxLifetime
  <2>1. time \in Int /\ ready <= time /\ time < end
    BY <1>3, <1>6, <1>8, <1>4
  <2> QED  BY <1>3, <1>5, <1>4, <2>1
<1> QED  BY <1>7, <1>8

(***************************************************************************)
(* What is accepted can be acted on: an error has a delay only where it    *)
(* may be tried again, and one that is rate limited has it; a success that *)
(* a row promises opens the session that the row states, which is not      *)
(* zero, with a token and a host that some spelling of the maps has for    *)
(* the resource that was knocked for, and every action before access that  *)
(* the body asks for is taken back by another spelling (schema.go:2617,    *)
(* 3268, 3373); a ticket has a window in which it is valid and the fence   *)
(* its placement needs (tools/verify-assignment-ticket/main.go:149, 226).  *)
(***************************************************************************)
THEOREM Usable == GatesSpec => []AcceptedIsUsable
<1>1. Jsons /\ ClaimNumbers => AcceptedIsUsable
  BY DelayTells, SuccessSound, Windowed, Fenced DEF AcceptedIsUsable
<1> QED  BY <1>1, InitJsons, JsonsKept, InitNumbers, NumbersKept, PTL DEF GatesSpec

----------------------------------------------------------------------------
(***************************************************************************)
(* Signatures.                                                             *)
(***************************************************************************)

\* A signature was made with a scalar of the group.
Signer == gate = "der" => IsSignature(body)
\* The fields of a request are what they are read as.
Request ==
    gate = "upload" => /\ about \in Operations
                       /\ \A field \in Fields[about] \cup {"signature", "body"} :
                             field \in DOMAIN body /\ FieldFits(field, body[field])

\* They are at first,
LEMMA InitSigned == GatesInit => Signer /\ Request
<1>1. \A g \in {"der", "upload"} : g \notin BodyGateNames
  BY DEF BodyGateNames
<1> QED
  BY <1>1, SignatureAssumption, UploadAssumption
  DEF GatesInit, BodyInit, ValueInit, Signer, Request

\* Of the steps only Change is one of a record.
LEMMA RecordSteps ==
    ASSUME [GatesNext]_gateVars, gate \in RecordGates
    PROVE  /\ gate' = gate /\ about' = about
           /\ \/ body' = body
              \/ \E field \in DOMAIN Records[gate] : \E value \in Records[gate][field] :
                    body' = [body EXCEPT ![field] = value]
<1>1. gate \notin BodyGateNames /\ gate \notin TextGates /\ gate # "claims" /\ gate # "fence"
  BY DEF RecordGates, BodyGateNames, TextGates
<1> QED
  BY <1>1 DEF GatesNext, gateVars, BodyNext, ValueNext, Grow, Change, EditClaims, EditFence

\* and no edit makes anything else of them.
LEMMA SignedKept == Signer /\ Request /\ [GatesNext]_gateVars => Signer' /\ Request'
<1> SUFFICES ASSUME Signer, Request, [GatesNext]_gateVars PROVE Signer' /\ Request'
  OBVIOUS
<1>1. gate' = gate /\ about' = about
  BY GateKept
<1>2. Signer'
  <2> SUFFICES ASSUME gate = "der" PROVE IsSignature(body')
    BY <1>1 DEF Signer
  <2>1. CASE body' = body
    BY <2>1 DEF Signer
  <2>2. CASE \E field \in DOMAIN Records["der"] : \E value \in Records["der"][field] :
                body' = [body EXCEPT ![field] = value]
    <3>1. PICK field \in DOMAIN Records["der"] : \E value \in Records["der"][field] :
                body' = [body EXCEPT ![field] = value]
      BY <2>2
    <3>2. PICK value \in Records["der"][field] : body' = [body EXCEPT ![field] = value]
      BY <3>1
    <3>3. field # "by" /\ IsSignature(body)
      BY SignatureAssumption DEF Signer
    <3>4. body = [canonical |-> body.canonical, r |-> body.r, s |-> body.s, by |-> body.by]
      BY <3>3 DEF IsSignature
    <3>5. body'.by = body.by
      BY <3>2, <3>3, <3>4
    <3>6. body' = [canonical |-> body'.canonical, r |-> body'.r, s |-> body'.s, by |-> body'.by]
      BY <3>2, <3>4
    <3> QED  BY <3>3, <3>5, <3>6 DEF IsSignature
  <2> QED  BY <2>1, <2>2, RecordSteps DEF RecordGates
<1>3. Request'
  <2> SUFFICES ASSUME gate = "upload", NEW f \in Fields[about] \cup {"signature", "body"}
               PROVE  f \in DOMAIN body' /\ FieldFits(f, body'[f])
    BY <1>1 DEF Request
  <2>1. f \in DOMAIN body /\ FieldFits(f, body[f])
    BY DEF Request
  <2>2. CASE body' = body
    BY <2>1, <2>2
  <2>3. CASE \E field \in DOMAIN Records["upload"] : \E value \in Records["upload"][field] :
                body' = [body EXCEPT ![field] = value]
    <3>1. PICK field \in DOMAIN Records["upload"] : \E value \in Records["upload"][field] :
                body' = [body EXCEPT ![field] = value]
      BY <2>3
    <3>2. PICK value \in Records["upload"][field] : body' = [body EXCEPT ![field] = value]
      BY <3>1
    <3>3. FieldFits(field, value)
      BY UploadAssumption
    <3>4. DOMAIN body' = DOMAIN body /\ body'[f] = IF f = field THEN value ELSE body[f]
      BY <2>1, <3>2
    <3> QED  BY <2>1, <3>3, <3>4
  <2> QED  BY <2>2, <2>3, RecordSteps DEF RecordGates
<1> QED  BY <1>2, <1>3

\* Of two twins the ticket carries one, which verifies as the returned one did.
LEMMA Twins == Signer => NormalisedOnce
<1> DEFINE raw == DerToRaw(body)
           x == [body EXCEPT !.s = LowS(body.s)]
           other == [body EXCEPT !.s = Order - body.s]
<1> SUFFICES ASSUME Signer, gate = "der", raw # <<>>
             PROVE  /\ raw = DerToRaw(other)
                    /\ VerifySignature(raw[1], about) =
                          Unless(Verifies(body, about), "signature_mismatch")
  BY DEF NormalisedOnce
<1>1. /\ body = [canonical |-> body.canonical, r |-> body.r, s |-> body.s, by |-> body.by]
      /\ body.by.s \in Scalars
  BY DEF Signer, IsSignature
<1>2. body.canonical /\ InRange(body) /\ raw = <<x>>
  BY DEF DerToRaw
<1>3. body.r \in Scalars /\ body.s \in Scalars
  BY <1>2 DEF InRange
<1>4. /\ x.canonical = body.canonical /\ x.r = body.r /\ x.s = LowS(body.s) /\ x.by = body.by
      /\ other.canonical = body.canonical /\ other.r = body.r /\ other.s = Order - body.s
  BY <1>1
<1>5. Order - body.s \in Scalars
  BY <1>3, Halves DEF Scalars
<1>6. DerToRaw(other) = <<[other EXCEPT !.s = LowS(Order - body.s)]>>
  BY <1>2, <1>3, <1>4, <1>5 DEF DerToRaw, InRange
<1>7. [other EXCEPT !.s = LowS(body.s)] = x
  BY <1>1
<1>8. raw = DerToRaw(other)
  BY <1>2, <1>3, <1>6, <1>7, LowTwin
<1>9. x.canonical /\ InRange(x) /\ x.s <= Half
  BY <1>2, <1>3, <1>4, LowTwin DEF InRange
<1>10. Verifies(x, about) <=> Verifies(body, about)
  <2>1. LowS(body.s) \in {body.by.s, Order - body.by.s}
           <=> body.s \in {body.by.s, Order - body.by.s}
    BY <1>1, <1>3, Halves DEF LowS, Scalars
  <2> QED  BY <1>4, <2>1 DEF Verifies
<1>11. VerifySignature(x, about) = Unless(Verifies(x, about), "signature_mismatch")
  BY <1>9, VerifyIs
<1>12. raw[1] = x
  BY <1>2
<1>13. Unless(Verifies(x, about), "signature_mismatch")
          = Unless(Verifies(body, about), "signature_mismatch")
  BY <1>10 DEF Unless
<1> HIDE DEF raw, x, other
<1> QED  BY <1>8, <1>11, <1>12, <1>13

\* A preimage stands for one domain and one list of fields of a length.
LEMMA FramedOnce ==
    ASSUME NEW d \in Seq(Nat \ {0}), NEW e \in Seq(Nat \ {0}),
           NEW f \in Seq(Bytes), NEW g \in Seq(Bytes),
           Framed(d, f) = Framed(e, g)
    PROVE  d = e /\ (Len(f) = Len(g) => f = g)
<1>1. \A s \in Seq(Bytes) : FlattenSeq(s) \in Bytes
  <2> SUFFICES ASSUME NEW s \in Seq(Bytes) PROVE FlattenSeq(s) \in Bytes
    OBVIOUS
  <2>1. Len(s) \in 0..Len(s)
    BY UptoIs
  <2> QED  BY <2>1, UptoIs
<1>2. PICK x \in Bytes : x = FlattenSeq(Lengthened(f))
  BY <1>1, LengthenedIs
<1>3. PICK y \in Bytes : y = FlattenSeq(Lengthened(g))
  BY <1>1, LengthenedIs
<1>4. Ended(d, x) = Ended(e, y)
  BY <1>2, <1>3 DEF Framed, Lengthened, Ended
<1>5. d = e /\ x = y
  BY <1>4, ZeroEnds
<1>6. Len(f) = Len(g) => f = g
  BY <1>2, <1>3, <1>5, FieldsOnce
<1> QED  BY <1>5, <1>6

\* Names as they are listed.
Listed(names) == names = [i \in 1..Len(names) |-> names[i]] /\ Len(names) \in Nat

\* Selected fields are a list of byte texts,
LEMMA SelectedIs ==
    ASSUME NEW names, Listed(names), NEW r, \A field \in ToSet(names) : r[field] \in Seq(Nat)
    PROVE  /\ Selected(r, names) = [i \in 1..Len(names) |-> r[names[i]]]
           /\ Selected(r, names) \in Seq(Bytes) /\ Len(Selected(r, names)) = Len(names)
<1>1. Selected(r, names) = [i \in 1..Len(names) |-> r[names[i]]]
  BY DEF Selected, Listed
<1>2. \A i \in 1..Len(names) : names[i] \in ToSet(names) /\ r[names[i]] \in Bytes
  BY DEF ToSet, Bytes, Listed
<1> QED  BY <1>1, <1>2 DEF Listed

\* and when they are framed they are known from the bytes.
LEMMA SelectedOnce ==
    ASSUME NEW d \in Seq(Nat \ {0}), NEW names, Listed(names), NEW r, NEW q,
           \A field \in ToSet(names) : r[field] \in Seq(Nat) /\ q[field] \in Seq(Nat)
    PROVE  Framed(d, Selected(r, names)) = Framed(d, Selected(q, names))
               <=> \A field \in ToSet(names) : r[field] = q[field]
<1>1. /\ Selected(r, names) = [i \in 1..Len(names) |-> r[names[i]]]
      /\ Selected(q, names) = [i \in 1..Len(names) |-> q[names[i]]]
      /\ Selected(r, names) \in Seq(Bytes) /\ Len(Selected(r, names)) = Len(names)
      /\ Selected(q, names) \in Seq(Bytes) /\ Len(Selected(q, names)) = Len(names)
  BY SelectedIs
<1>2. Framed(d, Selected(r, names)) = Framed(d, Selected(q, names))
         <=> Selected(r, names) = Selected(q, names)
  BY <1>1, FramedOnce
<1>3. Selected(r, names) = Selected(q, names)
         <=> \A i \in 1..Len(names) : r[names[i]] = q[names[i]]
  <2>1. ASSUME Selected(r, names) = Selected(q, names), NEW i \in 1..Len(names)
        PROVE  r[names[i]] = q[names[i]]
    <3>1. Selected(r, names)[i] = r[names[i]] /\ Selected(q, names)[i] = q[names[i]]
      BY <1>1
    <3> QED  BY <2>1, <3>1
  <2>2. ASSUME \A i \in 1..Len(names) : r[names[i]] = q[names[i]]
        PROVE  [i \in 1..Len(names) |-> r[names[i]]] = [i \in 1..Len(names) |-> q[names[i]]]
    BY <2>2
  <2> QED  BY <1>1, <2>1, <2>2
<1>4. (\A i \in 1..Len(names) : r[names[i]] = q[names[i]])
         <=> \A field \in ToSet(names) : r[field] = q[field]
  BY DEF ToSet, Listed
<1> QED  BY <1>2, <1>3, <1>4

\* The fields that an operation signs are those that its headers carry, and its stable
\* fields are those that an attempt does not choose.
LEMMA FieldNames ==
    /\ \A o \in Operations :
          /\ Listed(SignedFields[o]) /\ Listed(StableFields[o])
          /\ ToSet(SignedFields[o]) = Carried[o]
    /\ ToSet(StableFields["upload"]) = Carried["upload"] \ PerAttempt
    /\ ToSet(StableFields["refresh"]) = {"client"} \cup BodyFields
    /\ Carried["refresh"] \ PerAttempt = {"client", "digest", "length", "request_id"}
<1>1. \A o \in Operations : Listed(SignedFields[o]) /\ Listed(StableFields[o])
  BY DEF Operations, SignedFields, StableFields, Listed
<1>2. ToSet(SignedFields["upload"]) = Carried["upload"]
  BY DEF ToSet, SignedFields, Carried
<1>3. ToSet(SignedFields["refresh"]) = Carried["refresh"]
  BY DEF ToSet, SignedFields, Carried
<1>4. ToSet(StableFields["upload"]) = Carried["upload"] \ PerAttempt
  BY DEF ToSet, StableFields, Carried, PerAttempt
<1>5. ToSet(StableFields["refresh"]) = {"client"} \cup BodyFields
  BY DEF ToSet, StableFields, BodyFields
<1>6. Carried["refresh"] \ PerAttempt = {"client", "digest", "length", "request_id"}
  BY DEF Carried, PerAttempt
<1> QED  BY <1>1, <1>2, <1>3, <1>4, <1>5, <1>6 DEF Operations

\* All of them are fields of the operation.
LEMMA FieldsHold ==
    ASSUME NEW o \in Operations
    PROVE  Carried[o] \subseteq Fields[o] /\ ToSet(StableFields[o]) \subseteq Fields[o]
           /\ Fields[o] \subseteq AllFields
           /\ BodyFields \subseteq Fields["refresh"]
<1>1. Fields["upload"] = Carried["upload"]
      /\ Fields["refresh"] = Carried["refresh"] \cup BodyFields
  BY DEF Fields
<1>2. "client" \in Carried["refresh"]
  BY DEF Carried
<1>3. Fields[o] \subseteq AllFields
  BY DEF AllFields
<1> QED  BY <1>1, <1>2, <1>3, FieldNames DEF Operations

\* Canonical bytes stand for the fields that they cover,
LEMMA SignedOnly ==
    ASSUME NEW o \in Operations, NEW r, NEW q,
           \A field \in Carried[o] : r[field] \in Seq(Nat) /\ q[field] \in Seq(Nat)
    PROVE  CanonicalBytes(o, r) = CanonicalBytes(o, q)
               <=> \A field \in Carried[o] : r[field] = q[field]
<1> DEFINE m == SignedFields[o]
<1>1. Listed(m) /\ ToSet(m) = Carried[o]
  BY FieldNames
<1>2. \A field \in ToSet(m) : r[field] \in Seq(Nat) /\ q[field] \in Seq(Nat)
  BY <1>1
<1>3. Domain[o] \in Seq(Nat \ {0})
  BY UploadAssumption
<1>4. /\ CanonicalBytes(o, r) = Framed(Domain[o], Selected(r, m))
      /\ CanonicalBytes(o, q) = Framed(Domain[o], Selected(q, m))
  BY DEF CanonicalBytes
<1> HIDE DEF m
<1>5. Framed(Domain[o], Selected(r, m)) = Framed(Domain[o], Selected(q, m))
         <=> \A field \in ToSet(m) : r[field] = q[field]
  BY <1>1, <1>2, <1>3, SelectedOnce
<1> QED  BY <1>1, <1>4, <1>5

\* and for one operation.
LEMMA CanonicalOnce ==
    ASSUME NEW o \in Operations, NEW p \in Operations, NEW r, NEW q,
           \A field \in Fields[o] : r[field] \in Seq(Nat),
           \A field \in Fields[p] : q[field] \in Seq(Nat),
           CanonicalBytes(o, r) = CanonicalBytes(p, q)
    PROVE  o = p /\ \A field \in Carried[o] : r[field] = q[field]
<1>1. /\ Listed(SignedFields[o]) /\ ToSet(SignedFields[o]) = Carried[o]
      /\ Listed(SignedFields[p]) /\ ToSet(SignedFields[p]) = Carried[p]
  BY FieldNames
<1>2. /\ \A field \in Carried[o] : r[field] \in Seq(Nat)
      /\ \A field \in Carried[p] : q[field] \in Seq(Nat)
  BY FieldsHold
<1>3. /\ Selected(r, SignedFields[o]) \in Seq(Bytes)
      /\ Selected(q, SignedFields[p]) \in Seq(Bytes)
  BY <1>1, <1>2, SelectedIs
<1>4. Domain[o] \in Seq(Nat \ {0}) /\ Domain[p] \in Seq(Nat \ {0})
  BY UploadAssumption
<1>5. Domain[o] = Domain[p]
  BY <1>3, <1>4, FramedOnce DEF CanonicalBytes
<1>6. o = p
  BY <1>5, UploadAssumption DEF Operations
<1>7. CanonicalBytes(o, r) = CanonicalBytes(o, q)
  BY <1>6
<1>8. \A field \in Carried[o] : r[field] \in Seq(Nat) /\ q[field] \in Seq(Nat)
  BY <1>2, <1>6
<1>9. \A field \in Carried[o] : r[field] = q[field]
  BY <1>7, <1>8, SignedOnly
<1> QED  BY <1>6, <1>9

\* What the checks of an accepted request say of its signature and its body.
LEMMA UploadPass ==
    ASSUME NEW o, NEW r, RejectClass(o, r) = Pass
    PROVE  /\ VerifySignature(r.signature, CanonicalBytes(o, r)) = Pass
           /\ Digest[r.body] = r.digest
<1> DEFINE checks == <<
      Unless(r.method = Method[o] /\ r.path = Path, "method_path"),
      Unless(~r.forbidden, "forbidden_header"),
      Unless(r.authority \in Authorities, "authority"),
      Unless(r.nonce \in UploadNonces, "nonce"),
      Unless(o = "upload" => r.audience \in Audiences, "audience_key_id"),
      VerifySignature(r.signature, CanonicalBytes(o, r)),
      Unless(Digest[r.body] = r.digest, "body_digest")>>
<1>1. RejectClass(o, r) = FirstOf(checks) /\ Len(checks) = 7
  BY DEF RejectClass
<1>2. /\ checks[6] = VerifySignature(r.signature, CanonicalBytes(o, r))
      /\ checks[7] = Pass => Digest[r.body] = r.digest
  BY DEF Unless, Pass
<1> HIDE DEF checks
<1>3. FirstOf(checks) = Pass /\ Len(checks) \in Nat
  BY <1>1
<1>4. \A i \in 1..Len(checks) : checks[i] = Pass
  BY <1>3, FirstOfPass
<1>5. checks[6] = Pass /\ checks[7] = Pass
  BY <1>1, <1>4
<1> QED  BY <1>2, <1>5

\* A server acts on no request but the signed one.
LEMMA AsSigned == Request => UploadIsAsSigned
<1> SUFFICES ASSUME Request, gate = "upload", RejectClass(about, body) = Pass
             PROVE  /\ body.signature.s = LowS(body.signature.by.s)
                    /\ \A operation \in Operations : \A other \in Uploads[operation] :
                          CanonicalBytes(operation, other) = body.signature.by.message =>
                              /\ operation = about /\ other.body = body.body
                              /\ \A field \in Carried[about] : other[field] = body[field]
  BY DEF UploadIsAsSigned, UploadClass
<1> DEFINE x == body.signature
<1>1. /\ VerifySignature(x, CanonicalBytes(about, body)) = Pass
      /\ Digest[body.body] = body.digest
  BY UploadPass
<1>2. InRange(x) /\ x.s <= Half /\ Verifies(x, CanonicalBytes(about, body))
  BY <1>1, VerifyIs
<1>3. about \in Operations /\ x.by.s \in Scalars
  BY DEF Request, FieldFits, IsSignature
<1>4. x.s = LowS(x.by.s)
  <2>1. x.s \in Scalars /\ x.s \in {x.by.s, Order - x.by.s}
    BY <1>2 DEF InRange, Verifies
  <2> QED  BY <1>2, <1>3, <2>1, Halves DEF LowS, Scalars
<1>5. ASSUME NEW operation \in Operations, NEW other \in Uploads[operation],
             CanonicalBytes(operation, other) = x.by.message
      PROVE  /\ operation = about /\ other.body = body.body
             /\ \A field \in Carried[about] : other[field] = body[field]
  <2>1. CanonicalBytes(operation, other) = CanonicalBytes(about, body)
    BY <1>2, <1>5 DEF Verifies
  <2>2. \A field \in Fields[operation] : other[field] \in Seq(Nat)
    BY UploadAssumption
  <2>3. \A field \in Fields[about] : body[field] \in Seq(Nat)
    BY <1>3, FieldsHold DEF Request, FieldFits
  <2>4. operation = about /\ \A field \in Carried[operation] : other[field] = body[field]
    BY <1>3, <2>1, <2>2, <2>3, CanonicalOnce
  <2>5. other.digest = body.digest
    <3>1. "digest" \in Carried[operation]
      BY DEF Carried, Operations
    <3> QED  BY <2>4, <3>1
  <2>6. /\ other.body \in DOMAIN Digest /\ other.digest = Digest[other.body]
        /\ body.body \in DOMAIN Digest
    BY <1>3, UploadAssumption DEF Request, FieldFits, Consistent
  <2>7. other.body = body.body
    BY <1>1, <2>5, <2>6, UploadAssumption
  <2> QED  BY <2>4, <2>7
<1> QED  BY <1>4, <1>5

(***************************************************************************)
(* A signature has one spelling and stands for one request: whichever twin *)
(* KMS returns, the ticket carries the low one, and an accepted upload or  *)
(* refresh is, in its operation, its body and all that its request line    *)
(* and headers carry, of whatever length, the one its client signed        *)
(* (tools/verify-assignment-ticket/main.go:653, private_upload_v1.go:83,   *)
(* 347, 660).                                                              *)
(***************************************************************************)
THEOREM Once == GatesSpec => []SignedOnce
<1>1. Signer /\ Request => SignedOnce
  BY Twins, AsSigned DEF SignedOnce
<1> QED  BY <1>1, InitSigned, SignedKept, PTL DEF GatesSpec

----------------------------------------------------------------------------
(***************************************************************************)
(* Digests.                                                                *)
(***************************************************************************)

\* Stable bytes stand for the fields that they cover.
LEMMA StableOnce ==
    ASSUME NEW o \in Operations, NEW r, NEW q,
           \A field \in Fields[o] : r[field] \in Seq(Nat) /\ q[field] \in Seq(Nat)
    PROVE  StableBytes(o, r) = StableBytes(o, q)
               <=> \A field \in ToSet(StableFields[o]) : r[field] = q[field]
<1> DEFINE m == StableFields[o]
<1>1. Listed(m)
  BY FieldNames
<1>2. \A field \in ToSet(m) : r[field] \in Seq(Nat) /\ q[field] \in Seq(Nat)
  BY FieldsHold
<1>3. StableDomain[o] \in Seq(Nat \ {0})
  BY UploadAssumption
<1>4. /\ StableBytes(o, r) = Framed(StableDomain[o], Selected(r, m))
      /\ StableBytes(o, q) = Framed(StableDomain[o], Selected(q, m))
  BY DEF StableBytes
<1> HIDE DEF m
<1>5. Framed(StableDomain[o], Selected(r, m)) = Framed(StableDomain[o], Selected(q, m))
         <=> \A field \in ToSet(m) : r[field] = q[field]
  BY <1>1, <1>2, <1>3, SelectedOnce
<1> QED  BY <1>4, <1>5 DEF m

\* A retry is known by its stable digest, and nothing else is taken for one.
LEMMA RetryKnown == Request => RetryIsTheSameUpload
<1> SUFFICES ASSUME Request, gate = "upload", RejectClass(about, body) = Pass,
                    Consistent(about, body), NEW other \in Uploads[about]
             PROVE  StableBytes(about, other) = StableBytes(about, body) <=>
                        /\ other.body = body.body
                        /\ \A field \in Carried[about] \ PerAttempt :
                              other[field] = body[field]
  BY DEF RetryIsTheSameUpload, UploadClass
<1>1. /\ about \in Operations /\ body.body \in DOMAIN Digest
      /\ \A field \in Fields[about] : body[field] \in Seq(Nat)
  BY FieldsHold DEF Request, FieldFits
<1>2. /\ other.body \in DOMAIN Digest /\ Consistent(about, other)
      /\ \A field \in Fields[about] : other[field] \in Seq(Nat)
  BY <1>1, UploadAssumption
<1>3. StableBytes(about, other) = StableBytes(about, body)
         <=> \A field \in ToSet(StableFields[about]) : other[field] = body[field]
  BY <1>1, <1>2, StableOnce
<1>4. /\ body.digest = Digest[body.body] /\ body.length = Length[body.body]
      /\ other.digest = Digest[other.body] /\ other.length = Length[other.body]
  BY <1>2 DEF Consistent
<1>5. CASE about = "upload"
  <2>1. "digest" \in Carried["upload"] \ PerAttempt
    BY DEF Carried, PerAttempt
  <2>2. other.digest = body.digest => other.body = body.body
    BY <1>1, <1>2, <1>4, UploadAssumption
  <2> QED  BY <1>3, <1>5, <2>1, <2>2, FieldNames
<1>6. CASE about = "refresh"
  <2>1. /\ body.body \in DOMAIN Content /\ other.body \in DOMAIN Content
        /\ \A field \in BodyFields : /\ body[field] = Content[body.body][field]
                                     /\ other[field] = Content[other.body][field]
    BY <1>2, <1>6 DEF Consistent
  <2>2. (\A field \in BodyFields : other[field] = body[field]) => other.body = body.body
    BY <2>1, UploadAssumption
  <2>3. other.body = body.body =>
           /\ other.digest = body.digest /\ other.length = body.length
           /\ \A field \in BodyFields : other[field] = body[field]
    BY <1>4, <2>1
  <2>4. StableBytes(about, other) = StableBytes(about, body)
           <=> /\ other.client = body.client
               /\ \A field \in BodyFields : other[field] = body[field]
    BY <1>3, <1>6, FieldNames
  <2>5. (\A field \in Carried[about] \ PerAttempt : other[field] = body[field])
           <=> /\ other.client = body.client /\ other.digest = body.digest
               /\ other.length = body.length /\ other.request_id = body.request_id
    BY <1>6, FieldNames
  <2>6. (\A field \in BodyFields : other[field] = body[field])
            => other.request_id = body.request_id
    BY DEF BodyFields
  <2> QED  BY <2>2, <2>3, <2>4, <2>5, <2>6
<1> QED  BY <1>1, <1>5, <1>6 DEF Operations

----------------------------------------------------------------------------
\* A fence is edited into lists of parts that its kind may have.
Fence == gate = "fence" => about \in DOMAIN Fences /\ body \in Seq(FenceParts(about))

\* It is one at first,
LEMMA InitFence == GatesInit => Fence
<1>1. "fence" \notin BodyGateNames
  BY DEF BodyGateNames
<1> QED  BY <1>1, FenceAssumption DEF GatesInit, BodyInit, ValueInit, Fence

\* What an edit makes of a list is one of the same parts.
LEMMA FenceEdits ==
    ASSUME NEW S, NEW s \in Seq(S), NEW i \in DOMAIN s
    PROVE  /\ \A part \in S : [s EXCEPT ![i] = part] \in Seq(S)
           /\ SubSeq(s, 1, i - 1) \o SubSeq(s, i + 1, Len(s)) \in Seq(S)
           /\ i < Len(s) => [s EXCEPT ![i] = s[i + 1], ![i + 1] = s[i]] \in Seq(S)
<1>1. i \in 1..Len(s) /\ Len(s) \in Nat /\ \A k \in 1..Len(s) : s[k] \in S
  OBVIOUS
<1>2. SubSeq(s, 1, i - 1) \in Seq(S)
  BY <1>1, SubSeqProperties
<1>3. SubSeq(s, i + 1, Len(s)) \in Seq(S)
  BY <1>1, SubSeqProperties
<1>4. \A part \in S : [s EXCEPT ![i] = part] \in Seq(S)
  BY <1>1, ExceptSeq
<1>5. ASSUME i < Len(s) PROVE [s EXCEPT ![i] = s[i + 1], ![i + 1] = s[i]] \in Seq(S)
  <2>1. i + 1 \in 1..Len(s) /\ s[i] \in S /\ s[i + 1] \in S
    BY <1>1, <1>5
  <2> QED  BY <1>1, <2>1
<1> QED  BY <1>2, <1>3, <1>4, <1>5, ConcatIs

\* and after each step.
LEMMA FenceKept == Fence /\ [GatesNext]_gateVars => Fence'
<1> SUFFICES ASSUME Fence, [GatesNext]_gateVars, gate = "fence" PROVE Fence'
  BY GateKept DEF Fence
<1> DEFINE S == FenceParts(about)
<1>1. gate' = gate /\ about' = about /\ S' = S
  BY GateKept DEF FenceParts
<1>2. about \in DOMAIN Fences /\ body \in Seq(S)
  BY DEF Fence
<1>3. \A part \in Parts[about] : part \in S
  BY DEF FenceParts
<1> HIDE DEF S
<1>4. CASE EditFence
  <2>1. PICK i \in DOMAIN body :
          \/ \E part \in Parts[about] : body' = [body EXCEPT ![i] = part]
          \/ body' = SubSeq(body, 1, i - 1) \o SubSeq(body, i + 1, Len(body))
          \/ /\ i < Len(body)
             /\ body' = [body EXCEPT ![i] = body[i + 1], ![i + 1] = body[i]]
    BY <1>4 DEF EditFence
  <2>2. /\ \A part \in S : [body EXCEPT ![i] = part] \in Seq(S)
        /\ SubSeq(body, 1, i - 1) \o SubSeq(body, i + 1, Len(body)) \in Seq(S)
        /\ i < Len(body) => [body EXCEPT ![i] = body[i + 1], ![i + 1] = body[i]] \in Seq(S)
    BY <1>2, FenceEdits
  <2>3. (\E part \in Parts[about] : body' = [body EXCEPT ![i] = part]) => body' \in Seq(S)
    BY <1>3, <2>2
  <2>4. body' \in Seq(S)
    BY <2>1, <2>2, <2>3
  <2> QED  BY <1>1, <1>2, <2>4 DEF Fence, S
<1>5. CASE body' = body
  BY <1>1, <1>2, <1>5 DEF Fence, S
<1>6. EditFence \/ body' = body
  <2>1. gate \notin BodyGateNames /\ gate \notin TextGates /\ gate \notin RecordGates
        /\ gate # "claims"
    BY DEF RecordGates, BodyGateNames, TextGates
  <2> QED
    BY <2>1 DEF GatesNext, gateVars, BodyNext, ValueNext, Grow, Change, EditClaims
<1> QED  BY <1>4, <1>5, <1>6

\* The order of texts is strict: no two of them are each before the other.
LEMMA BeforeOnce ==
    ASSUME NEW s \in Seq(Nat), NEW t \in Seq(Nat), Before(s, t)
    PROVE  ~Before(t, s)
<1> DEFINE Prefix(x, y) == Len(x) < Len(y) /\ \A i \in 1..Len(x) : x[i] = y[i]
           Differ(x, y) == \E i \in 1..Len(x) : /\ i \in 1..Len(y) /\ x[i] < y[i]
                                               /\ \A j \in 1..(i - 1) : x[j] = y[j]
<1>1. ASSUME NEW x \in Seq(Nat), NEW y \in Seq(Nat)
      PROVE  IsStrictPrefix(x, y) => Prefix(x, y)
  <2> SUFFICES ASSUME IsStrictPrefix(x, y) PROVE Prefix(x, y)
    OBVIOUS
  <2>1. Len(x) <= Len(y) /\ SubSeq(x, 1, Len(x)) = SubSeq(y, 1, Len(x)) /\ x # y
    BY DEF IsStrictPrefix, IsPrefix
  <2>2. \A i \in 1..Len(x) : SubSeq(x, 1, Len(x))[i] = x[i] /\ SubSeq(y, 1, Len(x))[i] = y[i]
    BY <2>1
  <2>3. \A i \in 1..Len(x) : x[i] = y[i]
    BY <2>1, <2>2
  <2>4. Len(x) # Len(y)
    BY <2>1, <2>3, SeqEqual
  <2> QED  BY <2>1, <2>3, <2>4
<1>2. ASSUME NEW x \in Seq(Nat), NEW y \in Seq(Nat), Before(x, y)
      PROVE  Prefix(x, y) \/ Differ(x, y)
  <2>1. CASE IsStrictPrefix(x, y)
    BY <1>1, <2>1
  <2>2. CASE ~IsStrictPrefix(x, y)
    <3>1. DOMAIN x = 1..Len(x) /\ DOMAIN y = 1..Len(y)
      OBVIOUS
    <3>2. PICK i \in DOMAIN x \cap DOMAIN y :
              x[i] < y[i] /\ \A j \in 1..(i - 1) : x[j] = y[j]
      BY <1>2, <2>2 DEF Before
    <3>3. i \in 1..Len(x) /\ i \in 1..Len(y)
      BY <3>1
    <3> QED  BY <3>2, <3>3
  <2> QED  BY <2>1, <2>2
<1> SUFFICES ASSUME Before(t, s) PROVE FALSE
  OBVIOUS
<1>3. Len(s) \in Nat /\ Len(t) \in Nat
  OBVIOUS
<1>4. \A i \in 1..Len(s) : s[i] \in Nat
  OBVIOUS
<1>5. \A i \in 1..Len(t) : t[i] \in Nat
  OBVIOUS
<1>6. (Prefix(s, t) \/ Differ(s, t)) /\ (Prefix(t, s) \/ Differ(t, s))
  BY <1>2
<1>7. CASE Prefix(s, t)
  BY <1>3, <1>4, <1>5, <1>6, <1>7
<1>8. CASE Differ(s, t)
  <2>1. PICK i \in 1..Len(s) : /\ i \in 1..Len(t) /\ s[i] < t[i]
                               /\ \A j \in 1..(i - 1) : s[j] = t[j]
    BY <1>8
  <2>2. CASE Prefix(t, s)
    BY <1>4, <2>1, <2>2
  <2>3. CASE Differ(t, s)
    <3>1. PICK k \in 1..Len(t) : /\ k \in 1..Len(s) /\ t[k] < s[k]
                                 /\ \A j \in 1..(k - 1) : t[j] = s[j]
      BY ONLY <2>3
    <3>2. i \in Nat /\ k \in Nat /\ s[i] \in Nat /\ t[i] \in Nat /\ s[k] \in Nat
           /\ t[k] \in Nat
      BY <1>4, <1>5, <2>1, <3>1
    <3>3. ~(i < k)
      <4> SUFFICES ASSUME i < k PROVE FALSE
        OBVIOUS
      <4>1. i \in 1..(k - 1)
        BY ONLY <2>1, <3>2, i < k
      <4>2. t[i] = s[i]
        BY <3>1, <4>1
      <4> QED  BY ONLY <2>1, <3>2, <4>2
    <3>4. ~(k < i)
      <4> SUFFICES ASSUME k < i PROVE FALSE
        OBVIOUS
      <4>1. k \in 1..(i - 1)
        BY ONLY <3>1, <3>2, k < i
      <4>2. s[k] = t[k]
        BY <2>1, <4>1
      <4> QED  BY ONLY <3>1, <3>2, <4>2
    <3>5. i # k
      BY ONLY <2>1, <3>1, <3>2
    <3> QED  BY ONLY <3>2, <3>3, <3>4, <3>5
  <2> QED  BY <1>6, <2>2, <2>3
<1> QED  BY <1>6, <1>7, <1>8

\* A kind of fence, and a list of parts that fits it: the names of the kind, bytes that
\* are the values, and scopes in order.
ScopesOf(r) == {i \in 1..Len(r) : r[i].name \in ScopeNames}
\* A kind of fence, as the published positive input spells it: no name twice.
Kind(r) == /\ Len(r) \in Nat /\ DOMAIN r = 1..Len(r)
           /\ \A i, j \in 1..Len(r) : r[i].name = r[j].name => i = j
\* Parts that fit a kind: its names in its order, read as they were written, scopes
\* rising.
Suits(p, r) ==
    /\ Len(p) = Len(r) /\ DOMAIN p = 1..Len(r)
    /\ \A i \in 1..Len(r) : /\ p[i].name = r[i].name /\ p[i].bytes = p[i].value
                            /\ p[i].value \in Seq(Nat)
    /\ \A i, j \in ScopesOf(r) : i < j => Before(p[i].value, p[j].value)

\* What passes the boundary of a kind fits it.
LEMMA FencePass ==
    ASSUME NEW parts, NEW required, Kind(required), DOMAIN parts = 1..Len(parts),
           \A i \in 1..Len(parts) : parts[i].value \in Seq(Nat),
           FenceBoundary(parts, required) = Pass
    PROVE  Suits(parts, required)
<1> DEFINE N == Len(parts)
           checks == [i \in 1..N |-> PartClass(parts[i], required[i])]
<1>1. N = Len(required) /\ N \in Nat
  BY Zenon DEF FenceBoundary, Pass, Kind
<1>2. FenceBoundary(parts, required) =
          IF FirstOf(checks) # Pass THEN FirstOf(checks)
          ELSE Unless(CanonicalScopes(parts), "canonical_scopes")
  BY <1>1 DEF FenceBoundary
<1>3. Len(checks) = N
  BY <1>1
<1>4. \A i \in 1..N : checks[i] = PartClass(parts[i], required[i])
  OBVIOUS
<1> HIDE DEF checks
<1>5. FirstOf(checks) = Pass /\ Unless(CanonicalScopes(parts), "canonical_scopes") = Pass
  BY <1>2
<1>6. CanonicalScopes(parts)
  BY <1>5 DEF Unless, Pass
<1>7. \A i \in 1..N : PartClass(parts[i], required[i]) = Pass
  BY <1>1, <1>3, <1>4, <1>5, FirstOfPass
<1>8. ASSUME NEW i \in 1..N
      PROVE  parts[i].name = required[i].name /\ parts[i].bytes = parts[i].value
  <2> DEFINE part == parts[i]
             r == required[i]
             list == <<Unless(part.name = r.name, "required_part"),
                       Unless(part.encoding = r.encoding, "encoding"),
                       Unless(part.value # Unreadable,
                                IF part.encoding = "uint64_be" THEN "uint64" ELSE "encoding"),
                       Unless(part.bytes = part.value, "bytes"),
                       Unless(part.name = "credential_key_hash" =>
                                   Len(part.value) = HashBytes, "key_length")>>
  <2>1. PartClass(part, r) = FirstOf(list) /\ Len(list) = 5
    BY DEF PartClass
  <2>2. /\ list[1] = Pass => part.name = r.name
        /\ list[4] = Pass => part.bytes = part.value
    BY DEF Unless, Pass
  <2>3. PartClass(part, r) = Pass
    BY <1>7
  <2> HIDE DEF list
  <2>4. FirstOf(list) = Pass /\ Len(list) \in Nat
    BY <2>1, <2>3
  <2>5. \A k \in 1..Len(list) : list[k] = Pass
    BY <2>4, FirstOfPass
  <2>6. list[1] = Pass /\ list[4] = Pass
    BY <2>1, <2>5
  <2> QED  BY <2>2, <2>6
<1>9. Scopes(parts) = ScopesOf(required)
  BY <1>1, <1>8 DEF Scopes, ScopesOf
<1> QED  BY <1>1, <1>6, <1>8, <1>9 DEF CanonicalScopes, Suits

\* Each scope of one list is a scope of the other.
Holds(p, q, r) ==
    \A i \in ScopesOf(r) : \E j \in ScopesOf(r) : q[j].value = p[i].value

\* Two lists of scopes in order that hold the same texts are equal.
LEMMA ScopesOnce ==
    ASSUME NEW p, NEW q, NEW r, Kind(r), Suits(p, r), Suits(q, r), Holds(p, q, r), Holds(q, p,
           r)
    PROVE  \A i \in ScopesOf(r) : p[i].value = q[i].value
<1> DEFINE I == ScopesOf(r)
           D == {i \in I : p[i].value # q[i].value}
<1> SUFFICES ASSUME D # {} PROVE FALSE
  OBVIOUS
<1>1. \A i \in I : i \in Nat /\ p[i].value \in Seq(Nat) /\ q[i].value \in Seq(Nat)
  <2> SUFFICES ASSUME NEW i \in 1..Len(r)
               PROVE  i \in Nat /\ p[i].value \in Seq(Nat) /\ q[i].value \in Seq(Nat)
    BY DEF ScopesOf
  <2>1. i \in Nat
    BY DEF Kind
  <2>2. p[i].value \in Seq(Nat)
    BY DEF Suits
  <2>3. q[i].value \in Seq(Nat)
    BY DEF Suits
  <2> QED  BY <2>1, <2>2, <2>3
<1>2. \A i, j \in I : i < j => /\ Before(p[i].value, p[j].value)
                               /\ Before(q[i].value, q[j].value)
  BY DEF Suits
<1> HIDE DEF I
<1>3. D \in SUBSET Nat
  BY <1>1
<1>4. PICK i \in D : \A j \in D : i <= j
  <2> HIDE DEF D
  <2> QED  BY <1>3, LeastExists
<1>5. i \in I /\ i \in Nat /\ p[i].value # q[i].value
  BY <1>1, <1>4
<1>6. \A j \in I : j < i => p[j].value = q[j].value
  <2> SUFFICES ASSUME NEW j \in I, j < i, p[j].value # q[j].value PROVE FALSE
    OBVIOUS
  <2>1. j \in D /\ j \in Nat
    BY <1>1
  <2>2. i <= j
    BY <1>4, <2>1
  <2> QED  BY <1>5, <2>1, <2>2
<1>7. \A j, k \in I : j < k => p[j].value # p[k].value /\ q[j].value # q[k].value
  BY <1>1, <1>2, BeforeOnce
<1>8. PICK j \in I : q[j].value = p[i].value
  BY <1>5 DEF Holds, I
<1>9. PICK k \in I : p[k].value = q[i].value
  BY <1>5 DEF Holds, I
<1>10. i < j
  <2>1. ~(j < i)
    BY <1>5, <1>6, <1>7, <1>8
  <2>2. j # i
    BY <1>5, <1>8
  <2> QED  BY <1>1, <1>5, <2>1, <2>2
<1>11. i < k
  <2>1. ~(k < i)
    BY <1>5, <1>6, <1>7, <1>9
  <2>2. k # i
    BY <1>5, <1>9
  <2> QED  BY <1>1, <1>5, <2>1, <2>2
<1>12. Before(q[i].value, p[i].value) /\ Before(p[i].value, q[i].value)
  BY <1>2, <1>5, <1>8, <1>9, <1>10, <1>11
<1> QED  BY <1>1, <1>5, <1>12, BeforeOnce

\* The preimages of two fences of a kind are equal if and only if their values are.
SameValues(p, q, r) == \A i \in 1..Len(r) : p[i].value = q[i].value

\* Two fences of a kind share a preimage exactly when they share every value.
LEMMA PreimageIs ==
    ASSUME NEW p, NEW q, NEW r, Kind(r), Suits(p, r), Suits(q, r)
    PROVE  FencePreimage(<<>>, p) = FencePreimage(<<>>, q) <=> SameValues(p, q, r)
<1> DEFINE N == Len(r)
           f == [i \in 1..N |-> p[i].bytes]
           g == [i \in 1..N |-> q[i].bytes]
<1>1. N \in Nat /\ DOMAIN p = 1..N /\ DOMAIN q = 1..N
      /\ \A i \in 1..N : /\ p[i].bytes = p[i].value /\ p[i].value \in Seq(Nat)
                         /\ q[i].bytes = q[i].value /\ q[i].value \in Seq(Nat)
  BY DEF Kind, Suits
<1> HIDE DEF N
<1>2. FencePreimage(<<>>, p) = Framed(<<>>, f) /\ FencePreimage(<<>>, q) = Framed(<<>>, g)
  BY <1>1 DEF FencePreimage
<1>3. f \in Seq(Bytes) /\ g \in Seq(Bytes) /\ Len(f) = N /\ Len(g) = N
  BY <1>1 DEF Bytes
<1>4. <<>> \in Seq(Nat \ {0})
  OBVIOUS
<1>5. Framed(<<>>, f) = Framed(<<>>, g) <=> f = g
  <2> HIDE DEF f, g
  <2> QED  BY <1>3, <1>4, FramedOnce
<1>6. f = g <=> \A i \in 1..N : p[i].value = q[i].value
  <2>1. \A i \in 1..N : f[i] = p[i].value /\ g[i] = q[i].value
    BY <1>1
  <2>2. f = [i \in 1..N |-> f[i]] /\ g = [i \in 1..N |-> g[i]]
    OBVIOUS
  <2> HIDE DEF f, g
  <2> QED  BY <2>1, <2>2
<1> QED  BY <1>2, <1>5, <1>6 DEF SameValues, N

\* What a fence of a kind means, by the names of the kind.
Means(p, r) ==
    /\ Meaning(p) = [scopes |-> Meaning(p).scopes, other |-> Meaning(p).other]
    /\ \A m : m \in Meaning(p).scopes <=> \E i \in ScopesOf(r) : m = p[i].value
    /\ \A m : m \in Meaning(p).other <=>
          \E i \in (1..Len(r)) \ ScopesOf(r) : m = [name |-> r[i].name, value |-> p[i].value]

\* The meaning of a fence is the value of each name and the set of scopes.
LEMMA MeaningOf ==
    ASSUME NEW p, NEW r, Kind(r), Suits(p, r)
    PROVE  Means(p, r)
<1> DEFINE N == Len(r)
           rest == {part \in Chars(p) : part.name \notin ScopeNames}
<1>1. DOMAIN p = 1..N /\ \A i \in 1..N : p[i].name = r[i].name
  BY DEF Suits
<1>2. Scopes(p) = ScopesOf(r)
  BY <1>1 DEF Scopes, ScopesOf
<1>3. Meaning(p) = [scopes |-> {p[i].value : i \in Scopes(p)},
                    other |-> {[name |-> part.name, value |-> part.value] : part \in rest}]
  BY DEF Meaning
<1>4. \A part : part \in rest <=> \E i \in 1..N : part = p[i] /\ p[i].name \notin ScopeNames
  BY <1>1 DEF Chars
<1> HIDE DEF rest
<1>5. /\ Meaning(p).scopes = {p[i].value : i \in Scopes(p)}
      /\ Meaning(p).other = {[name |-> part.name, value |-> part.value] : part \in rest}
  BY <1>3
<1>6. Meaning(p) = [scopes |-> Meaning(p).scopes, other |-> Meaning(p).other]
  BY <1>3
<1>7. \A m : m \in Meaning(p).scopes <=> \E i \in ScopesOf(r) : m = p[i].value
  BY <1>2, <1>5
<1>8. \A i \in 1..N : p[i].name \notin ScopeNames <=> i \in (1..N) \ ScopesOf(r)
  BY <1>1 DEF ScopesOf
<1>9. ASSUME NEW m
      PROVE  m \in Meaning(p).other <=>
                 \E i \in (1..N) \ ScopesOf(r) : m = [name |-> r[i].name, value |-> p[i].value]
  <2>1. m \in Meaning(p).other
           <=> \E part \in rest : m = [name |-> part.name, value |-> part.value]
    BY <1>5
  <2>2. ASSUME NEW part \in rest, m = [name |-> part.name, value |-> part.value]
        PROVE  \E i \in (1..N) \ ScopesOf(r) : m = [name |-> r[i].name, value |-> p[i].value]
    <3>1. PICK i \in 1..N : part = p[i] /\ p[i].name \notin ScopeNames
      BY <1>4
    <3>2. i \in (1..N) \ ScopesOf(r) /\ p[i].name = r[i].name
      BY <1>1, <1>8, <3>1
    <3> QED  BY <2>2, <3>1, <3>2
  <2>3. ASSUME NEW i \in (1..N) \ ScopesOf(r), m = [name |-> r[i].name, value |-> p[i].value]
        PROVE  \E part \in rest : m = [name |-> part.name, value |-> part.value]
    <3>1. p[i] \in rest /\ p[i].name = r[i].name
      BY <1>1, <1>4, <1>8
    <3> QED  BY <2>3, <3>1
  <2> QED  BY <2>1, <2>2, <2>3
<1> QED  BY <1>6, <1>7, <1>9 DEF Means

\* Two fences of a kind have one meaning if and only if their values are equal.
LEMMA MeaningIs ==
    ASSUME NEW p, NEW q, NEW r, Kind(r), Suits(p, r), Suits(q, r)
    PROVE  Meaning(p) = Meaning(q) <=> SameValues(p, q, r)
<1> DEFINE I == ScopesOf(r)
           rest == (1..Len(r)) \ I
<1>1. Means(p, r) /\ Means(q, r)
  BY MeaningOf
<1>2. \A i \in 1..Len(r) : i \in I \/ i \in rest
  OBVIOUS
<1>3. \A i \in I : i \in 1..Len(r)
  BY DEF ScopesOf
<1>4. \A i, j \in rest : r[i].name = r[j].name => i = j
  BY DEF Kind
<1>5. /\ Meaning(p) = [scopes |-> Meaning(p).scopes, other |-> Meaning(p).other]
      /\ Meaning(q) = [scopes |-> Meaning(q).scopes, other |-> Meaning(q).other]
  BY <1>1 DEF Means
<1>6. /\ \A m : m \in Meaning(p).scopes <=> \E i \in I : m = p[i].value
      /\ \A m : m \in Meaning(q).scopes <=> \E i \in I : m = q[i].value
  BY <1>1 DEF Means
<1>7. /\ \A m : m \in Meaning(p).other <=>
            \E i \in rest : m = [name |-> r[i].name, value |-> p[i].value]
      /\ \A m : m \in Meaning(q).other <=>
            \E i \in rest : m = [name |-> r[i].name, value |-> q[i].value]
  BY <1>1 DEF Means
<1> HIDE DEF I, rest
<1>8. ASSUME Meaning(p) = Meaning(q) PROVE SameValues(p, q, r)
  <2>1. Holds(p, q, r)
    <3>1. \A i \in I : p[i].value \in Meaning(q).scopes
      BY <1>6, <1>8
    <3> QED  BY <1>6, <3>1 DEF Holds, I
  <2>2. Holds(q, p, r)
    <3>1. \A i \in I : q[i].value \in Meaning(p).scopes
      BY <1>6, <1>8
    <3> QED  BY <1>6, <3>1 DEF Holds, I
  <2>3. \A i \in I : p[i].value = q[i].value
    BY <2>1, <2>2, ScopesOnce DEF I
  <2>4. ASSUME NEW i \in rest PROVE p[i].value = q[i].value
    <3>1. [name |-> r[i].name, value |-> p[i].value] \in Meaning(q).other
      BY <1>7, <1>8
    <3>2. PICK j \in rest : [name |-> r[i].name, value |-> p[i].value]
                                = [name |-> r[j].name, value |-> q[j].value]
      BY <1>7, <3>1
    <3>3. r[i].name = r[j].name /\ p[i].value = q[j].value
      BY <3>2
    <3> QED  BY <1>4, <3>3
  <2> QED  BY <1>2, <2>3, <2>4 DEF SameValues
<1>9. ASSUME SameValues(p, q, r) PROVE Meaning(p) = Meaning(q)
  <2>1. \A i \in I : p[i].value = q[i].value
    BY <1>3, <1>9 DEF SameValues
  <2>2. \A i \in rest : p[i].value = q[i].value
    BY <1>9 DEF SameValues, rest
  <2>3. \A m : m \in Meaning(p).scopes <=> m \in Meaning(q).scopes
    BY <1>6, <2>1
  <2>4. \A m : m \in Meaning(p).other <=> m \in Meaning(q).other
    BY <1>7, <2>2
  <2>5. Meaning(p).scopes = Meaning(q).scopes /\ Meaning(p).other = Meaning(q).other
    BY <2>3, <2>4
  <2> QED  BY <1>5, <2>5
<1> QED  BY <1>8, <1>9

\* Fences differ exactly when the records do.
LEMMA FencesDiffer == Fence => FenceIsTheRecord
<1> SUFFICES ASSUME Fence, gate = "fence", FenceTaken(about, body),
                    NEW other \in OtherFences[about], FenceTaken(about, other)
             PROVE  FencePreimage(<<>>, body) = FencePreimage(<<>>, other)
                       <=> Meaning(body) = Meaning(other)
  BY DEF FenceIsTheRecord
<1> DEFINE r == Fences[about]
<1>1. about \in DOMAIN Fences /\ body \in Seq(FenceParts(about))
  BY DEF Fence
<1>2. /\ DOMAIN body = 1..Len(body)
      /\ \A i \in 1..Len(body) : body[i].value \in Seq(Nat)
  BY <1>1, FenceAssumption
<1>3. /\ DOMAIN other = 1..Len(other)
      /\ \A i \in 1..Len(other) : other[i].value \in Seq(Nat)
  BY <1>1, FenceAssumption
<1>4. FenceBoundary(body, r) = Pass /\ FenceBoundary(other, r) = Pass
  BY DEF FenceTaken
<1>5. Kind(r)
  BY <1>1, FenceAssumption DEF Kind
<1> HIDE DEF r
<1>6. Suits(body, r) /\ Suits(other, r)
  BY <1>2, <1>3, <1>4, <1>5, FencePass
<1> QED  BY <1>5, <1>6, PreimageIs, MeaningIs

(***************************************************************************)
(* A digest is that of one record: two fence inputs that are taken have    *)
(* one preimage exactly when they mean the same, scopes in any number and  *)
(* parts of any length, and two requests have one stable digest exactly    *)
(* when they ask for the same thing under the same request id, whatever    *)
(* time, nonce, host and key (tools/verify-assignment-ticket/main.go:422,  *)
(* private_upload_v1.go:362, 377).                                         *)
(***************************************************************************)
THEOREM Record == GatesSpec => []DigestIsTheRecord
<1>1. Signer /\ Request /\ Fence => DigestIsTheRecord
  BY RetryKnown, FencesDiffer DEF DigestIsTheRecord
<1> QED  BY <1>1, InitSigned, SignedKept, InitFence, FenceKept, PTL DEF GatesSpec
----------------------------------------------------------------------------
(***************************************************************************)
(* User agents.                                                            *)
(***************************************************************************)

\* The sum of the widths of a text, up to each of them.
IsSum(f, s) == f = [n \in 0..Len(s) |-> IF n = 0 THEN 0 ELSE f[n - 1] + s[n]]
SumOf(s) == CHOOSE f : IsSum(f, s)

\* The sums of the widths of a user agent, width by width.
LEMMA SumIs ==
    ASSUME NEW s \in Seq(Nat)
    PROVE  /\ SumOf(s) \in [0..Len(s) -> Nat] /\ SumOf(s)[0] = 0
           /\ \A n \in 1..Len(s) : SumOf(s)[n] = SumOf(s)[n - 1] + s[n]
           /\ L!Bytes(s) = SumOf(s)[Len(s)]
<1> DEFINE N == Len(s)
           g == [p \in (1..N) \X Nat |-> p[2] + s[p[1]]]
<1>1. N \in Nat /\ \A n \in 1..N : s[n] \in Nat
  OBVIOUS
<1>2. \A n \in 1..N : \A v \in Nat : g[<<n, v>>] = v + s[n]
  OBVIOUS
<1> HIDE DEF g
<1>3. Steps(g, N, Nat)
  <2> SUFFICES ASSUME NEW n \in 1..N, NEW v \in Nat PROVE g[<<n, v>>] \in Nat
    BY DEF Steps
  <2>1. g[<<n, v>>] = v + s[n] /\ s[n] \in Nat
    BY <1>1, <1>2
  <2> QED  BY <2>1
<1>4. PICK f : Iterated(f, g, N, Nat, 0)
  BY <1>1, <1>3, Iterates
<1>5. f \in [0..N -> Nat] /\ f[0] = 0 /\ \A n \in 1..N : f[n] = g[<<n, f[n - 1]>>]
  BY <1>4 DEF Iterated
<1>6. \A n \in 1..N : n - 1 \in 0..N /\ f[n - 1] \in Nat
  <2> HIDE DEF N
  <2>1. \A n \in 1..N : n - 1 \in 0..N
    BY <1>1
  <2> QED  BY <1>5, <2>1
<1>7. \A n \in 1..N : f[n] = f[n - 1] + s[n]
  BY <1>2, <1>5, <1>6
<1>8. \A n \in 0..N : f[n] = IF n = 0 THEN 0 ELSE f[n - 1] + s[n]
  <2>1. \A n \in 0..N : n = 0 \/ n \in 1..N
    BY <1>1
  <2> QED  BY <1>5, <1>7, <2>1
<1>9. f = [n \in 0..N |-> f[n]]
  BY <1>5
<1>10. IsSum(f, s)
  <2>1. f = [n \in 0..N |-> IF n = 0 THEN 0 ELSE f[n - 1] + s[n]]
    BY <1>8, <1>9
  <2> QED  BY <2>1 DEF IsSum
<1>11. IsSum(SumOf(s), s)
  BY <1>10 DEF SumOf
<1> DEFINE h == SumOf(s)
<1>12. h = [n \in 0..N |-> IF n = 0 THEN 0 ELSE h[n - 1] + s[n]]
  BY <1>11 DEF IsSum
<1>13. L!Bytes(s) = h[N]
  BY DEF L!Bytes, SumOf, IsSum
<1> HIDE DEF h
<1>14. h[0] = 0 /\ \A n \in 1..N : h[n] = h[n - 1] + s[n]
  <2>1. 0 \in 0..N /\ \A n \in 1..N : n \in 0..N /\ n # 0
    BY <1>1
  <2> QED  BY <1>12, <2>1
<1> DEFINE S == {k \in 0..N : h[k] \in Nat}
<1>15. 0 \in S
  BY <1>1, <1>14
<1>16. \A k \in 0..N : k < N /\ k \in S => k + 1 \in S
  <2> SUFFICES ASSUME NEW k \in 0..N, k < N, k \in S PROVE k + 1 \in S
    OBVIOUS
  <2>1. k + 1 \in 1..N /\ (k + 1) - 1 = k /\ h[k] \in Nat
    BY <1>1
  <2>2. h[k + 1] = h[k] + s[k + 1]
    BY <1>14, <2>1
  <2> QED  BY <1>1, <2>1, <2>2
<1> HIDE DEF S
<1>17. \A k \in 0..N : h[k] \in Nat
  <2>1. \A k \in 0..N : k \in S
    BY <1>1, <1>15, <1>16, Climb
  <2> QED  BY <2>1 DEF S
<1>18. h \in [0..N -> Nat]
  BY <1>12, <1>17
<1> QED  BY <1>13, <1>14, <1>18 DEF h

\* The bytes of a beginning of a user agent, which grow with it.
LEMMA BeginningSum ==
    ASSUME NEW s \in Seq(Nat), NEW n \in 0..Len(s)
    PROVE  /\ L!Bytes(SubSeq(s, 1, n)) = SumOf(s)[n] /\ SumOf(s)[n] \in Nat
           /\ \A m \in 0..n : SumOf(s)[m] <= SumOf(s)[n]
<1> DEFINE t == SubSeq(s, 1, n)
           f == SumOf(s)
           h == SumOf(t)
           S == {k \in 0..n : h[k] = f[k]}
           Rising == {k \in 0..n : \A m \in 0..k : f[m] <= f[k]}
<1>1. t \in Seq(Nat) /\ Len(t) = n /\ n \in Nat /\ n <= Len(s)
      /\ \A i \in 1..n : t[i] = s[i] /\ s[i] \in Nat
  OBVIOUS
<1>2. f \in [0..Len(s) -> Nat] /\ f[0] = 0 /\ \A k \in 1..Len(s) : f[k] = f[k - 1] + s[k]
  BY SumIs
<1>3. h[0] = 0 /\ (\A k \in 1..n : h[k] = h[k - 1] + t[k]) /\ L!Bytes(t) = h[n]
  BY <1>1, SumIs
<1> HIDE DEF t, f, h
<1>4. ASSUME NEW k \in 0..n, k < n
      PROVE  /\ k + 1 \in 1..n /\ (k + 1) - 1 = k /\ f[k] \in Nat /\ s[k + 1] \in Nat
             /\ f[k + 1] = f[k] + s[k + 1]
  <2>1. k + 1 \in 1..n /\ (k + 1) - 1 = k /\ k \in 0..Len(s) /\ k + 1 \in 1..Len(s)
    BY <1>1, <1>4
  <2> QED  BY <1>1, <1>2, <2>1
<1>5. 0 \in S
  BY <1>1, <1>2, <1>3
<1>6. \A k \in 0..n : k < n /\ k \in S => k + 1 \in S
  <2> SUFFICES ASSUME NEW k \in 0..n, k < n, k \in S PROVE k + 1 \in S
    OBVIOUS
  <2>1. k + 1 \in 1..n /\ (k + 1) - 1 = k /\ f[k + 1] = f[k] + s[k + 1]
    BY <1>4
  <2>2. h[k + 1] = h[k] + t[k + 1]
    BY <1>3, <2>1
  <2> QED  BY <1>1, <2>1, <2>2
<1>7. 0 \in Rising
  BY <1>1, <1>2
<1>8. \A k \in 0..n : k < n /\ k \in Rising => k + 1 \in Rising
  <2> SUFFICES ASSUME NEW k \in 0..n, k < n, k \in Rising PROVE k + 1 \in Rising
    OBVIOUS
  <2> SUFFICES ASSUME NEW m \in 0..(k + 1) PROVE f[m] <= f[k + 1]
    <3>1. k + 1 \in 0..n
      BY <1>1
    <3> QED  BY <3>1
  <2>1. f[k] \in Nat /\ s[k + 1] \in Nat /\ f[k + 1] = f[k] + s[k + 1]
    BY <1>4
  <2>2. CASE m = k + 1
    BY <2>1, <2>2
  <2>3. CASE m # k + 1
    <3>1. m \in 0..k /\ m \in 0..Len(s)
      BY <1>1, <2>3
    <3>2. f[m] <= f[k] /\ f[m] \in Nat
      BY <1>2, <3>1
    <3> QED  BY <2>1, <3>2
  <2> QED  BY <2>2, <2>3
<1> HIDE DEF S, Rising
<1>9. n \in S /\ n \in Rising
  <2>1. \A k \in 0..n : k \in S
    BY <1>1, <1>5, <1>6, Climb
  <2>2. \A k \in 0..n : k \in Rising
    BY <1>1, <1>7, <1>8, Climb
  <2> QED  BY <1>1, <2>1, <2>2
<1> QED  BY <1>1, <1>2, <1>3, <1>9 DEF S, Rising, t, f

\* A user agent is a sequence of widths.
Agent == gate = "user_agent" => body \in Seq(Nat)

\* It is one at first,
LEMMA InitAgent == GatesInit => Agent
<1>1. "user_agent" \notin BodyGateNames
  BY DEF BodyGateNames
<1> QED  BY <1>1, TextAssumption DEF GatesInit, BodyInit, ValueInit, Agent

\* Of the steps only Grow is one of a text.
LEMMA TextSteps ==
    ASSUME [GatesNext]_gateVars, gate \in TextGates
    PROVE  /\ gate' = gate /\ about' = about
           /\ body' = body \/ \E piece \in TextPieces[gate] : body' = body \o piece
<1>1. gate \notin BodyGateNames /\ gate \notin RecordGates /\ gate # "claims" /\ gate # "fence"
  BY DEF RecordGates, BodyGateNames, TextGates
<1> QED
  BY <1>1 DEF GatesNext, gateVars, BodyNext, ValueNext, Grow, Change, EditClaims, EditFence

\* and after each step.
LEMMA AgentKept == Agent /\ [GatesNext]_gateVars => Agent'
<1> SUFFICES ASSUME Agent, [GatesNext]_gateVars, gate = "user_agent" PROVE body' \in Seq(Nat)
  BY GateKept DEF Agent
<1>1. body \in Seq(Nat) /\ \A piece \in TextPieces[gate] : piece \in Seq(Nat)
  BY TextAssumption DEF Agent
<1>2. body' = body \/ \E piece \in TextPieces[gate] : body' = body \o piece
  BY TextSteps DEF TextGates
<1>3. \A piece \in TextPieces[gate] : body \o piece \in Seq(Nat)
  BY <1>1, ConcatIs
<1> QED  BY <1>1, <1>2, <1>3

\* What is sent is the longest beginning that fits.
LEMMA LongestSent == Agent => LongestBeginningIsSent
<1> DEFINE N == Len(body)
           f == SumOf(body)
           fitting == {n \in 0..N : L!Bytes(SubSeq(body, 1, n)) <= UserAgentMaxBytes}
           longest == CHOOSE n \in fitting : \A k \in fitting : k <= n
<1> SUFFICES ASSUME Agent, gate = "user_agent"
             PROVE  L!SentBytes(body) = IF 0 \in Chars(body) THEN 0
                                        ELSE L!Bytes(SubSeq(body, 1, longest))
  BY DEF LongestBeginningIsSent
<1>1. body \in Seq(Nat) /\ N \in Nat /\ UserAgentMaxBytes \in Nat
  BY TextAssumption DEF Agent
<1>2. 0 \in Chars(body) <=> \E i \in DOMAIN body : body[i] = 0
  BY DEF Chars
<1>3. /\ \A n \in 0..N : L!Bytes(SubSeq(body, 1, n)) = f[n] /\ f[n] \in Nat
      /\ \A n \in 0..N : \A m \in 0..n : f[m] <= f[n]
      /\ f[0] = 0 /\ L!Bytes(body) = f[N]
  BY <1>1, BeginningSum, SumIs
<1> HIDE DEF f
<1>4. fitting = {n \in 0..N : f[n] <= UserAgentMaxBytes}
  BY <1>3
<1> HIDE DEF fitting
<1>5. longest \in fitting /\ \A k \in fitting : k <= longest
  <2>1. \E n \in fitting : \A k \in fitting : k <= n
    <3> DEFINE rest == {N - n : n \in fitting}
    <3>1. \A n \in fitting : n \in 0..N /\ n \in Nat /\ N - n \in Nat
      BY <1>1, <1>4
    <3>2. rest \in SUBSET Nat /\ N \in rest
      <4>1. 0 \in fitting
        BY <1>1, <1>3, <1>4
      <4> QED  BY <1>1, <3>1, <4>1
    <3>3. PICK r \in rest : \A q \in rest : r <= q
      <4> HIDE DEF rest
      <4> QED  BY <3>2, LeastExists
    <3>4. PICK n \in fitting : r = N - n
      OBVIOUS
    <3>5. \A k \in fitting : N - n <= N - k
      BY <3>3, <3>4
    <3> QED  BY <1>1, <3>1, <3>5
  <2> QED  BY <2>1
<1> HIDE DEF longest
<1>6. /\ longest \in 0..N /\ f[longest] \in Nat /\ f[longest] <= UserAgentMaxBytes
      /\ L!Bytes(SubSeq(body, 1, longest)) = f[longest]
  BY <1>3, <1>4, <1>5
<1>7. CASE L!Bytes(body) <= UserAgentMaxBytes
  <2>1. N \in fitting
    BY <1>1, <1>3, <1>4, <1>7
  <2>2. longest = N
    BY <1>1, <1>5, <1>6, <2>1
  <2> QED  BY <1>2, <1>3, <1>6, <1>7, <2>2 DEF L!SentBytes
<1>8. CASE ~(L!Bytes(body) <= UserAgentMaxBytes)
  <2> DEFINE cut == f[longest]
             Fit(c) == /\ L!RuneStart(body, c)
                       /\ \A d \in (c + 1)..UserAgentMaxBytes : ~L!RuneStart(body, d)
  <2>1. \A c : L!RuneStart(body, c) <=> \E n \in 0..N : f[n] = c
    BY <1>3 DEF L!RuneStart
  <2>2. cut \in 0..UserAgentMaxBytes /\ L!RuneStart(body, cut)
    BY <1>1, <1>6, <2>1
  <2>3. ASSUME NEW d \in (cut + 1)..UserAgentMaxBytes, L!RuneStart(body, d) PROVE FALSE
    <3>1. PICK n \in 0..N : f[n] = d
      BY <2>1, <2>3
    <3>2. n \in fitting
      BY <1>1, <1>4, <1>6, <3>1
    <3>3. n \in 0..longest
      BY <1>5, <1>6, <3>2
    <3>4. f[n] <= f[longest]
      BY <1>3, <1>6, <3>3
    <3> QED  BY <1>1, <1>6, <3>1, <3>4
  <2>4. Fit(cut)
    BY <2>2, <2>3
  <2>5. \A c \in 0..UserAgentMaxBytes : Fit(c) => c = cut
    <3> SUFFICES ASSUME NEW c \in 0..UserAgentMaxBytes, Fit(c) PROVE c = cut
      OBVIOUS
    <3>1. ~(c < cut)
      BY <1>1, <2>2
    <3>2. ~(cut < c)
      BY <1>1, <2>2, <2>4
    <3> QED  BY <1>1, <2>2, <3>1, <3>2
  <2>6. L!Cut(body) = CHOOSE c \in 0..UserAgentMaxBytes : Fit(c)
    BY DEF L!Cut
  <2> HIDE DEF Fit, cut
  <2>7. L!Cut(body) = cut
    BY <2>2, <2>4, <2>5, <2>6
  <2> QED  BY <1>2, <1>6, <1>8, <2>7 DEF L!SentBytes, cut
<1> QED  BY <1>7, <1>8

(***************************************************************************)
(* What is sent of a user agent, of any length, is the longest beginning   *)
(* of it that fits and ends between two code points: cutting at the limit  *)
(* and going back to the start of a code point finds it                    *)
(* (crid_link_knock.go:1067).                                              *)
(***************************************************************************)
THEOREM Longest == GatesSpec => []LongestBeginningIsSent
BY InitAgent, AgentKept, LongestSent, PTL DEF GatesSpec

----------------------------------------------------------------------------
(***************************************************************************)
(* Target paths.                                                           *)
(***************************************************************************)

\* A target path is a sequence of characters.
TargetPathIs == gate = "target_path" => body \in Seq(PathChars)

\* It is one at first,
LEMMA InitPath == GatesInit => TargetPathIs
<1>1. "target_path" \notin BodyGateNames
  BY DEF BodyGateNames
<1>2. \A seed \in Seeds["target_path"] : seed.body \in Seq(PathChars)
  BY TextAssumption DEF PathTexts
<1> QED  BY <1>1, <1>2 DEF GatesInit, BodyInit, ValueInit, TargetPathIs

\* and after each step.
LEMMA PathKept == TargetPathIs /\ [GatesNext]_gateVars => TargetPathIs'
<1> SUFFICES ASSUME TargetPathIs, [GatesNext]_gateVars, gate = "target_path"
             PROVE  body' \in Seq(PathChars)
  BY GateKept DEF TargetPathIs
<1>1. body \in Seq(PathChars) /\ \A piece \in TextPieces[gate] : piece \in Seq(PathChars)
  BY TextAssumption DEF TargetPathIs, PathTexts
<1>2. body' = body \/ \E piece \in TextPieces[gate] : body' = body \o piece
  BY TextSteps DEF TextGates
<1>3. \A piece \in TextPieces[gate] : body \o piece \in Seq(PathChars)
  BY <1>1, ConcatIs
<1> QED  BY <1>1, <1>2, <1>3

\* An accepted path is its own normal form.
LEMMA PathFixed == TargetPathIs => AcceptedPathIsFixed
<1> SUFFICES ASSUME TargetPathIs, gate = "target_path", about,
                    Expectation(about, body) = Pass
             PROVE  Tail(Segments(PathPart(body))) = Normalised(PathPart(body))
  BY DEF AcceptedPathIsFixed
<1> DEFINE C == PathChars
           path == PathPart(body)
           g == Segments(path)
           t == Tail(g)
<1>1. body \in Seq(C)
  BY DEF TargetPathIs
<1>2. path \in Seq(C)
  <2>1. PICK n : Split(body, n) /\ path = SubSeq(body, 1, n)
    BY <1>1, PathPartIs
  <2>2. n \in 0..Len(body)
    BY <2>1 DEF Split
  <2>3. SubSeq(body, 1, n) \in Seq(C)
    BY <1>1, <2>2
  <2> QED  BY <2>1, <2>3
<1>3. TargetGate(body) = Pass
  BY DEF Expectation
<1>4. ~LiteralDots(path) /\ Escapes(path) = {} /\ ~InteriorEmpty(path)
  BY <1>3, GatePass
<1> HIDE DEF path
<1>5. Decoded(path) = path
  BY <1>2, <1>4, DecodedIs
<1>6. g \in Seq(Seq(C)) /\ Len(g) >= 1 /\ Len(g) \in Nat /\ DOMAIN g = 1..Len(g)
  <2>1. g \in SegmentLists(C)
    BY <1>2, SegmentsIs
  <2>2. g \in Seq(Seq(C)) /\ Len(g) >= 1
    BY <2>1 DEF SegmentLists
  <2> HIDE DEF g
  <2> QED  BY <2>2
<1>7. /\ \A i \in 1..Len(g) : g[i] # <<".">> /\ g[i] # <<".", ".">>
      /\ \A i \in 2..(Len(g) - 1) : g[i] # <<>>
  BY <1>4, <1>6 DEF LiteralDots, InteriorEmpty, Chars
<1> HIDE DEF g
<1>8. t \in Seq(Seq(C)) /\ Len(t) = Len(g) - 1 /\ \A n \in 1..Len(t) : t[n] = g[n + 1]
  BY <1>6
<1> HIDE DEF t
<1>9. Plain(t)
  <2>1. \A n \in 1..Len(t) : n + 1 \in 1..Len(g) /\ (n < Len(t) => n + 1 \in 2..(Len(g) - 1))
    BY <1>6, <1>8
  <2> QED  BY <1>7, <1>8, <2>1 DEF Plain
<1>10. Resolved(t) = t
  BY <1>8, <1>9, ResolvedIs
<1>11. Normalised(path) = Resolved(t)
  BY <1>5 DEF Normalised, t, g
<1> QED  BY <1>10, <1>11 DEF t, g, path

\* A query changes no verdict.
LEMMA QueryOpaque == TargetPathIs => QueryIsOpaque
<1> DEFINE IsFirst(i) == /\ \A j \in 1..i : body[j] # "?"
                         /\ i < Len(body) => body[i + 1] = "?"
           n == CHOOSE i \in 0..Len(body) : IsFirst(i)
           path == SubSeq(body, 1, n)
           query == SubSeq(body, n + 1, Len(body))
<1>1. SUFFICES ASSUME TargetPathIs, gate = "target_path", path # <<>>, Len(body) <= MaxBytes,
                      Chars(query) \subseteq Allowed, ~Malformed(query)
               PROVE  TargetGate(body) = TargetGate(path)
  BY DEF QueryIsOpaque
<1> DEFINE C == PathChars
<1>2. body \in Seq(C)
  BY <1>1 DEF TargetPathIs
<1>3. Split(body, n) /\ PathPart(body) = path
  <2>1. PICK k : Split(body, k) /\ PathPart(body) = SubSeq(body, 1, k)
    BY <1>2, PathPartIs
  <2>2. k \in 0..Len(body) /\ IsFirst(k)
    BY <2>1 DEF Split
  <2>3. n \in 0..Len(body) /\ IsFirst(n)
    <3> HIDE DEF IsFirst
    <3> QED  BY <2>2
  <2> HIDE DEF n
  <2>4. Split(body, n)
    BY <2>3 DEF Split
  <2>5. n = k
    BY <1>2, <2>1, <2>4, PathPartIs
  <2> QED  BY <2>1, <2>4, <2>5
<1> HIDE DEF n
<1>4. n > 0
  <2>1. n \in 0..Len(body) /\ Len(body) \in Nat
    BY <1>2, <1>3 DEF Split
  <2>2. n = 0 => path = <<>>
    BY <1>2
  <2> QED  BY <1>1, <2>1, <2>2
<1>5. Opaque(body, n)
  BY <1>1, <1>3, <1>4 DEF Opaque
<1>6. /\ n \in Nat /\ n >= 1 /\ n <= Len(body) /\ Len(body) \in Nat
      /\ DOMAIN path = 1..n /\ Len(path) = n /\ \A i \in 1..n : path[i] = body[i]
  BY <1>2, <1>5, QueryParts
<1>7. /\ IsPrefix(<<"/">>, body) <=> IsPrefix(<<"/">>, path)
      /\ IsPrefix(<<"/", "/">>, body) <=> IsPrefix(<<"/", "/">>, path)
  BY <1>2, <1>5, SameStart
<1>8. Chars(body) \subseteq Allowed <=> Chars(path) \subseteq Allowed
  BY <1>2, <1>5, SameChars
<1>9. Malformed(body) <=> Malformed(path)
  BY <1>2, <1>5, SameEscapes
<1> HIDE DEF path, query
<1>10. PathPart(path) = path
  <2>1. \A i \in 1..n : body[i] # "?"
    BY <1>3 DEF Split
  <2>2. "?" \notin Chars(path)
    BY <1>6, <2>1 DEF Chars
  <2> QED  BY <2>2 DEF PathPart
<1>11. Len(path) <= MaxBytes /\ body # <<>>
  <2>1. MaxBytes \in Nat
    BY HexAssumption
  <2> QED  BY <1>1, <1>2, <1>6, <2>1
<1> DEFINE List(v, p) == <<
          Unless(v # <<>>, "empty"),
          Unless(Len(v) <= MaxBytes, "too_long"),
          Unless(IsPrefix(<<"/">>, v), "not_absolute"),
          Unless(~IsPrefix(<<"/", "/">>, v), "authority"),
          Unless(Chars(v) \subseteq Allowed, "invalid_character"),
          Unless(Chars(p) \cap ForbiddenInPath = {}, "invalid_character"),
          Unless(~Malformed(v), "percent_encoding"),
          Unless(~EncodedDot(p), "dot_segment"),
          Unless(~LiteralDots(p), "dot_segment"),
          Unless(Escapes(p) = {} /\ ~InteriorEmpty(p), "invalid_character")>>
<1>12. TargetGate(body) = FirstOf(List(body, path)) /\ TargetGate(path) =
          FirstOf(List(path, path))
  BY <1>3, <1>10 DEF TargetGate
<1>13. /\ Unless(body # <<>>, "empty") = Unless(path # <<>>, "empty")
       /\ Unless(Len(body) <= MaxBytes, "too_long") = Unless(Len(path) <= MaxBytes, "too_long")
       /\ Unless(IsPrefix(<<"/">>, body), "not_absolute")
             = Unless(IsPrefix(<<"/">>, path), "not_absolute")
       /\ Unless(~IsPrefix(<<"/", "/">>, body), "authority")
             = Unless(~IsPrefix(<<"/", "/">>, path), "authority")
       /\ Unless(Chars(body) \subseteq Allowed, "invalid_character")
             = Unless(Chars(path) \subseteq Allowed, "invalid_character")
       /\ Unless(~Malformed(body), "percent_encoding")
             = Unless(~Malformed(path), "percent_encoding")
  BY <1>1, <1>7, <1>8, <1>9, <1>11 DEF Unless
<1>14. List(body, path) = List(path, path)
  BY <1>13
<1> HIDE DEF List
<1> QED  BY <1>12, <1>14

----------------------------------------------------------------------------
(***************************************************************************)
(* An accepted target path of any length is changed by no decoding of      *)
(* escapes, no resolving of dot segments and no merging of slashes, and a  *)
(* well-formed query changes the verdict on no path (target_path.go:370,   *)
(* 403).                                                                   *)
(***************************************************************************)
THEOREM Exact == GatesSpec => []TargetIsExact
<1>1. TargetPathIs => TargetIsExact
  BY PathFixed, QueryOpaque DEF TargetIsExact
<1> QED  BY <1>1, InitPath, PathKept, PTL DEF GatesSpec

----------------------------------------------------------------------------
(***************************************************************************)
(* One wire form: the requests of a resource.                              *)
(***************************************************************************)

\* The helpers that ResourceBody has its own copy of are the same ones.
LEMMA ResourceCopies ==
    /\ R!Pass = Pass
    /\ \A checks : R!FirstOf(checks) = FirstOf(checks)
    /\ \A holds, class : R!Unless(holds, class) = Unless(holds, class)
    /\ \A v : R!Keys(v) = Keys(v) /\ R!IsObject(v) = IsObject(v)
    /\ \A v, key : /\ R!Field(v, key) = Field(v, key) /\ R!Text(v, key) = Text(v, key)
                   /\ R!Has(v, key) = Has(v, key)
    /\ \A v, required, allowed : R!ExactKeys(v, required, allowed)
                                    = ExactKeys(v, required, allowed)
    /\ \A v, keys : R!AreStrings(v, keys) = AreStrings(v, keys)
    /\ \A b : R!RawObject(b) = RawObject(b)
    /\ \A b, required, allowed : R!ExactObject(b, required, allowed)
                                    = ExactObject(b, required, allowed)
    /\ \A text : /\ R!Str(text) = Str(text) /\ R!Num(text) = Num(text)
                 /\ R!Bool(text) = Bool(text)
    /\ \A f : R!Obj(f) = Obj(f) /\ R!Body(f) = Body(f)
    /\ \A v, key, lexeme : R!With(v, key, lexeme) = With(v, key, lexeme)
<1>1. R!Pass = Pass /\ \A checks : R!FirstOf(checks) = FirstOf(checks)
  BY DEF R!Pass, Pass, R!FirstOf, FirstOf
<1>2. \A holds, class : R!Unless(holds, class) = Unless(holds, class)
  BY DEF R!Unless, Unless, R!Pass, Pass
<1>3. \A v : R!Keys(v) = Keys(v) /\ R!IsObject(v) = IsObject(v)
  BY DEF R!Keys, Keys, R!IsObject, IsObject
<1>4. \A v, key : R!Field(v, key) = Field(v, key) /\ R!Has(v, key) = Has(v, key)
  BY <1>3, Zenon DEF R!Field, Field, R!Has, Has, R!Absent, Absent, R!Scalar, Scalar
<1>5. \A v, key : R!Text(v, key) = Text(v, key)
  BY <1>4, Zenon DEF R!Text, Text
<1>6. \A v, required, allowed :
         R!ExactKeys(v, required, allowed) = ExactKeys(v, required, allowed)
  BY <1>1, <1>2, <1>3 DEF R!ExactKeys, ExactKeys
<1>7. \A v, keys : R!AreStrings(v, keys) = AreStrings(v, keys)
  <2> SUFFICES ASSUME NEW v, NEW keys PROVE R!AreStrings(v, keys) = AreStrings(v, keys)
    OBVIOUS
  <2>1. (\A key \in keys : R!Field(v, key).type = "string")
           <=> \A key \in keys : Field(v, key).type = "string"
    BY <1>4
  <2> QED  BY <2>1 DEF R!AreStrings, AreStrings, R!Unless, Unless, R!Pass, Pass
<1>8. \A b : R!RawObject(b) = RawObject(b)
  BY <1>1, <1>2, <1>3 DEF R!RawObject, RawObject
<1>9. \A b, required, allowed :
         R!ExactObject(b, required, allowed) = ExactObject(b, required, allowed)
  BY <1>1, <1>6, <1>8 DEF R!ExactObject, ExactObject
<1>10. \A text : /\ R!Str(text) = Str(text) /\ R!Num(text) = Num(text)
                 /\ R!Bool(text) = Bool(text)
  BY DEF R!Str, Str, R!Num, Num, R!Bool, Bool, R!Scalar, Scalar
<1>11. \A f : R!Obj(f) = Obj(f) /\ R!Body(f) = Body(f)
  BY DEF R!Obj, Obj, R!Body, Body
<1>12. \A v, key, lexeme : R!With(v, key, lexeme) = With(v, key, lexeme)
  BY <1>3, <1>11 DEF R!With, With
<1> QED  BY <1>1, <1>2, <1>3, <1>4, <1>5, <1>6, <1>7, <1>8, <1>9, <1>10, <1>11, <1>12

----------------------------------------------------------------------------
\* The damage that a gate may find.
FlawKnown == gate \in BodyGateNames => body.flaw \in {"none"} \cup FlawsAt(gate)

\* The bytes of a body are whole at first,
LEMMA InitFlaw == GatesInit => FlawKnown
<1> SUFFICES ASSUME GatesInit, gate \in BodyGateNames PROVE body.flaw = "none"
  BY DEF FlawKnown
<1>1. gate \notin ValueGateNames
  BY DEF ValueGateNames, TextGates, RecordGates, BodyGateNames
<1>2. PICK seed \in Seeds[gate] : body = seed.body
  BY <1>1 DEF GatesInit, BodyInit, ValueInit
<1>3. seed.body = Body(seed.body.value)
  BY LexemesAssumption
<1> QED  BY <1>2, <1>3, FlawedIs

\* and only what may be wrong with them goes wrong.
LEMMA FlawKept == FlawKnown /\ [GatesNext]_gateVars => FlawKnown'
<1> SUFFICES ASSUME FlawKnown, [GatesNext]_gateVars, gate' \in BodyGateNames
             PROVE  body'.flaw \in {"none"} \cup FlawsAt(gate')
  BY DEF FlawKnown
<1>1. gate' = gate /\ gate \in BodyGateNames /\ gate \notin ValueGateNames
  BY GateKept DEF ValueGateNames, TextGates, RecordGates, BodyGateNames
<1>2. CASE Edit
  <2>1. PICK v : body' = Body(v)
    BY <1>2 DEF Edit
  <2> QED  BY <2>1, FlawedIs
<1>3. CASE Damage
  <2>1. CASE \E flaw \in FlawsAt(gate) : body' = Flawed(flaw, body.value)
    BY <1>1, <2>1, FlawedIs
  <2>2. CASE body' = Body(Null)
    BY <2>2, FlawedIs
  <2> QED  BY <1>3, <2>1, <2>2 DEF Damage
<1>4. CASE body' = body
  BY <1>1, <1>4 DEF FlawKnown
<1> QED  BY <1>1, <1>2, <1>3, <1>4 DEF GatesNext, BodyNext, ValueNext, gateVars

----------------------------------------------------------------------------
\* Objects.

\* A record that is written out, as a lexeme.
LEMMA ObjIs ==
    ASSUME NEW f, f = [k \in DOMAIN f |-> f[k]]
    PROVE  /\ IsObject(Obj(f)) /\ Keys(Obj(f)) = DOMAIN f /\ IsLexeme(Obj(f))
           /\ \A k \in DOMAIN f : Field(Obj(f), k) = f[k]
<1> DEFINE w == Obj(f)
<1>1. w.type = "object" /\ w.fields = f
  BY DEF Obj
<1>2. w = Obj(f)
  OBVIOUS
<1> HIDE DEF w
<1>3. IsObject(w) /\ Keys(w) = DOMAIN f
  BY <1>1 DEF IsObject, Keys
<1>4. w = Obj([k \in Keys(w) |-> w.fields[k]])
  BY <1>1, <1>2, <1>3
<1>5. IsLexeme(w)
  BY <1>1, <1>4 DEF IsLexeme
<1>6. \A k \in DOMAIN f : Field(w, k) = f[k]
  BY <1>1, <1>3 DEF Field
<1> QED  BY <1>3, <1>5, <1>6 DEF w

\* Objects with the same keys and the same values are one.
LEMMA SameObject ==
    ASSUME NEW v, NEW w, IsLexeme(v), IsLexeme(w), IsObject(v), IsObject(w),
           Keys(v) = Keys(w), \A k \in Keys(w) : Field(v, k) = Field(w, k)
    PROVE  v = w
<1>1. v = Obj([k \in Keys(v) |-> v.fields[k]]) /\ w = Obj([k \in Keys(w) |-> w.fields[k]])
  BY Zenon DEF IsLexeme
<1>2. \A k \in Keys(w) : v.fields[k] = w.fields[k]
  BY DEF Field
<1>3. [k \in Keys(v) |-> v.fields[k]] = [k \in Keys(w) |-> w.fields[k]]
  BY <1>2
<1> QED  BY <1>1, <1>3, Zenon

\* An object of lexemes, and one of such objects.
LEMMA JsonHolds ==
    ASSUME NEW v, IsJson(v)
    PROVE  HoldsLexemes(v) /\ IsLexeme(v) /\ \A k : k \in Keys(v) => HoldsLexemes(Field(v, k))
BY FieldLexeme DEF IsJson, HoldsLexemes

\* A lexeme that is a text, a number or a boolean is the one spelling of it.
LEMMA Spelled ==
    ASSUME NEW v, HoldsLexemes(v), NEW key
    PROVE  /\ Field(v, key).type = "string" =>
                 Field(v, key) = Str(Field(v, key).text) /\ Text(v, key) = Field(v, key).text
           /\ Field(v, key).type = "number" => Field(v, key) = Num(Field(v, key).text)
           /\ Field(v, key).type = "boolean" => Field(v, key) \in {Bool("true"), Bool("false")}
           /\ Field(v, key).type = "null" => Field(v, key) = Null
           /\ Field(v, key).type # "string" => Text(v, key) = ""
           /\ key \in Keys(v) => IsLexeme(Field(v, key))
<1>1. CASE key \in Keys(v)
  <2>1. IsLexeme(Field(v, key))
    BY <1>1, FieldLexeme DEF HoldsLexemes
  <2> QED  BY <2>1 DEF IsLexeme, Str, Num, Text
<1>2. CASE key \notin Keys(v)
  BY <1>2, FieldIs DEF Text
<1> QED  BY <1>1, <1>2

\* A text as a lexeme.
LEMMA StrIs ==
    ASSUME NEW v, NEW key, NEW text, Field(v, key) = Str(text)
    PROVE  Field(v, key).type = "string" /\ Text(v, key) = text
BY DEF Str, Scalar, Text

\* The body is one object, and what a gate asks of it.
LEMMA RawObjectPass ==
    ASSUME NEW b
    PROVE  RawObject(b) = Pass <=> b.flaw \notin Flaws /\ IsObject(b.value)
<1> DEFINE checks == <<Unless(b.flaw # "oversize", "packet_size"),
              Unless(b.flaw \notin {"utf8", "duplicate", "trailing"}, "body_parse"),
              Unless(IsObject(b.value), "wrong_type")>>
<1>1. RawObject(b) = FirstOf(checks) /\ Len(checks) = 3
  BY DEF RawObject
<1>2. /\ checks[1] = Pass <=> b.flaw # "oversize"
      /\ checks[2] = Pass <=> b.flaw \notin {"utf8", "duplicate", "trailing"}
      /\ checks[3] = Pass <=> IsObject(b.value)
  BY DEF Unless, Pass
<1> HIDE DEF checks
<1>3. FirstOf(checks) = Pass <=> \A i \in 1..3 : checks[i] = Pass
  <2>1. Len(checks) \in Nat
    BY <1>1
  <2>2. FirstOf(checks) = Pass <=> \A i \in 1..Len(checks) : checks[i] = Pass
    BY <2>1, FirstOfPass
  <2> QED  BY <1>1, <2>2
<1>4. (\A i \in 1..3 : checks[i] = Pass) <=>
         checks[1] = Pass /\ checks[2] = Pass /\ checks[3] = Pass
  OBVIOUS
<1>5. checks[1] = Pass /\ checks[2] = Pass <=> b.flaw \notin Flaws
  BY <1>2 DEF Flaws
<1>6. FirstOf(checks) = Pass <=> checks[1] = Pass /\ checks[2] = Pass /\ checks[3] = Pass
  BY <1>3, <1>4
<1> QED  BY <1>1, <1>2, <1>5, <1>6

\* An object of given keys, in bytes that decode.
LEMMA ExactObjectPass ==
    ASSUME NEW b, NEW required, NEW allowed
    PROVE  ExactObject(b, required, allowed) = Pass <=>
              /\ b.flaw \notin Flaws /\ IsObject(b.value)
              /\ Keys(b.value) \subseteq allowed /\ required \subseteq Keys(b.value)
<1> DEFINE checks == <<RawObject(b), ExactKeys(b.value, required, allowed)>>
<1>1. ExactObject(b, required, allowed) = FirstOf(checks) /\ Len(checks) = 2
  BY DEF ExactObject
<1>2. checks[1] = RawObject(b) /\ checks[2] = ExactKeys(b.value, required, allowed)
  OBVIOUS
<1> HIDE DEF checks
<1>3. FirstOf(checks) = Pass <=> \A i \in 1..2 : checks[i] = Pass
  BY <1>1, FirstOfPass
<1> QED  BY <1>1, <1>2, <1>3, RawObjectPass, ExactKeysPass

\* Checks, written out.
Strings(v, keys) == \A key \in keys : Field(v, key).type = "string"
\* Fields that are all texts.
LEMMA AreStringsPass ==
    ASSUME NEW v, NEW keys
    PROVE  AreStrings(v, keys) = Pass <=> Strings(v, keys)
BY DEF AreStrings, Strings, Unless, Pass

----------------------------------------------------------------------------
\* Resource requests.
RequestHolds(b, agent) ==
    LET v == b.value
        data == Field(v, "usrData")
    IN  /\ b.flaw \notin Flaws /\ IsObject(v) /\ Keys(v) = R!RequestOuter
        /\ Strings(v, {"usrId", "devId", "aspId"})
        /\ IsObject(data) /\ Keys(data) \subseteq R!UserData
        /\ R!UserDataRequired \subseteq Keys(data)
        /\ Strings(data, {"query", "request_nonce", "connector_id"})
        /\ Strings(data, {"expected_crid"} \cap Keys(data))
        /\ Field(data, "version") = Num("1")
        /\ Text(v, "usrId") = agent /\ Text(v, "devId") = agent /\ agent \in AgentIds
        /\ Text(v, "aspId") = R!AspId /\ Text(data, "query") = R!Query
        /\ Text(data, "request_nonce") \in Nonces
        /\ Text(data, "connector_id") \in ConnectorIds
        /\ Has(data, "expected_crid") => Text(data, "expected_crid") \in CRIDs

\* The version of a request.
LEMMA RequestVersionPass ==
    ASSUME NEW data
    PROVE  R!RequestVersion(data) = Pass <=> Field(data, "version") = Num("1")
<1> DEFINE checks == <<Unless(Field(data, "version").type = "number", "wrong_type"),
                       Unless(R!IsVersion1(data), "semantic")>>
<1>1. R!RequestVersion(data) = FirstOf(checks) /\ Len(checks) = 2
  BY ResourceCopies DEF R!RequestVersion
<1>2. R!IsVersion1(data) <=> Field(data, "version") = Num("1")
  BY ResourceCopies DEF R!IsVersion1
<1>3. /\ checks[1] = Pass <=> Field(data, "version").type = "number"
      /\ checks[2] = Pass <=> Field(data, "version") = Num("1")
  BY <1>2 DEF Unless, Pass
<1> HIDE DEF checks
<1>4. FirstOf(checks) = Pass <=> \A i \in 1..2 : checks[i] = Pass
  BY <1>1, FirstOfPass
<1>5. Num("1").type = "number"
  BY DEF Num, Scalar
<1> QED  BY <1>1, <1>3, <1>4, <1>5

\* What an accepted resource request is known to be, and all that it has to be.
LEMMA RequestPass ==
    ASSUME NEW b, NEW agent
    PROVE  R!ParseRequest(b, agent) = Pass <=> RequestHolds(b, agent)
<1> DEFINE v == b.value
           data == Field(v, "usrData")
           checks == <<ExactObject(b, R!RequestOuter, R!RequestOuter),
                       AreStrings(v, {"usrId", "devId", "aspId"}),
                       Unless(IsObject(data), "wrong_type"),
                       ExactKeys(data, R!UserDataRequired, R!UserData),
                       AreStrings(data, {"query", "request_nonce", "connector_id"}),
                       AreStrings(data, {"expected_crid"} \cap Keys(data)),
                       R!RequestVersion(data),
                       R!AgentBinding(v, agent),
                       R!RequestSemantics(v, data)>>
<1>1. R!ParseRequest(b, agent) = FirstOf(checks) /\ Len(checks) = 9
  BY ResourceCopies DEF R!ParseRequest
<1>2. R!AgentBinding(v, agent) = Pass <=>
         Text(v, "usrId") = agent /\ Text(v, "devId") = agent /\ agent \in AgentIds
  BY ResourceCopies DEF R!AgentBinding, Unless, Pass
<1>3. R!RequestSemantics(v, data) = Pass <=>
        /\ Text(v, "aspId") = R!AspId /\ Text(data, "query") = R!Query
        /\ Text(data, "request_nonce") \in Nonces
        /\ Text(data, "connector_id") \in ConnectorIds
        /\ Has(data, "expected_crid") => Text(data, "expected_crid") \in CRIDs
  BY ResourceCopies DEF R!RequestSemantics, Unless, Pass
<1>4. /\ checks[1] = ExactObject(b, R!RequestOuter, R!RequestOuter)
      /\ checks[2] = AreStrings(v, {"usrId", "devId", "aspId"})
      /\ checks[3] = Pass <=> IsObject(data)
      /\ checks[4] = ExactKeys(data, R!UserDataRequired, R!UserData)
      /\ checks[5] = AreStrings(data, {"query", "request_nonce", "connector_id"})
      /\ checks[6] = AreStrings(data, {"expected_crid"} \cap Keys(data))
      /\ checks[7] = R!RequestVersion(data)
      /\ checks[8] = R!AgentBinding(v, agent)
      /\ checks[9] = R!RequestSemantics(v, data)
  BY DEF Unless, Pass
<1> HIDE DEF checks
<1>5. FirstOf(checks) = Pass <=> \A i \in 1..9 : checks[i] = Pass
  <2>1. Len(checks) \in Nat
    BY <1>1
  <2>2. FirstOf(checks) = Pass <=> \A i \in 1..Len(checks) : checks[i] = Pass
    BY <2>1, FirstOfPass
  <2> QED  BY <1>1, <2>2
<1>6. (\A i \in 1..9 : checks[i] = Pass) <=>
         /\ checks[1] = Pass /\ checks[2] = Pass /\ checks[3] = Pass /\ checks[4] = Pass
         /\ checks[5] = Pass /\ checks[6] = Pass /\ checks[7] = Pass /\ checks[8] = Pass
         /\ checks[9] = Pass
  OBVIOUS
<1>7. checks[1] = Pass <=> b.flaw \notin Flaws /\ IsObject(v) /\ Keys(v) = R!RequestOuter
  BY <1>4, ExactObjectPass
<1>8. checks[4] = Pass
         <=> Keys(data) \subseteq R!UserData /\ R!UserDataRequired \subseteq Keys(data)
  BY <1>4, ExactKeysPass
<1>9. /\ checks[2] = Pass <=> Strings(v, {"usrId", "devId", "aspId"})
      /\ checks[5] = Pass <=> Strings(data, {"query", "request_nonce", "connector_id"})
      /\ checks[6] = Pass <=> Strings(data, {"expected_crid"} \cap Keys(data))
  BY <1>4, AreStringsPass
<1>10. checks[7] = Pass <=> Field(data, "version") = Num("1")
  BY <1>4, RequestVersionPass
<1> QED  BY <1>1, <1>2, <1>3, <1>4, <1>5, <1>6, <1>7, <1>8, <1>9, <1>10 DEF RequestHolds

\* What the encoding of a request is made of.
LEMMA EncodedRequest ==
    ASSUME NEW r
    PROVE  LET e == R!EncodeRequest(r).value
               d == Field(e, "usrData")
           IN  /\ R!EncodeRequest(r) = Body(e) /\ IsLexeme(e) /\ IsObject(e)
               /\ Keys(e) = R!RequestOuter
               /\ Field(e, "usrId") = Str(r.agent) /\ Field(e, "devId") = Str(r.agent)
               /\ Field(e, "aspId") = Str(R!AspId)
               /\ IsLexeme(d) /\ IsObject(d)
               /\ r.expected = "" => Keys(d) = R!UserDataRequired
               /\ r.expected # "" =>
                     Keys(d) = R!UserData /\ Field(d, "expected_crid") = Str(r.expected)
               /\ Field(d, "query") = Str(R!Query) /\ Field(d, "version") = Num("1")
               /\ Field(d, "request_nonce") = Str(r.nonce)
               /\ Field(d, "connector_id") = Str(r.connector)
<1> DEFINE g == [query |-> Str(R!Query), version |-> Num("1"),
                 request_nonce |-> Str(r.nonce), connector_id |-> Str(r.connector)]
           d == IF r.expected = "" THEN Obj(g)
                ELSE With(Obj(g), "expected_crid", Str(r.expected))
           f == [usrId |-> Str(r.agent), devId |-> Str(r.agent), aspId |-> Str(R!AspId),
                 usrData |-> d]
<1>1. R!EncodeRequest(r) = Body(Obj(f))
  BY ResourceCopies DEF R!EncodeRequest
<1>2. g = [k \in DOMAIN g |-> g[k]] /\ DOMAIN g = R!UserDataRequired
  BY DEF R!UserDataRequired
<1>3. /\ g["query"] = Str(R!Query) /\ g["version"] = Num("1")
      /\ g["request_nonce"] = Str(r.nonce) /\ g["connector_id"] = Str(r.connector)
  OBVIOUS
<1> HIDE DEF g
<1>4. /\ IsObject(Obj(g)) /\ Keys(Obj(g)) = R!UserDataRequired /\ IsLexeme(Obj(g))
      /\ \A k \in R!UserDataRequired : Field(Obj(g), k) = g[k]
  BY <1>2, ObjIs
<1>5. {"query", "version", "request_nonce", "connector_id"} = R!UserDataRequired
      /\ "expected_crid" \notin R!UserDataRequired
  BY DEF R!UserDataRequired
<1>6. /\ IsLexeme(d) /\ IsObject(d)
      /\ r.expected = "" => Keys(d) = R!UserDataRequired
      /\ r.expected # "" => Keys(d) = R!UserData /\ Field(d, "expected_crid") = Str(r.expected)
      /\ \A k \in R!UserDataRequired : Field(d, k) = g[k]
  <2>1. CASE r.expected = ""
    BY <1>4, <2>1
  <2>2. CASE r.expected # ""
    <3>1. PICK w : w = With(Obj(g), "expected_crid", Str(r.expected))
      OBVIOUS
    <3>2. /\ IsObject(w) /\ Keys(w) = Keys(Obj(g)) \cup {"expected_crid"} /\ IsLexeme(w)
          /\ \A k \in Keys(w) : w.fields[k] = IF k = "expected_crid" THEN Str(r.expected)
                                             ELSE Obj(g).fields[k]
      BY <3>1, WithIs
    <3>3. Keys(w) = R!UserData
      BY <1>4, <3>2 DEF R!UserData
    <3>4. Field(w, "expected_crid") = Str(r.expected)
      BY <3>2 DEF Field
    <3>5. \A k \in R!UserDataRequired : Field(w, k) = Field(Obj(g), k)
      BY <1>4, <1>5, <3>2 DEF Field
    <3>6. d = w
      BY <2>2, <3>1
    <3> HIDE DEF d
    <3> QED  BY <1>4, <2>2, <3>2, <3>3, <3>4, <3>5, <3>6
  <2> QED  BY <2>1, <2>2
<1> HIDE DEF d
<1>7. f = [k \in DOMAIN f |-> f[k]] /\ DOMAIN f = R!RequestOuter
  BY DEF R!RequestOuter
<1>8. /\ f["usrId"] = Str(r.agent) /\ f["devId"] = Str(r.agent) /\ f["aspId"] = Str(R!AspId)
      /\ f["usrData"] = d
  OBVIOUS
<1> HIDE DEF f
<1>9. /\ IsObject(Obj(f)) /\ Keys(Obj(f)) = R!RequestOuter /\ IsLexeme(Obj(f))
      /\ \A k \in R!RequestOuter : Field(Obj(f), k) = f[k]
  BY <1>7, ObjIs
<1>10. {"usrId", "devId", "aspId", "usrData"} = R!RequestOuter
  BY DEF R!RequestOuter
<1>11. Body(Obj(f)).value = Obj(f)
  BY FlawedIs
<1>12. R!EncodeRequest(r).value = Obj(f)
  BY <1>1, <1>11
<1>13. Field(Obj(f), "usrData") = d
  BY <1>8, <1>9, <1>10
<1>14. /\ Field(Obj(f), "usrId") = Str(r.agent) /\ Field(Obj(f), "devId") = Str(r.agent)
       /\ Field(Obj(f), "aspId") = Str(R!AspId)
  BY <1>8, <1>9, <1>10
<1>15. /\ Field(d, "query") = Str(R!Query) /\ Field(d, "version") = Num("1")
       /\ Field(d, "request_nonce") = Str(r.nonce)
       /\ Field(d, "connector_id") = Str(r.connector)
  BY <1>3, <1>5, <1>6
<1> QED  BY <1>1, <1>6, <1>9, <1>12, <1>13, <1>14, <1>15

\* A Hub takes exactly the encodings of the requests that may be made of it.
LEMMA RequestForm == Jsons /\ FlawKnown => RequestsAreEncodings
<1> DEFINE v == body.value
           data == Field(v, "usrData")
           r == RequestOf(v)
           e == R!EncodeRequest(r).value
           d == Field(e, "usrData")
<1>1. SUFFICES ASSUME Jsons, FlawKnown, gate = "resource_request"
               PROVE  Accepted <=> ProperRequest(r, about) /\ body = R!EncodeRequest(r)
  BY DEF RequestsAreEncodings
<1>2. Accepted <=> RequestHolds(body, about)
  BY <1>1, RequestPass DEF Accepted, Class
<1>3. body = Flawed(body.flaw, v) /\ IsJson(v) /\ body.flaw \in {"none"} \cup Flaws
  BY <1>1 DEF Jsons, FlawKnown, BodyGateNames, FlawsAt
<1>4. IsLexeme(v) /\ HoldsLexemes(v) /\ \A k : k \in Keys(v) => HoldsLexemes(Field(v, k))
  BY <1>3, JsonHolds
<1>5. /\ r.agent = Text(v, "usrId") /\ r.connector = Text(data, "connector_id")
      /\ r.nonce = Text(data, "request_nonce") /\ r.expected = Text(data, "expected_crid")
  BY DEF RequestOf
<1> HIDE DEF r
<1>6. /\ R!EncodeRequest(r) = Body(e) /\ IsLexeme(e) /\ IsObject(e) /\ Keys(e) = R!RequestOuter
      /\ Field(e, "usrId") = Str(r.agent) /\ Field(e, "devId") = Str(r.agent)
      /\ Field(e, "aspId") = Str(R!AspId)
      /\ IsLexeme(d) /\ IsObject(d)
      /\ r.expected = "" => Keys(d) = R!UserDataRequired
      /\ r.expected # "" => Keys(d) = R!UserData /\ Field(d, "expected_crid") = Str(r.expected)
      /\ Field(d, "query") = Str(R!Query) /\ Field(d, "version") = Num("1")
      /\ Field(d, "request_nonce") = Str(r.nonce)
      /\ Field(d, "connector_id") = Str(r.connector)
  BY EncodedRequest
<1> HIDE DEF v, data, e, d
<1>7. /\ R!UserDataRequired = {"query", "version", "request_nonce", "connector_id"}
      /\ R!UserData = R!UserDataRequired \cup {"expected_crid"}
      /\ R!RequestOuter = {"usrId", "devId", "aspId", "usrData"}
  BY DEF R!UserDataRequired, R!UserData, R!RequestOuter
<1>8. ASSUME RequestHolds(body, about)
      PROVE  ProperRequest(r, about) /\ body = R!EncodeRequest(r)
  <2>1. /\ body.flaw \notin Flaws /\ IsObject(v) /\ Keys(v) = R!RequestOuter
        /\ Strings(v, {"usrId", "devId", "aspId"})
        /\ IsObject(data) /\ Keys(data) \subseteq R!UserData
        /\ R!UserDataRequired \subseteq Keys(data)
        /\ Strings(data, {"query", "request_nonce", "connector_id"})
        /\ Strings(data, {"expected_crid"} \cap Keys(data))
        /\ Field(data, "version") = Num("1")
        /\ Text(v, "usrId") = about /\ Text(v, "devId") = about /\ about \in AgentIds
        /\ Text(v, "aspId") = R!AspId /\ Text(data, "query") = R!Query
        /\ Text(data, "request_nonce") \in Nonces
        /\ Text(data, "connector_id") \in ConnectorIds
        /\ Has(data, "expected_crid") => Text(data, "expected_crid") \in CRIDs
    BY <1>8 DEF RequestHolds, v, data
  <2>2. HoldsLexemes(data) /\ IsLexeme(data)
    BY <1>4, <1>7, <2>1 DEF data, HoldsLexemes
  <2>3. /\ Field(v, "usrId") = Str(Text(v, "usrId"))
        /\ Field(v, "devId") = Str(Text(v, "devId"))
        /\ Field(v, "aspId") = Str(Text(v, "aspId"))
    BY <1>4, <2>1, Spelled DEF Strings
  <2>4. /\ Field(data, "query") = Str(Text(data, "query"))
        /\ Field(data, "request_nonce") = Str(Text(data, "request_nonce"))
        /\ Field(data, "connector_id") = Str(Text(data, "connector_id"))
    BY <2>1, <2>2, Spelled DEF Strings
  <2>5. /\ r.expected # "" => /\ Keys(data) = R!UserData /\ r.expected \in CRIDs
                              /\ Field(data, "expected_crid") = Str(r.expected)
        /\ r.expected = "" => Keys(data) = R!UserDataRequired
    <3>1. CASE "expected_crid" \in Keys(data)
      <4>1. r.expected \in CRIDs /\ r.expected # ""
        BY <1>5, <2>1, <3>1, IdentifiersAssumption DEF Has
      <4>2. Field(data, "expected_crid").type = "string"
        BY <2>1, <3>1 DEF Strings
      <4>3. Field(data, "expected_crid") = Str(r.expected)
        <5>1. Field(data, "expected_crid") = Str(Text(data, "expected_crid"))
          BY ONLY <2>2, <4>2, Spelled
        <5> QED  BY ONLY <1>5, <5>1
      <4>4. Keys(data) = R!UserData
        BY <1>7, <2>1, <3>1
      <4> QED  BY ONLY <4>1, <4>3, <4>4
    <3>2. CASE "expected_crid" \notin Keys(data)
      <4>1. r.expected = ""
        BY <1>5, <3>2, FieldIs DEF Text
      <4> QED  BY <1>7, <2>1, <3>2, <4>1
    <3> QED  BY <3>1, <3>2
  <2>6. data = d
    <3>1. Keys(data) = Keys(d)
      BY <1>6, <2>5
    <3>2. Field(data, "query") = Field(d, "query")
           /\ Field(data, "version") = Field(d, "version")
      BY <1>6, <2>1, <2>4
    <3>3. Field(data, "request_nonce") = Field(d, "request_nonce")
      BY <1>5, <1>6, <2>4
    <3>4. Field(data, "connector_id") = Field(d, "connector_id")
      BY <1>5, <1>6, <2>4
    <3>5. \A k \in R!UserDataRequired : Field(data, k) = Field(d, k)
      BY <1>7, <3>2, <3>3, <3>4
    <3>6. "expected_crid" \in Keys(d) => r.expected # ""
      <4>1. "expected_crid" \notin R!UserDataRequired
        BY <1>7
      <4>2. r.expected = "" => Keys(d) = R!UserDataRequired
        BY <1>6
      <4> QED  BY <4>1, <4>2
    <3>7. r.expected # "" => Field(data, "expected_crid") = Field(d, "expected_crid")
      BY <1>6, <2>5
    <3>8. "expected_crid" \in Keys(d) =>
             Field(data, "expected_crid") = Field(d, "expected_crid")
      BY <3>6, <3>7
    <3>9. \A k \in Keys(d) : Field(data, k) = Field(d, k)
      BY <1>6, <1>7, <3>5, <3>8
    <3> QED  BY <1>6, <2>1, <2>2, <3>1, <3>9, SameObject
  <2>7. v = e
    <3>1. Field(v, "usrId") = Field(e, "usrId") /\ Field(v, "devId") = Field(e, "devId")
      BY <1>5, <1>6, <2>1, <2>3
    <3>2. Field(v, "aspId") = Field(e, "aspId") /\ Field(v, "usrData") = Field(e, "usrData")
      BY <1>6, <2>1, <2>3, <2>6 DEF data, d
    <3>3. \A k \in Keys(e) : Field(v, k) = Field(e, k)
      BY <1>6, <1>7, <3>1, <3>2
    <3> QED  BY <1>4, <1>6, <2>1, <3>3, SameObject
  <2>8. body = R!EncodeRequest(r)
    BY <1>3, <1>6, <2>1, <2>7, FlawedIs
  <2>9. ProperRequest(r, about)
    BY <1>5, <2>1, <2>5 DEF ProperRequest
  <2> QED  BY <2>8, <2>9
<1>9. ASSUME ProperRequest(r, about), body = R!EncodeRequest(r)
      PROVE  RequestHolds(body, about)
  <2>1. v = e /\ data = d /\ body.flaw = "none"
    <3>1. body = Body(e)
      BY <1>6, <1>9
    <3>2. body.value = e /\ body.flaw = "none"
      BY <3>1, FlawedIs
    <3>3. v = e
      BY <3>2 DEF v
    <3> QED  BY <3>2, <3>3 DEF data, d
  <2>2. /\ Field(v, "usrId") = Str(r.agent) /\ Field(v, "devId") = Str(r.agent)
         /\ Field(v, "aspId") = Str(R!AspId)
    BY <1>6, <2>1
  <2>3. /\ Field(v, "usrId").type = "string" /\ Text(v, "usrId") = r.agent
        /\ Field(v, "devId").type = "string" /\ Text(v, "devId") = r.agent
        /\ Field(v, "aspId").type = "string" /\ Text(v, "aspId") = R!AspId
    BY <2>2, StrIs
  <2>4. /\ Field(data, "query") = Str(R!Query) /\ Field(data, "request_nonce") = Str(r.nonce)
         /\ Field(data, "connector_id") = Str(r.connector)
    BY <1>6, <2>1
  <2>5. /\ Field(data, "query").type = "string" /\ Text(data, "query") = R!Query
        /\ Field(data, "request_nonce").type = "string"
        /\ Text(data, "request_nonce") = r.nonce
        /\ Field(data, "connector_id").type = "string"
        /\ Text(data, "connector_id") = r.connector
    BY <2>4, StrIs
  <2>6. /\ r.agent = about /\ r.agent \in AgentIds /\ r.connector \in ConnectorIds
        /\ r.nonce \in Nonces /\ r.expected \in CRIDs \cup {""}
    BY <1>9 DEF ProperRequest
  <2>7. "expected_crid" \in Keys(data) =>
           Field(data, "expected_crid").type = "string" /\ Text(data, "expected_crid") \in CRIDs
    <3> SUFFICES ASSUME "expected_crid" \in Keys(data)
                 PROVE  Field(data, "expected_crid").type = "string"
                         /\ Text(data, "expected_crid") \in CRIDs
      OBVIOUS
    <3>1. r.expected # ""
      BY <1>6, <1>7, <2>1
    <3>2. Field(data, "expected_crid") = Str(r.expected)
      BY <1>6, <2>1, <3>1
    <3> QED  BY <2>6, <3>1, <3>2, StrIs
  <2>8. /\ Strings(v, {"usrId", "devId", "aspId"})
        /\ Strings(data, {"query", "request_nonce", "connector_id"})
        /\ Strings(data, {"expected_crid"} \cap Keys(data))
    BY <2>3, <2>5, <2>7 DEF Strings
  <2>9. Keys(data) \subseteq R!UserData /\ R!UserDataRequired \subseteq Keys(data)
    BY <1>6, <1>7, <2>1
  <2>10. Has(data, "expected_crid") => Text(data, "expected_crid") \in CRIDs
    BY <2>7 DEF Has
  <2>11. body.flaw \notin Flaws
    BY <2>1 DEF Flaws
  <2> QED  BY <1>6, <2>1, <2>3, <2>5, <2>6, <2>8, <2>9, <2>10, <2>11 DEF RequestHolds, v, data
<1> QED  BY <1>2, <1>8, <1>9
----------------------------------------------------------------------------
(***************************************************************************)
(* The results of one.                                                     *)
(***************************************************************************)

\* The client that reads a result has asked.
ResultAsked ==
    gate = "resource_result" => about.agent \in AgentIds /\ about.connector \in ConnectorIds

\* They are at first,
LEMMA InitResult == GatesInit => ResultAsked
<1> SUFFICES ASSUME GatesInit, gate = "resource_result"
             PROVE  about.agent \in AgentIds /\ about.connector \in ConnectorIds
  BY DEF ResultAsked
<1>1. gate \notin ValueGateNames
  BY DEF ValueGateNames, TextGates, RecordGates
<1> QED  BY <1>1, IdentifiersAssumption DEF GatesInit, BodyInit, ValueInit

\* and they stay.
LEMMA ResultKept == ResultAsked /\ [GatesNext]_gateVars => ResultAsked'
BY GateKept DEF ResultAsked

\* What an accepted success is known to be.
SuccessHolds(v, request) ==
    LET list == Field(v, "list")
    IN  /\ Keys(v) = {"errCode", "list"} /\ IsObject(list) /\ Keys(list) = R!ListFields
        /\ Strings(list, R!ListStrings)
        /\ Field(list, "version") = Num("1") /\ Field(list, "found_existing").type = "boolean"
        /\ Text(list, "query") = R!Query
        /\ request # R!NoRequest => /\ Text(list, "agent_id") = request.agent
                                    /\ Text(list, "connector_id") = request.connector
        /\ Text(list, "agent_id") \in AgentIds /\ Text(list, "connector_id") \in ConnectorIds
        /\ Text(list, "resource_public_key") \in ResourceKeys
        /\ Text(list, "connector_routing_id") \in RoutingIds
        /\ Text(list, "knock_resource_id") \notin BadKnockIds
        /\ Text(list, "knock_resource_id") \notin
             {Text(list, "resource_public_key"), Text(list, "connector_routing_id")}
        /\ Text(list, "crid") \in CRIDs
        /\ Text(list, "crid") = CridOf[Text(list, "resource_public_key")]
        /\ request.expected # "" => Text(list, "crid") = request.expected

\* The version of a result.
LEMMA ResultVersionPass ==
    ASSUME NEW list
    PROVE  R!ResultVersion(list) = Pass <=> Field(list, "version") = Num("1")
<1> DEFINE number == /\ Field(list, "version").type = "number"
                     /\ Field(list, "version").text # "-1"
<1>1. R!ResultVersion(list) = FirstOf(<<Unless(number, "wrong_type"),
                                       Unless(R!IsVersion1(list), "semantic")>>)
  BY ResourceCopies DEF R!ResultVersion
<1>2. R!IsVersion1(list) <=> Field(list, "version") = Num("1")
  BY ResourceCopies DEF R!IsVersion1
<1>3. /\ Unless(number, "wrong_type") = Pass <=> number
      /\ Unless(R!IsVersion1(list), "semantic") = Pass <=> R!IsVersion1(list)
  BY DEF Unless, Pass
<1>4. Field(list, "version") = Num("1") => number
  BY DEF Num, Scalar
<1> HIDE DEF number
<1> QED  BY <1>1, <1>2, <1>3, <1>4, Passes2

\* The CRID of a result is the one of its key.
LEMMA CridBindingPass ==
    ASSUME NEW list
    PROVE  R!CridBinding(list) = Pass <=>
              /\ Text(list, "crid") \in CRIDs
              /\ Text(list, "resource_public_key") \in ResourceKeys
              /\ Text(list, "crid") = CridOf[Text(list, "resource_public_key")]
<1> DEFINE derived == /\ Text(list, "resource_public_key") \in ResourceKeys
                      /\ Text(list, "crid") = CridOf[Text(list, "resource_public_key")]
<1>1. R!CridBinding(list) = FirstOf(<<Unless(Text(list, "crid") \in CRIDs, "semantic"),
                                     Unless(derived, "crid_binding")>>)
  BY ResourceCopies DEF R!CridBinding
<1>2. /\ Unless(Text(list, "crid") \in CRIDs, "semantic") = Pass
            <=> Text(list, "crid") \in CRIDs
      /\ Unless(derived, "crid_binding") = Pass <=> derived
  BY DEF Unless, Pass
<1> HIDE DEF derived
<1>3. R!CridBinding(list) = Pass <=> Text(list, "crid") \in CRIDs /\ derived
  BY <1>1, <1>2, Passes2
<1> QED  BY <1>3 DEF derived

\* And it is all that it has to be.
LEMMA SuccessPass ==
    ASSUME NEW b, NEW request
    PROVE  R!ParseSuccess(b, request) = Pass <=> SuccessHolds(b.value, request)
<1> DEFINE v == b.value
           list == Field(v, "list")
           boolean == Field(list, "found_existing").type = "boolean"
<1>1. R!ParseSuccess(b, request) =
         FirstOf(<<ExactKeys(v, {"errCode", "list"}, {"errCode", "list"}),
                  Unless(IsObject(list), "wrong_type"),
                  ExactKeys(list, R!ListFields, R!ListFields),
                  AreStrings(list, R!ListStrings),
                  R!ResultVersion(list),
                  Unless(boolean, "wrong_type"),
                  Unless(Text(list, "query") = R!Query, "semantic"),
                  R!RequestBinding(list, request),
                  R!ListGrammar(list),
                  R!NotCrossWired(list),
                  R!CridBinding(list),
                  R!Continuity(list, request)>>)
  BY ResourceCopies DEF R!ParseSuccess
<1>2. /\ Unless(IsObject(list), "wrong_type") = Pass <=> IsObject(list)
      /\ Unless(boolean, "wrong_type") = Pass <=> boolean
      /\ Unless(Text(list, "query") = R!Query, "semantic") = Pass
            <=> Text(list, "query") = R!Query
  BY DEF Unless, Pass
<1>3. R!RequestBinding(list, request) = Pass <=>
         (request # R!NoRequest => /\ Text(list, "agent_id") = request.agent
                                   /\ Text(list, "connector_id") = request.connector)
  BY ResourceCopies DEF R!RequestBinding, Unless, Pass
<1>4. R!ListGrammar(list) = Pass <=>
         /\ Text(list, "agent_id") \in AgentIds /\ Text(list, "connector_id") \in ConnectorIds
         /\ Text(list, "resource_public_key") \in ResourceKeys
         /\ Text(list, "connector_routing_id") \in RoutingIds
         /\ Text(list, "knock_resource_id") \notin BadKnockIds
  BY ResourceCopies DEF R!ListGrammar, Unless, Pass
<1>5. R!NotCrossWired(list) = Pass <=> Text(list, "knock_resource_id") \notin
             {Text(list, "resource_public_key"), Text(list, "connector_routing_id")}
  BY ResourceCopies DEF R!NotCrossWired, Unless, Pass
<1>6. R!Continuity(list, request) = Pass <=>
         (request.expected # "" => Text(list, "crid") = request.expected)
  BY ResourceCopies DEF R!Continuity, Unless, Pass
<1>7. /\ ExactKeys(v, {"errCode", "list"}, {"errCode", "list"}) = Pass
            <=> Keys(v) = {"errCode", "list"}
      /\ ExactKeys(list, R!ListFields, R!ListFields) = Pass <=> Keys(list) = R!ListFields
  BY ExactKeysPass
<1>8. AreStrings(list, R!ListStrings) = Pass <=> Strings(list, R!ListStrings)
  BY AreStringsPass
<1> HIDE DEF boolean, list
<1>9. R!ParseSuccess(b, request) = Pass <=>
         /\ Keys(v) = {"errCode", "list"} /\ IsObject(list) /\ Keys(list) = R!ListFields
         /\ Strings(list, R!ListStrings) /\ R!ResultVersion(list) = Pass /\ boolean
         /\ Text(list, "query") = R!Query /\ R!RequestBinding(list, request) = Pass
         /\ R!ListGrammar(list) = Pass /\ R!NotCrossWired(list) = Pass
         /\ R!CridBinding(list) = Pass /\ R!Continuity(list, request) = Pass
  BY <1>1, <1>2, <1>7, <1>8, Passes12
<1> QED
  BY <1>3, <1>4, <1>5, <1>6, <1>9, ResultVersionPass, CridBindingPass
  DEF SuccessHolds, boolean, list

\* What an accepted error is known to be.
ErrorHolds(v) ==
    LET code == Text(v, "errCode")
        delayed == Has(v, "retryAfterSeconds")
    IN  /\ Keys(v) \subseteq {"errCode", "errMsg", "retryAfterSeconds"}
        /\ {"errCode", "errMsg"} \subseteq Keys(v)
        /\ Field(v, "errMsg").type = "string"
        /\ code \in R!ErrorCodes /\ Text(v, "errMsg") = code
        /\ delayed => /\ Field(v, "retryAfterSeconds").type = "number"
                      /\ Field(v, "retryAfterSeconds").text \in {"1", "3600"}
                      /\ code \in {"52500", "52505"}
        /\ code = "52505" => delayed

\* A delay is where the code allows one, and where it asks for one.
LEMMA DelayPolicyPass ==
    ASSUME NEW v, Text(v, "errCode") \in R!ErrorCodes
    PROVE  R!DelayPolicy(v) = Pass <=>
              /\ Has(v, "retryAfterSeconds") => Text(v, "errCode") \in {"52500", "52505"}
              /\ Text(v, "errCode") = "52505" => Has(v, "retryAfterSeconds")
<1> DEFINE code == Text(v, "errCode")
           due == R!Policy(v) = "required" => Has(v, "retryAfterSeconds")
           allowed == R!Policy(v) = "forbidden" => ~Has(v, "retryAfterSeconds")
<1>1. R!DelayPolicy(v) = FirstOf(<<Unless(due, "retry_after_missing"),
                                  Unless(allowed, "retry_after_unexpected")>>)
  BY ResourceCopies DEF R!DelayPolicy
<1>2. /\ Unless(due, "retry_after_missing") = Pass <=> due
      /\ Unless(allowed, "retry_after_unexpected") = Pass <=> allowed
  BY DEF Unless, Pass
<1>3. R!Policy(v) = R!RetryPolicy[code]
  BY ResourceCopies DEF R!Policy
<1>4. R!RetryPolicy[code] = CASE code = "52500" -> "optional"
                              [] code = "52505" -> "required"
                              [] OTHER -> "forbidden"
  BY DEF R!RetryPolicy
<1>5. /\ R!Policy(v) = "required" <=> code = "52505"
      /\ R!Policy(v) = "forbidden" <=> code \notin {"52500", "52505"}
  BY <1>3, <1>4
<1>6. R!DelayPolicy(v) = Pass <=> due /\ allowed
  <2> HIDE DEF due, allowed
  <2> QED  BY <1>1, <1>2, Passes2
<1> QED  BY <1>5, <1>6

\* And it is all that it has to be.
LEMMA ErrorPass ==
    ASSUME NEW b
    PROVE  R!ParseError(b) = Pass <=> ErrorHolds(b.value)
<1> DEFINE v == b.value
           code == Text(v, "errCode")
           keys == {"errCode", "errMsg", "retryAfterSeconds"}
           inRange == Has(v, "retryAfterSeconds") =>
                         /\ Field(v, "retryAfterSeconds").type = "number"
                         /\ Field(v, "retryAfterSeconds").text \in {"1", "3600"}
<1>1. R!ParseError(b) = FirstOf(<<Unless(~Has(v, "list"), "list_on_error"),
                  ExactKeys(v, {"errCode", "errMsg"}, keys),
                  AreStrings(v, {"errMsg"}),
                  Unless(code \in R!ErrorCodes, "unknown_error_code"),
                  R!DelayInRange(v),
                  Unless(Text(v, "errMsg") = code, "semantic"),
                  R!DelayPolicy(v)>>)
  BY ResourceCopies DEF R!ParseError
<1>2. /\ Unless(~Has(v, "list"), "list_on_error") = Pass <=> ~Has(v, "list")
      /\ Unless(code \in R!ErrorCodes, "unknown_error_code") = Pass <=> code \in R!ErrorCodes
      /\ Unless(Text(v, "errMsg") = code, "semantic") = Pass <=> Text(v, "errMsg") = code
  BY DEF Unless, Pass
<1>3. R!DelayInRange(v) = Pass <=> inRange
  BY ResourceCopies DEF R!DelayInRange, R!ValidDelays, Unless, Pass
<1>4. ExactKeys(v, {"errCode", "errMsg"}, keys) = Pass
         <=> Keys(v) \subseteq keys /\ {"errCode", "errMsg"} \subseteq Keys(v)
  BY ExactKeysPass
<1>5. AreStrings(v, {"errMsg"}) = Pass <=> Field(v, "errMsg").type = "string"
  BY AreStringsPass DEF Strings
<1> HIDE DEF inRange, code, keys
<1>6. R!ParseError(b) = Pass <=>
         /\ ~Has(v, "list") /\ Keys(v) \subseteq keys
         /\ {"errCode", "errMsg"} \subseteq Keys(v)
         /\ Field(v, "errMsg").type = "string" /\ code \in R!ErrorCodes /\ inRange
         /\ Text(v, "errMsg") = code /\ R!DelayPolicy(v) = Pass
  BY <1>1, <1>2, <1>3, <1>4, <1>5, Passes7
<1>7. Keys(v) \subseteq keys => ~Has(v, "list")
  BY DEF keys, Has
<1>8. code \in R!ErrorCodes =>
         (R!DelayPolicy(v) = Pass <=>
              /\ Has(v, "retryAfterSeconds") => code \in {"52500", "52505"}
              /\ code = "52505" => Has(v, "retryAfterSeconds"))
  BY DelayPolicyPass DEF code
<1> QED  BY <1>6, <1>7, <1>8 DEF ErrorHolds, inRange, code, keys

\* A result is a success or an error, in bytes that decode.
LEMMA ResultPass ==
    ASSUME NEW b, NEW request
    PROVE  R!ParseResult(b, request) = Pass <=>
              /\ b.flaw \notin Flaws /\ IsObject(b.value)
              /\ Field(b.value, "errCode").type = "string"
              /\ "errCode" \in Keys(b.value)
              /\ \/ Text(b.value, "errCode") = "0" /\ SuccessHolds(b.value, request)
                 \/ Text(b.value, "errCode") # "0" /\ ErrorHolds(b.value)
<1> DEFINE v == b.value
           rest == IF R!IsSuccess(b) THEN R!ParseSuccess(b, request) ELSE R!ParseError(b)
<1>1. R!ParseResult(b, request) =
         FirstOf(<<RawObject(b), Unless(Has(v, "errCode"), "missing_field"),
                                           AreStrings(v, {"errCode"}), rest>>)
  BY ResourceCopies DEF R!ParseResult
<1>2. Unless(Has(v, "errCode"), "missing_field") = Pass <=> Has(v, "errCode")
  BY DEF Unless, Pass
<1>3. AreStrings(v, {"errCode"}) = Pass <=> Field(v, "errCode").type = "string"
  BY AreStringsPass DEF Strings
<1>4. R!IsSuccess(b) <=> Text(v, "errCode") = "0"
  BY ResourceCopies DEF R!IsSuccess
<1>5. rest = Pass <=> \/ Text(v, "errCode") = "0" /\ SuccessHolds(v, request)
                      \/ Text(v, "errCode") # "0" /\ ErrorHolds(v)
  BY <1>4, SuccessPass, ErrorPass
<1> HIDE DEF rest
<1>6. R!ParseResult(b, request) = Pass <=>
         /\ RawObject(b) = Pass /\ Has(v, "errCode") /\ Field(v, "errCode").type = "string"
         /\ rest = Pass
  BY <1>1, <1>2, <1>3, Passes4
<1> QED  BY <1>5, <1>6, RawObjectPass DEF Has
----------------------------------------------------------------------------
(***************************************************************************)
(* One wire form, of results and of assignments.                           *)
(***************************************************************************)

\* A key with one lexeme for every list that says the same.
Said(list, s) ==
    /\ IsLexeme(list) /\ IsObject(list) /\ Keys(list) = R!ListFields
    /\ Field(list, "query") = Str(R!Query) /\ Field(list, "version") = Num("1")
    /\ Field(list, "agent_id") = Str(s.agent) /\ Field(list, "connector_id") = Str(s.connector)
    /\ Field(list, "resource_public_key") = Str(s.key)
    /\ Field(list, "connector_routing_id") = Str(s.routing)
    /\ Field(list, "knock_resource_id") = Str(s.knock) /\ Field(list, "crid") = Str(s.crid)
    /\ Field(list, "found_existing") = Bool(IF s.found THEN "true" ELSE "false")

\* What the encoding of a success is made of.
LEMMA EncodedSuccess ==
    ASSUME NEW s
    PROVE  LET e == R!EncodeSuccess(s).value
           IN  /\ R!EncodeSuccess(s) = Body(e) /\ IsLexeme(e) /\ IsObject(e)
               /\ Keys(e) = {"errCode", "list"} /\ Field(e, "errCode") = Str("0")
               /\ Said(Field(e, "list"), s)
<1> DEFINE g == [query |-> Str(R!Query), version |-> Num("1"),
                 agent_id |-> Str(s.agent), connector_id |-> Str(s.connector),
                 resource_public_key |-> Str(s.key),
                 connector_routing_id |-> Str(s.routing),
                 knock_resource_id |-> Str(s.knock), crid |-> Str(s.crid),
                 found_existing |-> Bool(IF s.found THEN "true" ELSE "false")]
           f == [errCode |-> Str("0"), list |-> Obj(g)]
<1>1. R!EncodeSuccess(s) = Body(Obj(f))
  BY ResourceCopies DEF R!EncodeSuccess
<1>2. g = [k \in DOMAIN g |-> g[k]] /\ DOMAIN g = R!ListFields
  BY DEF R!ListFields
<1>3. /\ g["query"] = Str(R!Query) /\ g["version"] = Num("1")
      /\ g["agent_id"] = Str(s.agent) /\ g["connector_id"] = Str(s.connector)
      /\ g["resource_public_key"] = Str(s.key) /\ g["connector_routing_id"] = Str(s.routing)
      /\ g["knock_resource_id"] = Str(s.knock) /\ g["crid"] = Str(s.crid)
      /\ g["found_existing"] = Bool(IF s.found THEN "true" ELSE "false")
  OBVIOUS
<1> HIDE DEF g
<1>4. /\ IsObject(Obj(g)) /\ Keys(Obj(g)) = R!ListFields /\ IsLexeme(Obj(g))
      /\ \A k \in R!ListFields : Field(Obj(g), k) = g[k]
  BY <1>2, ObjIs
<1>5. Said(Obj(g), s)
  BY <1>3, <1>4 DEF Said, R!ListFields
<1>6. f = [k \in DOMAIN f |-> f[k]] /\ DOMAIN f = {"errCode", "list"}
  OBVIOUS
<1>7. f["errCode"] = Str("0") /\ f["list"] = Obj(g)
  OBVIOUS
<1> HIDE DEF f
<1>8. /\ IsObject(Obj(f)) /\ Keys(Obj(f)) = {"errCode", "list"} /\ IsLexeme(Obj(f))
      /\ \A k \in {"errCode", "list"} : Field(Obj(f), k) = f[k]
  BY <1>6, ObjIs
<1>9. Field(Obj(f), "errCode") = Str("0") /\ Field(Obj(f), "list") = Obj(g)
  BY <1>7, <1>8
<1>10. Body(Obj(f)).value = Obj(f)
  BY FlawedIs
<1>11. R!EncodeSuccess(s).value = Obj(f)
  BY <1>1, <1>10
<1> QED  BY <1>1, <1>5, <1>8, <1>9, <1>11

\* An object that says a success is the only one that does.
LEMMA SaidOnce ==
    ASSUME NEW v, NEW w, NEW s, Said(v, s), Said(w, s)
    PROVE  v = w
<1>1. /\ IsLexeme(v) /\ IsLexeme(w) /\ IsObject(v) /\ IsObject(w) /\ Keys(v) = Keys(w)
  BY DEF Said
<1>2. \A k \in R!ListFields : Field(v, k) = Field(w, k)
  BY DEF Said, R!ListFields
<1>3. \A k \in Keys(w) : Field(v, k) = Field(w, k)
  BY <1>2 DEF Said
<1> QED  BY <1>1, <1>3, SameObject

\* What the encoding of an error is made of.
LEMMA EncodedError ==
    ASSUME NEW code, NEW delay
    PROVE  LET e == R!EncodeError(code, delay).value
           IN  /\ R!EncodeError(code, delay) = Body(e) /\ IsLexeme(e) /\ IsObject(e)
               /\ Field(e, "errCode") = Str(code) /\ Field(e, "errMsg") = Str(code)
               /\ delay = "" => Keys(e) = {"errCode", "errMsg"}
               /\ delay # "" => /\ Keys(e) = {"errCode", "errMsg", "retryAfterSeconds"}
                                /\ Field(e, "retryAfterSeconds") = Num(delay)
<1> DEFINE f == [errCode |-> Str(code), errMsg |-> Str(code)]
           e == IF delay = "" THEN Obj(f) ELSE With(Obj(f), "retryAfterSeconds", Num(delay))
<1>1. R!EncodeError(code, delay) = Body(e)
  BY ResourceCopies DEF R!EncodeError
<1>2. f = [k \in DOMAIN f |-> f[k]] /\ DOMAIN f = {"errCode", "errMsg"}
  OBVIOUS
<1>3. f["errCode"] = Str(code) /\ f["errMsg"] = Str(code)
  OBVIOUS
<1> HIDE DEF f
<1>4. /\ IsObject(Obj(f)) /\ Keys(Obj(f)) = {"errCode", "errMsg"} /\ IsLexeme(Obj(f))
      /\ \A k \in {"errCode", "errMsg"} : Field(Obj(f), k) = f[k]
  BY <1>2, ObjIs
<1>5. Field(Obj(f), "errCode") = Str(code) /\ Field(Obj(f), "errMsg") = Str(code)
  BY <1>3, <1>4
<1>6. /\ IsLexeme(e) /\ IsObject(e)
      /\ Field(e, "errCode") = Str(code) /\ Field(e, "errMsg") = Str(code)
      /\ delay = "" => Keys(e) = {"errCode", "errMsg"}
      /\ delay # "" => /\ Keys(e) = {"errCode", "errMsg", "retryAfterSeconds"}
                       /\ Field(e, "retryAfterSeconds") = Num(delay)
  <2>1. CASE delay = ""
    BY <1>4, <1>5, <2>1
  <2>2. CASE delay # ""
    <3>1. PICK w : w = With(Obj(f), "retryAfterSeconds", Num(delay))
      OBVIOUS
    <3>2. /\ IsObject(w) /\ Keys(w) = Keys(Obj(f)) \cup {"retryAfterSeconds"} /\ IsLexeme(w)
          /\ \A k \in Keys(w) : w.fields[k] = IF k = "retryAfterSeconds" THEN Num(delay)
                                             ELSE Obj(f).fields[k]
      BY <3>1, WithIs
    <3>3. Keys(w) = {"errCode", "errMsg", "retryAfterSeconds"}
      BY <1>4, <3>2
    <3>4. Field(w, "retryAfterSeconds") = Num(delay)
      BY <3>2 DEF Field
    <3>5. /\ Field(w, "errCode") = Field(Obj(f), "errCode")
          /\ Field(w, "errMsg") = Field(Obj(f), "errMsg")
      BY <1>4, <3>2, <3>3 DEF Field
    <3>6. e = w
      BY <2>2, <3>1
    <3> HIDE DEF e
    <3> QED  BY <1>5, <2>2, <3>2, <3>3, <3>4, <3>5, <3>6
  <2> QED  BY <2>1, <2>2
<1> HIDE DEF e
<1>7. Body(e).value = e
  BY FlawedIs
<1>8. R!EncodeError(code, delay).value = e
  BY <1>1, <1>7
<1> QED  BY <1>1, <1>6, <1>8

\* A success that is taken is the encoding of what it says.
LEMMA SuccessForm ==
    ASSUME NEW v, IsJson(v), IsObject(v), NEW request,
           request.agent \in AgentIds, request.connector \in ConnectorIds
    PROVE  Field(v, "errCode") = Str("0") /\ SuccessHolds(v, request) <=>
              /\ ProperSuccess(SuccessOf(v), request)
              /\ v = R!EncodeSuccess(SuccessOf(v)).value
<1> DEFINE list == Field(v, "list")
           s == SuccessOf(v)
           e == R!EncodeSuccess(s).value
<1>1. /\ s.agent = Text(list, "agent_id") /\ s.connector = Text(list, "connector_id")
      /\ s.key = Text(list, "resource_public_key")
      /\ s.routing = Text(list, "connector_routing_id")
      /\ s.knock = Text(list, "knock_resource_id") /\ s.crid = Text(list, "crid")
      /\ s.found = (Field(list, "found_existing") = Bool("true"))
  BY DEF SuccessOf
<1>2. /\ IsLexeme(e) /\ IsObject(e) /\ Keys(e) = {"errCode", "list"}
      /\ Field(e, "errCode") = Str("0") /\ Said(Field(e, "list"), s)
  BY EncodedSuccess
<1> HIDE DEF list, s, e
<1>3. IsLexeme(v) /\ HoldsLexemes(v) /\ \A k : k \in Keys(v) => HoldsLexemes(Field(v, k))
  BY JsonHolds
<1>4. request # R!NoRequest
  <2>1. "" \notin AgentIds
    BY IdentifiersAssumption
  <2>2. R!NoRequest.agent = ""
    BY DEF R!NoRequest
  <2> QED  BY <2>1, <2>2
<1>5. ASSUME Field(v, "errCode") = Str("0"), SuccessHolds(v, request)
      PROVE  ProperSuccess(s, request) /\ v = e
  <2>1. /\ Keys(v) = {"errCode", "list"} /\ IsObject(list) /\ Keys(list) = R!ListFields
        /\ Strings(list, R!ListStrings)
        /\ Field(list, "version") = Num("1") /\ Field(list, "found_existing").type = "boolean"
        /\ Text(list, "query") = R!Query
        /\ s.agent = request.agent /\ s.connector = request.connector
        /\ s.key \in ResourceKeys /\ s.routing \in RoutingIds
        /\ s.knock \notin BadKnockIds /\ s.knock \notin {s.key, s.routing}
        /\ s.crid \in CRIDs /\ s.crid = CridOf[s.key]
        /\ request.expected # "" => s.crid = request.expected
    BY <1>1, <1>4, <1>5 DEF SuccessHolds, list
  <2>2. ProperSuccess(s, request)
    BY <2>1 DEF ProperSuccess
  <2>3. IsLexeme(list) /\ HoldsLexemes(list)
    BY <1>3, <2>1 DEF list, HoldsLexemes
  <2>4. \A k : k \in R!ListStrings => Field(list, k) = Str(Text(list, k))
    <3> SUFFICES ASSUME NEW k, k \in R!ListStrings PROVE Field(list, k) = Str(Text(list, k))
      OBVIOUS
    <3>1. Field(list, k).type = "string"
      BY <2>1 DEF Strings
    <3> QED  BY <2>3, <3>1, Spelled
  <2>5. {"query", "agent_id", "connector_id", "resource_public_key",
         "connector_routing_id", "knock_resource_id", "crid"} = R!ListStrings
    BY DEF R!ListStrings, R!ListFields
  <2>6. /\ Field(list, "query") = Str(R!Query)
        /\ Field(list, "agent_id") = Str(s.agent)
        /\ Field(list, "connector_id") = Str(s.connector)
    BY <1>1, <2>1, <2>4, <2>5
  <2>7. /\ Field(list, "resource_public_key") = Str(s.key)
        /\ Field(list, "connector_routing_id") = Str(s.routing)
    BY <1>1, <2>4, <2>5
  <2>8. Field(list, "knock_resource_id") = Str(s.knock) /\ Field(list, "crid") = Str(s.crid)
    BY <1>1, <2>4, <2>5
  <2>9. Field(list, "found_existing") = Bool(IF s.found THEN "true" ELSE "false")
    <3>1. Field(list, "found_existing") \in {Bool("true"), Bool("false")}
      BY <2>1, <2>3, Spelled
    <3>2. CASE Field(list, "found_existing") = Bool("true")
      BY <1>1, <3>2
    <3>3. CASE Field(list, "found_existing") # Bool("true")
      BY <1>1, <3>1, <3>3
    <3> QED  BY <3>2, <3>3
  <2>10. Said(list, s)
    BY <2>1, <2>3, <2>6, <2>7, <2>8, <2>9 DEF Said
  <2>11. list = Field(e, "list")
    BY <1>2, <2>10, SaidOnce
  <2>12. \A k \in Keys(e) : Field(v, k) = Field(e, k)
    BY <1>2, <1>5, <2>11 DEF list
  <2> QED  BY <1>2, <1>3, <2>1, <2>2, <2>12, SameObject
<1>6. ASSUME ProperSuccess(s, request), v = e
      PROVE  Field(v, "errCode") = Str("0") /\ SuccessHolds(v, request)
  <2>1. Field(v, "errCode") = Str("0") /\ Keys(v) = {"errCode", "list"} /\ Said(list, s)
    BY <1>2, <1>6 DEF list
  <2>2. /\ IsObject(list) /\ Keys(list) = R!ListFields
        /\ Field(list, "query") = Str(R!Query) /\ Field(list, "version") = Num("1")
        /\ Field(list, "agent_id") = Str(s.agent)
        /\ Field(list, "connector_id") = Str(s.connector)
        /\ Field(list, "resource_public_key") = Str(s.key)
        /\ Field(list, "connector_routing_id") = Str(s.routing)
        /\ Field(list, "knock_resource_id") = Str(s.knock) /\ Field(list, "crid") = Str(s.crid)
        /\ Field(list, "found_existing") = Bool(IF s.found THEN "true" ELSE "false")
    BY <2>1 DEF Said
  <2>3. /\ Field(list, "query").type = "string" /\ Text(list, "query") = R!Query
        /\ Field(list, "agent_id").type = "string"
        /\ Field(list, "connector_id").type = "string"
    BY <2>2, StrIs
  <2>4. /\ Field(list, "resource_public_key").type = "string"
        /\ Field(list, "connector_routing_id").type = "string"
        /\ Field(list, "knock_resource_id").type = "string"
        /\ Field(list, "crid").type = "string"
    BY <2>2, StrIs
  <2>5. Strings(list, R!ListStrings)
    BY <2>3, <2>4 DEF Strings, R!ListStrings, R!ListFields
  <2>6. Field(list, "found_existing").type = "boolean"
    BY <2>2 DEF Bool, Scalar
  <2>7. /\ s.agent = request.agent /\ s.connector = request.connector
        /\ s.key \in ResourceKeys /\ s.routing \in RoutingIds
        /\ s.knock \notin BadKnockIds /\ s.knock \notin {s.key, s.routing}
        /\ s.crid = CridOf[s.key] /\ request.expected \in {"", s.crid}
    BY <1>6 DEF ProperSuccess
  <2>8. s.crid \in CRIDs
    BY <2>7, IdentifiersAssumption
  <2>9. request.expected # "" => s.crid = request.expected
    BY <2>7
  <2> QED  BY <1>1, <2>1, <2>2, <2>3, <2>5, <2>6, <2>7, <2>8, <2>9 DEF SuccessHolds, list
<1> QED  BY <1>5, <1>6 DEF s, e

\* An error that is taken is the encoding of its code and its delay.
LEMMA ErrorForm ==
    ASSUME NEW v, IsJson(v), IsObject(v)
    PROVE  LET code == Text(v, "errCode")
               delay == DelayOf(v)
           IN  Field(v, "errCode").type = "string" /\ "errCode" \in Keys(v) /\ ErrorHolds(v) <=>
                  /\ code \in R!ErrorCodes
                  /\ delay # "" => code \in {"52500", "52505"} /\ delay \in {"1", "3600"}
                  /\ code = "52505" => delay # ""
                  /\ v = R!EncodeError(code, delay).value
<1> DEFINE code == Text(v, "errCode")
           delay == DelayOf(v)
           e == R!EncodeError(code, delay).value
<1>1. delay = IF "retryAfterSeconds" \in Keys(v)
              THEN Field(v, "retryAfterSeconds").text ELSE ""
  BY DEF DelayOf, Has
<1>2. /\ IsLexeme(e) /\ IsObject(e)
      /\ Field(e, "errCode") = Str(code) /\ Field(e, "errMsg") = Str(code)
      /\ delay = "" => Keys(e) = {"errCode", "errMsg"}
      /\ delay # "" => /\ Keys(e) = {"errCode", "errMsg", "retryAfterSeconds"}
                       /\ Field(e, "retryAfterSeconds") = Num(delay)
  BY EncodedError
<1>3. IsLexeme(v) /\ HoldsLexemes(v)
  BY JsonHolds
<1> HIDE DEF code, delay, e
<1>4. ASSUME Field(v, "errCode").type = "string", "errCode" \in Keys(v), ErrorHolds(v)
      PROVE  /\ code \in R!ErrorCodes
             /\ delay # "" => code \in {"52500", "52505"} /\ delay \in {"1", "3600"}
             /\ code = "52505" => delay # ""
             /\ v = e
  <2>1. /\ Keys(v) \subseteq {"errCode", "errMsg", "retryAfterSeconds"}
        /\ {"errCode", "errMsg"} \subseteq Keys(v)
        /\ Field(v, "errMsg").type = "string"
        /\ code \in R!ErrorCodes /\ Text(v, "errMsg") = code
        /\ "retryAfterSeconds" \in Keys(v) =>
              /\ Field(v, "retryAfterSeconds").type = "number"
              /\ Field(v, "retryAfterSeconds").text \in {"1", "3600"}
              /\ code \in {"52500", "52505"}
        /\ code = "52505" => "retryAfterSeconds" \in Keys(v)
    BY <1>4 DEF ErrorHolds, Has, code
  <2>2. Field(v, "errCode") = Str(code) /\ Field(v, "errMsg") = Str(code)
    BY <1>3, <1>4, <2>1, Spelled DEF code
  <2>3. CASE "retryAfterSeconds" \in Keys(v)
    <3>1. delay = Field(v, "retryAfterSeconds").text /\ delay \in {"1", "3600"} /\ delay # ""
      BY <1>1, <2>1, <2>3
    <3>2. Field(v, "retryAfterSeconds") = Num(delay)
      BY <1>3, <2>1, <2>3, <3>1, Spelled
    <3>3. Keys(v) = Keys(e)
      BY <1>2, <2>1, <2>3, <3>1
    <3>4. \A k \in Keys(e) : Field(v, k) = Field(e, k)
      BY <1>2, <2>2, <3>1, <3>2
    <3> QED  BY <1>2, <1>3, <2>1, <2>3, <3>1, <3>3, <3>4, SameObject
  <2>4. CASE "retryAfterSeconds" \notin Keys(v)
    <3>1. delay = ""
      BY <1>1, <2>4
    <3>2. Keys(v) = Keys(e)
      BY <1>2, <2>1, <2>4, <3>1
    <3>3. \A k \in Keys(e) : Field(v, k) = Field(e, k)
      BY <1>2, <2>2, <3>1
    <3> QED  BY <1>2, <1>3, <2>1, <2>4, <3>1, <3>2, <3>3, SameObject
  <2> QED  BY <2>3, <2>4
<1>5. ASSUME code \in R!ErrorCodes,
             delay # "" => code \in {"52500", "52505"} /\ delay \in {"1", "3600"},
             code = "52505" => delay # "", v = e
      PROVE  Field(v, "errCode").type = "string" /\ "errCode" \in Keys(v) /\ ErrorHolds(v)
  <2>1. Field(v, "errCode") = Str(code) /\ Field(v, "errMsg") = Str(code)
    BY <1>2, <1>5
  <2>2. /\ Field(v, "errCode").type = "string"
        /\ Field(v, "errMsg").type = "string" /\ Text(v, "errMsg") = code
    BY <2>1, StrIs
  <2>3. /\ delay = "" => Keys(v) = {"errCode", "errMsg"}
        /\ delay # "" => Keys(v) = {"errCode", "errMsg", "retryAfterSeconds"}
    BY <1>2, <1>5
  <2>4. /\ "retryAfterSeconds" \in Keys(v) <=> delay # ""
        /\ "errCode" \in Keys(v) /\ "errMsg" \in Keys(v)
        /\ Keys(v) \subseteq {"errCode", "errMsg", "retryAfterSeconds"}
    BY <2>3
  <2>5. "retryAfterSeconds" \in Keys(v) =>
           /\ Field(v, "retryAfterSeconds").type = "number"
           /\ Field(v, "retryAfterSeconds").text \in {"1", "3600"}
    <3>1. "retryAfterSeconds" \in Keys(v) => Field(v, "retryAfterSeconds") = Num(delay)
      BY <1>2, <1>5, <2>4
    <3>2. Num(delay).type = "number" /\ Num(delay).text = delay
      BY DEF Num, Scalar
    <3> QED  BY <1>5, <2>4, <3>1, <3>2
  <2> QED  BY <1>5, <2>2, <2>4, <2>5 DEF ErrorHolds, Has, code
<1> QED  BY <1>4, <1>5 DEF code, delay, e

\* An agent takes exactly the encodings of what a Hub may answer.
LEMMA ResultForm == Jsons /\ FlawKnown /\ ResultAsked => ResultsAreEncodings
<1> DEFINE v == body.value
           code == Text(v, "errCode")
           delay == DelayOf(v)
           success == /\ ProperSuccess(SuccessOf(v), about)
                      /\ body = R!EncodeSuccess(SuccessOf(v))
           error == /\ code \in R!ErrorCodes
                    /\ delay # "" => code \in {"52500", "52505"} /\ delay \in {"1", "3600"}
                    /\ code = "52505" => delay # ""
                    /\ body = R!EncodeError(code, delay)
<1>1. SUFFICES ASSUME Jsons, FlawKnown, ResultAsked, gate = "resource_result"
               PROVE  Accepted <=> success \/ error
  BY DEF ResultsAreEncodings, R!ErrorCodes
<1>2. Accepted <=> R!ParseResult(body, about) = Pass
  BY <1>1 DEF Accepted, Class
<1>3. body = Flawed(body.flaw, v) /\ IsJson(v) /\ body.flaw \in {"none"} \cup Flaws
  BY <1>1 DEF Jsons, FlawKnown, BodyGateNames, FlawsAt
<1>4. about.agent \in AgentIds /\ about.connector \in ConnectorIds
  BY <1>1 DEF ResultAsked
<1>5. "none" \notin Flaws
  BY DEF Flaws
<1>6. body.flaw \notin Flaws <=> body = Body(v)
  BY <1>3, <1>5, FlawedIs
<1>7. /\ R!EncodeSuccess(SuccessOf(v)) = Body(R!EncodeSuccess(SuccessOf(v)).value)
      /\ IsObject(R!EncodeSuccess(SuccessOf(v)).value)
  BY EncodedSuccess
<1>8. /\ R!EncodeError(code, delay) = Body(R!EncodeError(code, delay).value)
      /\ IsObject(R!EncodeError(code, delay).value)
  BY EncodedError
<1>9. /\ body = R!EncodeSuccess(SuccessOf(v)) <=>
            body = Body(v) /\ v = R!EncodeSuccess(SuccessOf(v)).value
      /\ body = R!EncodeError(code, delay) <=>
            body = Body(v) /\ v = R!EncodeError(code, delay).value
  BY <1>7, <1>8
<1>10. "0" \notin R!ErrorCodes
  BY DEF R!ErrorCodes
<1>11. CASE body = Body(v) /\ IsObject(v)
  <2>1. Field(v, "errCode") = Str("0") /\ SuccessHolds(v, about) <=> success
    BY <1>3, <1>4, <1>9, <1>11, SuccessForm
  <2>2. Field(v, "errCode").type = "string" /\ "errCode" \in Keys(v) /\ ErrorHolds(v) <=> error
    BY <1>3, <1>9, <1>11, ErrorForm
  <2> HIDE DEF success, error
  <2>3. Field(v, "errCode") = Str("0") <=> Field(v, "errCode").type = "string" /\ code = "0"
    <3>1. Field(v, "errCode").type = "string" => Field(v, "errCode") = Str(code)
      BY <1>3, JsonHolds, Spelled
    <3>2. Field(v, "errCode") = Str("0") => Field(v, "errCode").type = "string" /\ code = "0"
      BY StrIs
    <3> QED  BY <3>1, <3>2
  <2>4. SuccessHolds(v, about) => "errCode" \in Keys(v)
    BY DEF SuccessHolds
  <2>5. ErrorHolds(v) => code # "0"
    BY <1>10 DEF ErrorHolds
  <2>6. Accepted <=>
              /\ Field(v, "errCode").type = "string" /\ "errCode" \in Keys(v)
              /\ \/ code = "0" /\ SuccessHolds(v, about)
                 \/ code # "0" /\ ErrorHolds(v)
    BY <1>2, <1>6, <1>11, ResultPass
  <2> QED  BY <2>1, <2>2, <2>3, <2>4, <2>5, <2>6
<1>12. CASE ~(body = Body(v) /\ IsObject(v))
  <2>1. ~Accepted
    BY <1>2, <1>6, <1>12, ResultPass
  <2>2. ~success /\ ~error
    BY <1>7, <1>8, <1>9, <1>12
  <2> QED  BY <2>1, <2>2
<1> QED  BY <1>11, <1>12

----------------------------------------------------------------------------
\* Assignment requests.
IsSpelled(v, key) == Field(v, key).type \in {"string", "null"}
Spellable(v, keys) == \A key \in keys : IsSpelled(v, key)
Filled(v, keys) == \A key \in keys : Text(v, key) # ""

\* An object of exactly these keys.
LEMMA ExactPass ==
    ASSUME NEW v, NEW keys
    PROVE  A!Exact(v, keys) = Pass <=> IsObject(v) /\ Keys(v) = keys
<1>1. A!Exact(v, keys) = FirstOf(<<Unless(IsObject(v), "wrong_type"),
                                  ExactKeys(v, keys, keys)>>)
  BY AssignmentCopies DEF A!Exact
<1>2. Unless(IsObject(v), "wrong_type") = Pass <=> IsObject(v)
  BY DEF Unless, Pass
<1>3. ExactKeys(v, keys, keys) = Pass <=> Keys(v) = keys
  BY ExactKeysPass
<1> QED  BY <1>1, <1>2, <1>3, Passes2

\* Fields that decode into texts are texts or null.
LEMMA DecodesPass ==
    ASSUME NEW v, NEW strings, NEW integers, A!Decodes(v, strings, integers) = Pass
    PROVE  Spellable(v, strings)
BY AssignmentCopies DEF A!Decodes, Spellable, IsSpelled, Unless, Pass

\* What is asked of the structure of a request.
KeysHold(phase, b) ==
    LET v == b.value
        data == Field(v, "usrData")
    IN  /\ b.flaw = "none" /\ IsObject(v) /\ Keys(v) = A!OuterKeys[phase]
        /\ IsObject(data) /\ Keys(data) = A!DataKeys[phase]
        /\ phase \in A!AssignmentPhases => Field(data, "request_nonce").type = "string"

\* The keys of a request are those of its phase.
LEMMA RequestKeysPass ==
    ASSUME NEW phase, NEW b
    PROVE  A!RequestKeys(phase, b) = Pass <=> KeysHold(phase, b)
<1> DEFINE v == b.value
           data == Field(v, "usrData")
           nonce == phase \in A!AssignmentPhases =>
              Field(data, "request_nonce").type = "string"
<1>1. A!RequestKeys(phase, b) = FirstOf(<<A!WholeBody(b), A!Exact(v, A!OuterKeys[phase]),
                  A!Exact(data, A!DataKeys[phase]), Unless(nonce, "wrong_type")>>)
  BY AssignmentCopies DEF A!RequestKeys
<1>2. A!WholeBody(b) = Pass <=> b.flaw = "none"
  BY AssignmentCopies DEF A!WholeBody, Unless, Pass
<1>3. Unless(nonce, "wrong_type") = Pass <=> nonce
  BY DEF Unless, Pass
<1> HIDE DEF nonce
<1>4. A!RequestKeys(phase, b) = Pass <=>
         /\ A!WholeBody(b) = Pass /\ A!Exact(v, A!OuterKeys[phase]) = Pass
         /\ A!Exact(data, A!DataKeys[phase]) = Pass /\ nonce
  BY <1>1, <1>3, Passes4
<1> QED  BY <1>2, <1>4, ExactPass DEF KeysHold, nonce

\* What a request of a phase is made of once it is taken.
PhaseHolds(phase, v) ==
    LET data == Field(v, "usrData")
    IN  /\ Spellable(v, A!OuterKeys[phase] \ {"usrData"})
        /\ Spellable(data, A!DataStrings(phase))
        /\ Filled(v, A!OuterKeys[phase] \ {"usrData", "usrId"})
        /\ Filled(data, A!DataStrings(phase) \ {"request_nonce"})
        /\ phase # "assigned_cell_registration" => Field(data, "version") = Num("1")
        /\ Text(v, "aspId") = "agent"
        /\ Text(v, "usrId") = "" <=> phase \in A!ListPhases
        /\ phase # "assigned_cell_otp" => Text(v, "devId") = AgentId
        /\ phase \in A!AssignmentPhases => Text(data, "request_nonce") \in Nonces

\* What an accepted request of a list phase is known to be,
LEMMA ListRequestPass ==
    ASSUME NEW b, NEW phase \in A!ListPhases, A!ClassifyListRequest(phase, b) = Pass
    PROVE  KeysHold(phase, b) /\ PhaseHolds(phase, b.value)
<1> DEFINE v == b.value
           data == Field(v, "usrData")
           addressed == Text(v, "usrId") = "" /\ A!Addressed(v)
<1>1. A!ClassifyListRequest(phase, b) = FirstOf(<<A!RequestKeys(phase, b),
                  A!Decodes(v, A!Common \ {"usrData"}, {}),
                  Unless(addressed, "semantic"),
                  A!Decodes(data, A!DataStrings(phase), A!DataIntegers(phase)),
                  Unless(A!DataSemantics(phase, data), "semantic")>>)
  BY AssignmentCopies DEF A!ClassifyListRequest
<1>2. /\ Unless(addressed, "semantic") = Pass <=> addressed
      /\ Unless(A!DataSemantics(phase, data), "semantic") = Pass
            <=> A!DataSemantics(phase, data)
  BY DEF Unless, Pass
<1> HIDE DEF addressed
<1>3. /\ A!RequestKeys(phase, b) = Pass
      /\ A!Decodes(v, A!Common \ {"usrData"}, {}) = Pass /\ addressed
      /\ A!Decodes(data, A!DataStrings(phase), A!DataIntegers(phase)) = Pass
      /\ A!DataSemantics(phase, data)
  BY <1>1, <1>2, Passes5
<1>4. KeysHold(phase, b)
  BY <1>3, RequestKeysPass
<1>5. A!OuterKeys[phase] = A!Common /\ A!Common = {"usrId", "devId", "aspId", "usrData"}
  BY DEF A!OuterKeys, A!ListPhases, A!Phases, A!Common
<1>6. Spellable(v, A!OuterKeys[phase] \ {"usrData"}) /\ Spellable(data, A!DataStrings(phase))
  BY <1>3, <1>5, DecodesPass
<1>7. Text(v, "usrId") = "" /\ Text(v, "devId") = AgentId /\ Text(v, "aspId") = "agent"
  BY <1>3, AssignmentCopies DEF addressed, A!Addressed
<1>8. Filled(v, A!OuterKeys[phase] \ {"usrData", "usrId"})
  BY <1>5, <1>7, IdentifiersAssumption DEF Filled
<1>9. phase \in {"initial_assignment", "refresh_assignment", "registration_completion"}
  BY DEF A!ListPhases, A!Phases
<1>10. /\ Filled(data, A!DataStrings(phase) \ {"request_nonce"})
       /\ Field(data, "version") = Num("1")
       /\ phase \in A!AssignmentPhases => Text(data, "request_nonce") \in Nonces
  <2>1. CASE phase = "initial_assignment"
    <3>1. /\ Text(data, "query") = "cell_assignment" /\ Field(data, "version") = Num("1")
          /\ Text(data, "mode") = "enroll" /\ Text(data, "credential") # ""
          /\ Text(data, "request_nonce") \in Nonces
      BY <1>3, <2>1, AssignmentCopies DEF A!DataSemantics, A!IsOne, A!NonEmpty
    <3>2. A!DataStrings(phase) \ {"request_nonce"} = {"query", "mode", "credential"}
      BY <2>1 DEF A!DataStrings, A!DataIntegers, A!DataKeys
    <3> QED  BY <3>1, <3>2 DEF Filled
  <2>2. CASE phase = "refresh_assignment"
    <3>1. /\ Text(data, "query") = "cell_assignment" /\ Field(data, "version") = Num("1")
          /\ Text(data, "mode") = "refresh" /\ Text(data, "request_nonce") \in Nonces
      BY <1>3, <2>2, AssignmentCopies DEF A!DataSemantics, A!IsOne
    <3>2. A!DataStrings(phase) \ {"request_nonce"} = {"query", "mode"}
      BY <2>2 DEF A!DataStrings, A!DataIntegers, A!DataKeys
    <3> QED  BY <3>1, <3>2 DEF Filled
  <2>3. CASE phase = "registration_completion"
    <3>1. /\ Text(data, "query") = "agent_registration_completion"
          /\ Field(data, "version") = Num("1") /\ Text(data, "device_api_key") # ""
      BY <1>3, <2>3, AssignmentCopies DEF A!DataSemantics, A!IsOne, A!NonEmpty
    <3>2. A!DataStrings(phase) \ {"request_nonce"} = {"query", "device_api_key"}
      BY <2>3 DEF A!DataStrings, A!DataIntegers, A!DataKeys
    <3>3. phase \notin A!AssignmentPhases
      BY <2>3 DEF A!AssignmentPhases
    <3> QED  BY <3>1, <3>2, <3>3 DEF Filled
  <2> QED  BY <1>9, <2>1, <2>2, <2>3
<1> QED  BY <1>4, <1>6, <1>7, <1>8, <1>9, <1>10 DEF PhaseHolds

\* one of the registration,
LEMMA RegistrationPass ==
    ASSUME NEW b, A!ClassifyRegistration(b) = Pass
    PROVE  /\ KeysHold("assigned_cell_registration", b)
           /\ PhaseHolds("assigned_cell_registration", b.value)
<1> DEFINE phase == "assigned_cell_registration"
           v == b.value
           data == Field(v, "usrData")
           filled == /\ A!NonEmpty(v, "usrId") /\ A!Addressed(v) /\ A!NonEmpty(v, "otp")
                     /\ \A k \in A!DataStrings(phase) : A!NonEmpty(data, k)
<1>1. A!ClassifyRegistration(b) = FirstOf(<<A!RequestKeys(phase, b),
                  A!Decodes(v, A!OuterKeys[phase] \ {"usrData"}, {}),
                  A!Decodes(data, A!DataStrings(phase), {}),
                  Unless(filled, "semantic")>>)
  BY AssignmentCopies DEF A!ClassifyRegistration
<1>2. Unless(filled, "semantic") = Pass <=> filled
  BY DEF Unless, Pass
<1> HIDE DEF filled
<1>3. /\ A!RequestKeys(phase, b) = Pass
      /\ A!Decodes(v, A!OuterKeys[phase] \ {"usrData"}, {}) = Pass
      /\ A!Decodes(data, A!DataStrings(phase), {}) = Pass /\ filled
  BY <1>1, <1>2, Passes4
<1>4. KeysHold(phase, b)
  BY <1>3, RequestKeysPass
<1>5. Spellable(v, A!OuterKeys[phase] \ {"usrData"}) /\ Spellable(data, A!DataStrings(phase))
  BY <1>3, DecodesPass
<1>6. /\ Text(v, "usrId") # "" /\ Text(v, "devId") = AgentId /\ Text(v, "aspId") = "agent"
      /\ Text(v, "otp") # "" /\ \A k \in A!DataStrings(phase) : Text(data, k) # ""
  BY <1>3, AssignmentCopies DEF filled, A!Addressed, A!NonEmpty
<1>7. A!OuterKeys[phase] = {"usrId", "devId", "aspId", "usrData", "otp"}
  BY DEF A!OuterKeys, A!Phases, A!Common
<1>8. Filled(v, A!OuterKeys[phase] \ {"usrData", "usrId"})
  BY <1>6, <1>7, IdentifiersAssumption DEF Filled
<1>9. Filled(data, A!DataStrings(phase) \ {"request_nonce"})
  BY <1>6 DEF Filled
<1>10. phase \notin A!ListPhases /\ phase \notin A!AssignmentPhases
  BY DEF A!ListPhases, A!AssignmentPhases
<1> QED  BY <1>4, <1>5, <1>6, <1>8, <1>9, <1>10 DEF PhaseHolds

\* one of the one-time password,
LEMMA OtpPass ==
    ASSUME NEW b, A!ClassifyOTP(b) = Pass
    PROVE  KeysHold("assigned_cell_otp", b) /\ PhaseHolds("assigned_cell_otp", b.value)
<1> DEFINE phase == "assigned_cell_otp"
           v == b.value
           data == Field(v, "usrData")
           filled == /\ A!NonEmpty(v, "usrId") /\ A!NonEmpty(v, "devId")
                     /\ Text(v, "aspId") = "agent" /\ A!NonEmpty(v, "pass")
                     /\ Text(data, "query") = "agent_registration_otp"
                     /\ A!IsOne(data) /\ A!NonEmpty(data, "assignment_ticket")
<1>1. A!ClassifyOTP(b) = FirstOf(<<A!RequestKeys(phase, b),
                  A!Decodes(v, A!OuterKeys[phase] \ {"usrData"}, {}),
                  A!Decodes(data, {"query", "assignment_ticket"}, {"version"}),
                  Unless(filled, "semantic")>>)
  BY AssignmentCopies DEF A!ClassifyOTP
<1>2. Unless(filled, "semantic") = Pass <=> filled
  BY DEF Unless, Pass
<1> HIDE DEF filled
<1>3. /\ A!RequestKeys(phase, b) = Pass
      /\ A!Decodes(v, A!OuterKeys[phase] \ {"usrData"}, {}) = Pass
      /\ A!Decodes(data, {"query", "assignment_ticket"}, {"version"}) = Pass /\ filled
  BY <1>1, <1>2, Passes4
<1>4. KeysHold(phase, b)
  BY <1>3, RequestKeysPass
<1>5. A!DataStrings(phase) = {"query", "assignment_ticket"}
  BY DEF A!DataStrings, A!DataIntegers, A!DataKeys
<1>6. Spellable(v, A!OuterKeys[phase] \ {"usrData"}) /\ Spellable(data, A!DataStrings(phase))
  BY <1>3, <1>5, DecodesPass
<1>7. /\ Text(v, "usrId") # "" /\ Text(v, "devId") # "" /\ Text(v, "aspId") = "agent"
      /\ Text(v, "pass") # "" /\ Text(data, "query") = "agent_registration_otp"
      /\ Field(data, "version") = Num("1") /\ Text(data, "assignment_ticket") # ""
  BY <1>3, AssignmentCopies DEF filled, A!NonEmpty, A!IsOne
<1>8. A!OuterKeys[phase] = {"usrId", "devId", "aspId", "usrData", "pass"}
  BY DEF A!OuterKeys, A!Phases, A!Common
<1>9. Filled(v, A!OuterKeys[phase] \ {"usrData", "usrId"})
  BY <1>7, <1>8 DEF Filled
<1>10. Filled(data, A!DataStrings(phase) \ {"request_nonce"})
  BY <1>5, <1>7 DEF Filled
<1>11. phase \notin A!ListPhases /\ phase \notin A!AssignmentPhases
  BY DEF A!ListPhases, A!AssignmentPhases
<1> QED  BY <1>4, <1>6, <1>7, <1>9, <1>10, <1>11 DEF PhaseHolds

\* and so one of any phase.
LEMMA AssignmentPass ==
    ASSUME NEW phase \in A!Phases, NEW header, NEW b,
           A!ClassifyRequest(phase, header, b) = Pass
    PROVE  KeysHold(phase, b) /\ PhaseHolds(phase, b.value)
<1>1. CASE phase = "assigned_cell_otp"
  <2>1. A!ClassifyRequest(phase, header, b)
           = FirstOf(<<Unless(header = A!RequestHeader[phase], "wrong_phase"), A!ClassifyOTP(b)>>)
    BY <1>1, AssignmentCopies DEF A!ClassifyRequest
  <2>2. A!ClassifyOTP(b) = Pass
    BY <2>1, Passes2
  <2> QED  BY <1>1, <2>2, OtpPass
<1>2. CASE phase = "assigned_cell_registration"
  <2>1. A!ClassifyRequest(phase, header, b)
           = FirstOf(<<Unless(header = A!RequestHeader[phase], "semantic"),
                       A!ClassifyRegistration(b)>>)
    BY <1>2, AssignmentCopies DEF A!ClassifyRequest
  <2>2. A!ClassifyRegistration(b) = Pass
    BY <2>1, Passes2
  <2> QED  BY <1>2, <2>2, RegistrationPass
<1>3. CASE phase \in A!ListPhases
  <2>1. phase # "assigned_cell_otp" /\ phase # "assigned_cell_registration"
    BY <1>3 DEF A!ListPhases
  <2>2. A!ClassifyRequest(phase, header, b)
           = FirstOf(<<Unless(header = A!RequestHeader[phase], "semantic"),
                       A!ClassifyListRequest(phase, b)>>)
    BY <2>1, AssignmentCopies DEF A!ClassifyRequest
  <2>3. A!ClassifyListRequest(phase, b) = Pass
    BY <2>2, Passes2
  <2> QED  BY <1>3, <2>3, ListRequestPass
<1> QED  BY <1>1, <1>2, <1>3 DEF A!ListPhases

\* A text that is not empty is spelled as one.
LEMMA FilledIs ==
    ASSUME NEW v, HoldsLexemes(v), NEW key, IsSpelled(v, key)
    PROVE  /\ Text(v, key) # "" => Field(v, key) = Str(Text(v, key))
           /\ Field(v, key).type = "string" => Field(v, key) = Str(Text(v, key))
           /\ Field(v, key) \in {Str(Text(v, key)), Null}
BY Spelled DEF IsSpelled

\* The client that asks for an assignment is in a phase.
PhaseAsked == gate = "assignment_request" => about \in A!Phases

\* The phases are known at first,
LEMMA InitPhase == GatesInit => PhaseAsked
<1> SUFFICES ASSUME GatesInit, gate = "assignment_request" PROVE about \in A!Phases
  BY DEF PhaseAsked
<1>1. gate \notin ValueGateNames
  BY DEF ValueGateNames, TextGates, RecordGates
<1> QED  BY <1>1, IdentifiersAssumption DEF GatesInit, BodyInit, ValueInit

\* and they stay.
LEMMA PhaseKept == PhaseAsked /\ [GatesNext]_gateVars => PhaseAsked'
BY GateKept DEF PhaseAsked

\* The encoding of what a body says, key by key.
LEMMA EncodedAssignment ==
    ASSUME NEW phase, NEW v, "usrData" \in A!OuterKeys[phase]
    PROVE  LET e == AssignmentEncoding(phase, v)
               d == Field(e, "usrData")
               data == Field(v, "usrData")
           IN  /\ IsLexeme(e) /\ IsObject(e) /\ Keys(e) = A!OuterKeys[phase]
               /\ \A k \in A!OuterKeys[phase] : k # "usrData" => Field(e, k) = Str(Text(v, k))
               /\ IsLexeme(d) /\ IsObject(d) /\ Keys(d) = A!DataKeys[phase]
               /\ \A k \in A!DataKeys[phase] :
                     Field(d, k) = IF k = "version" /\ phase # "assigned_cell_registration"
                                   THEN Num("1") ELSE Str(Text(data, k))
<1> DEFINE data == Field(v, "usrData")
           g == [k \in A!DataKeys[phase] |->
                    IF k = "version" /\ phase # "assigned_cell_registration"
                    THEN Num("1") ELSE Str(Text(data, k))]
           f == [k \in A!OuterKeys[phase] |->
                    IF k = "usrData" THEN Obj(g) ELSE Str(Text(v, k))]
<1>1. AssignmentEncoding(phase, v) = Obj(f)
  BY DEF AssignmentEncoding
<1>2. /\ g = [k \in DOMAIN g |-> g[k]] /\ DOMAIN g = A!DataKeys[phase]
      /\ \A k \in A!DataKeys[phase] :
            g[k] = IF k = "version" /\ phase # "assigned_cell_registration"
                   THEN Num("1") ELSE Str(Text(data, k))
  OBVIOUS
<1> HIDE DEF g
<1>3. /\ f = [k \in DOMAIN f |-> f[k]] /\ DOMAIN f = A!OuterKeys[phase]
      /\ f["usrData"] = Obj(g)
      /\ \A k \in A!OuterKeys[phase] : k # "usrData" => f[k] = Str(Text(v, k))
  OBVIOUS
<1> HIDE DEF f
<1>4. /\ IsObject(Obj(g)) /\ Keys(Obj(g)) = A!DataKeys[phase] /\ IsLexeme(Obj(g))
      /\ \A k \in A!DataKeys[phase] : Field(Obj(g), k) = g[k]
  BY <1>2, ObjIs
<1>5. /\ IsObject(Obj(f)) /\ Keys(Obj(f)) = A!OuterKeys[phase] /\ IsLexeme(Obj(f))
      /\ \A k \in A!OuterKeys[phase] : Field(Obj(f), k) = f[k]
  BY <1>3, ObjIs
<1>6. Field(Obj(f), "usrData") = Obj(g)
  BY <1>3, <1>5
<1>7. \A k \in A!OuterKeys[phase] : k # "usrData" => Field(Obj(f), k) = Str(Text(v, k))
  BY <1>3, <1>5
<1>8. \A k \in A!DataKeys[phase] :
         Field(Obj(g), k) = IF k = "version" /\ phase # "assigned_cell_registration"
                            THEN Num("1") ELSE Str(Text(data, k))
  BY <1>2, <1>4
<1> QED  BY <1>1, <1>4, <1>5, <1>6, <1>7, <1>8

\* What is accepted in a phase is the encoding of a request of that phase.
LEMMA AssignmentForm == Jsons /\ PhaseAsked => AssignmentsAreEncodings
<1> DEFINE phase == about
           v == body.value
           data == Field(v, "usrData")
           e == AssignmentEncoding(phase, v)
           d == Field(e, "usrData")
<1>1. SUFFICES ASSUME Jsons, PhaseAsked, gate = "assignment_request", Accepted
               PROVE  /\ body.flaw = "none" /\ ProperAssignment(phase, v)
                      /\ v \in {e, With(e, "usrId", Null)}
  BY DEF AssignmentsAreEncodings
<1>2. phase \in A!Phases
  BY <1>1 DEF PhaseAsked
<1>3. A!ClassifyRequest(phase, A!RequestHeader[phase], body) = Pass
  BY <1>1 DEF Accepted, Class
<1>4. KeysHold(phase, body) /\ PhaseHolds(phase, v)
  BY <1>2, <1>3, AssignmentPass
<1>5. IsJson(v)
  BY <1>1 DEF Jsons, BodyGateNames
<1>6. IsLexeme(v) /\ HoldsLexemes(v) /\ \A k : k \in Keys(v) => HoldsLexemes(Field(v, k))
  BY <1>5, JsonHolds
<1>7. /\ body.flaw = "none" /\ IsObject(v) /\ Keys(v) = A!OuterKeys[phase]
      /\ IsObject(data) /\ Keys(data) = A!DataKeys[phase]
      /\ phase \in A!AssignmentPhases => Field(data, "request_nonce").type = "string"
  BY <1>4 DEF KeysHold
<1>8. /\ Spellable(v, A!OuterKeys[phase] \ {"usrData"})
      /\ Spellable(data, A!DataStrings(phase))
      /\ Filled(v, A!OuterKeys[phase] \ {"usrData", "usrId"})
      /\ Filled(data, A!DataStrings(phase) \ {"request_nonce"})
      /\ phase # "assigned_cell_registration" => Field(data, "version") = Num("1")
      /\ Text(v, "aspId") = "agent"
      /\ Text(v, "usrId") = "" <=> phase \in A!ListPhases
      /\ phase # "assigned_cell_otp" => Text(v, "devId") = AgentId
      /\ phase \in A!AssignmentPhases => Text(data, "request_nonce") \in Nonces
  BY <1>4 DEF PhaseHolds
<1>9. A!Common \subseteq A!OuterKeys[phase] /\ "usrData" \in A!Common /\ "usrId" \in A!Common
  BY <1>2 DEF A!OuterKeys, A!Common
<1>10. /\ IsLexeme(e) /\ IsObject(e) /\ Keys(e) = A!OuterKeys[phase]
       /\ \A k \in A!OuterKeys[phase] : k # "usrData" => Field(e, k) = Str(Text(v, k))
       /\ IsLexeme(d) /\ IsObject(d) /\ Keys(d) = A!DataKeys[phase]
       /\ \A k \in A!DataKeys[phase] :
             Field(d, k) = IF k = "version" /\ phase # "assigned_cell_registration"
                           THEN Num("1") ELSE Str(Text(data, k))
  BY <1>9, EncodedAssignment
<1> HIDE DEF phase, v, data, e, d
<1>11. "request_nonce" \in A!DataKeys[phase] => phase \in A!AssignmentPhases
  BY <1>2 DEF A!DataKeys, A!AssignmentPhases, A!Phases
<1>12. A!DataStrings(phase) = IF phase = "assigned_cell_registration" THEN A!DataKeys[phase]
                             ELSE A!DataKeys[phase] \ {"version"}
  BY DEF A!DataStrings, A!DataIntegers
<1>13. HoldsLexemes(data) /\ IsLexeme(data)
  BY <1>6, <1>7, <1>9 DEF data, HoldsLexemes
<1>14. \A k \in A!DataKeys[phase] : Field(data, k) = Field(d, k)
  <2> SUFFICES ASSUME NEW k \in A!DataKeys[phase] PROVE Field(data, k) = Field(d, k)
    OBVIOUS
  <2>1. CASE k = "version" /\ phase # "assigned_cell_registration"
    BY <1>8, <1>10, <2>1
  <2>2. CASE ~(k = "version" /\ phase # "assigned_cell_registration")
    <3>1. k \in A!DataStrings(phase)
      BY <1>12, <2>2
    <3>2. IsSpelled(data, k)
      BY <1>8, <3>1 DEF Spellable
    <3>3. k = "request_nonce" \/ Text(data, k) # ""
      BY <1>8, <3>1 DEF Filled
    <3>4. Field(data, k) = Str(Text(data, k))
      <4>1. Text(data, k) # "" => Field(data, k) = Str(Text(data, k))
        BY ONLY <1>13, <3>2, FilledIs
      <4>2. Field(data, k).type = "string" => Field(data, k) = Str(Text(data, k))
        BY ONLY <1>13, <3>2, FilledIs
      <4> QED  BY <1>7, <1>11, <3>3, <4>1, <4>2
    <3>5. Field(d, k) = Str(Text(data, k))
      BY <1>10, <2>2
    <3> QED  BY <3>4, <3>5
  <2> QED  BY <2>1, <2>2
<1>15. data = d
  BY <1>7, <1>10, <1>13, <1>14, SameObject
<1>16. \A k \in A!OuterKeys[phase] : k # "usrId" => Field(v, k) = Field(e, k)
  <2> SUFFICES ASSUME NEW k \in A!OuterKeys[phase], k # "usrId" PROVE Field(v, k) = Field(e, k)
    OBVIOUS
  <2>1. CASE k = "usrData"
    BY <1>15, <2>1 DEF data, d
  <2>2. CASE k # "usrData"
    <3>1. IsSpelled(v, k) /\ Text(v, k) # ""
      BY <1>8, <2>2 DEF Spellable, Filled
    <3>2. Field(v, k) = Str(Text(v, k))
      BY ONLY <1>6, <3>1, FilledIs
    <3> QED  BY <1>10, <2>2, <3>2
  <2> QED  BY <2>1, <2>2
<1>17. Field(v, "usrId") \in {Field(e, "usrId"), Null}
  <2>1. IsSpelled(v, "usrId")
    <3>1. "usrId" \in A!OuterKeys[phase] \ {"usrData"}
      BY <1>9
    <3> QED  BY <1>8, <3>1 DEF Spellable
  <2>2. Field(v, "usrId") \in {Str(Text(v, "usrId")), Null}
    BY ONLY <1>6, <2>1, FilledIs
  <2>3. Field(e, "usrId") = Str(Text(v, "usrId"))
    BY <1>9, <1>10
  <2> QED  BY <2>2, <2>3
<1>18. v \in {e, With(e, "usrId", Null)}
  <2>1. CASE Field(v, "usrId") = Field(e, "usrId")
    <3>1. \A k \in Keys(e) : Field(v, k) = Field(e, k)
      BY <1>10, <1>16, <2>1
    <3>2. Keys(v) = Keys(e)
      BY <1>7, <1>10
    <3>3. v = e
      BY <1>6, <1>7, <1>10, <3>1, <3>2, SameObject
    <3> QED  BY <3>3
  <2>2. CASE Field(v, "usrId") = Null
    <3>1. PICK w : w = With(e, "usrId", Null)
      OBVIOUS
    <3>2. /\ IsObject(w) /\ Keys(w) = Keys(e) \cup {"usrId"} /\ IsLexeme(w)
          /\ \A k \in Keys(w) : w.fields[k] = IF k = "usrId" THEN Null ELSE e.fields[k]
      BY <3>1, WithIs
    <3>3. Keys(w) = Keys(v)
      BY <1>7, <1>9, <1>10, <3>2
    <3>4. Field(w, "usrId") = Null
      BY <3>2 DEF Field
    <3>5. \A k \in Keys(w) : k # "usrId" => Field(w, k) = Field(e, k)
      BY <1>7, <1>10, <3>2, <3>3 DEF Field
    <3>6. \A k \in Keys(w) : Field(v, k) = Field(w, k)
      BY <1>7, <1>16, <2>2, <3>3, <3>4, <3>5
    <3>7. v = w
      BY <1>6, <1>7, <3>2, <3>3, <3>6, SameObject
    <3> QED  BY <3>1, <3>7
  <2> QED  BY <1>17, <2>1, <2>2
<1>19. ProperAssignment(phase, v)
  <2>1. \A k \in {"devId", "pass", "otp"} \cap Keys(v) : Text(v, k) # ""
    BY <1>7, <1>8 DEF Filled
  <2>2. \A k \in {"credential", "assignment_ticket", "device_api_key"} \cap Keys(data) :
           Text(data, k) # ""
    BY <1>7, <1>8, <1>12 DEF Filled
  <2> QED  BY <1>8, <2>1, <2>2 DEF ProperAssignment, data
<1> QED  BY <1>7, <1>18, <1>19 DEF phase, v, e

----------------------------------------------------------------------------
\* The inductive invariant of the body gates: bodies are made of lexemes, their bytes
\* are damaged as they may be, and requests and phases are known ones.
WireIInv == Jsons /\ FlawKnown /\ ResultAsked /\ PhaseAsked

(***************************************************************************)
(* One wire form per meaning: a resource request or result is accepted     *)
(* exactly when it is the encoding of what may be asked or answered, and   *)
(* an assignment request only when it is the encoding of a request of its  *)
(* phase, for every set of identifiers and however many edits away from a  *)
(* legitimate body (connector_resource_lst_v1.go:849, 908;                 *)
(* schema.go:1927).                                                        *)
(***************************************************************************)
THEOREM OneForm == GatesSpec => []OneWireForm
<1>1. GatesInit => WireIInv
  BY InitJsons, InitFlaw, InitResult, InitPhase DEF WireIInv
<1>2. WireIInv /\ [GatesNext]_gateVars => WireIInv'
  BY JsonsKept, FlawKept, ResultKept, PhaseKept DEF WireIInv
<1>3. WireIInv => OneWireForm
  BY RequestForm, ResultForm, AssignmentForm DEF WireIInv, OneWireForm
<1> QED  BY <1>1, <1>2, <1>3, PTL DEF GatesSpec
----------------------------------------------------------------------------
(***************************************************************************)
(* The class that is reported.                                             *)
(***************************************************************************)

\* Each check of an upload finds one defect.
LEMMA UploadDefect ==
    ASSUME Request, gate = "upload"
    PROVE  /\ UploadDefects \subseteq Chars(Precedence)
           /\ "method_path" \in UploadDefects
                 <=> ~(body.method = Method[about] /\ body.path = Path)
           /\ "forbidden_header" \in UploadDefects <=> ~(~body.forbidden)
           /\ "authority" \in UploadDefects <=> ~(body.authority \in Authorities)
           /\ "nonce" \in UploadDefects <=> ~(body.nonce \in UploadNonces)
           /\ "audience_key_id" \in UploadDefects
                 <=> ~(about = "upload" => body.audience \in Audiences)
           /\ "signature_encoding" \in UploadDefects <=> ~(body.signature.canonical)
           /\ "signature_scalar" \in UploadDefects <=> ~(InRange(body.signature))
           /\ "signature_malleability" \in UploadDefects <=> ~(body.signature.s <= Half)
           /\ "signature_mismatch" \in UploadDefects
                 <=> ~(Verifies(body.signature, CanonicalBytes(about, body)))
           /\ "body_digest" \in UploadDefects <=> ~(Digest[body.body] = body.digest)
<1>1. UploadDefects \subseteq Chars(Precedence)
  BY DEF UploadDefects
<1>2. \A class : class \in Chars(Precedence)
         <=> class \in {"method_path", "forbidden_header", "authority", "nonce",
                         "audience_key_id", "signature_encoding", "signature_scalar",
                         "signature_malleability", "signature_mismatch", "body_digest"}
  BY DEF Chars, Precedence
<1>3. body.signature.s \in Int
  BY DEF Request, FieldFits
<1>4. "method_path" \in UploadDefects <=> body.method # Method[about] \/ body.path # Path
  BY <1>2 DEF UploadDefects
<1>5. "forbidden_header" \in UploadDefects <=> body.forbidden
  BY <1>2 DEF UploadDefects
<1>6. "authority" \in UploadDefects <=> body.authority \notin Authorities
  BY <1>2 DEF UploadDefects
<1>7. "nonce" \in UploadDefects <=> body.nonce \notin UploadNonces
  BY <1>2 DEF UploadDefects
<1>8. "audience_key_id" \in UploadDefects
         <=> about = "upload" /\ body.audience \notin Audiences
  BY <1>2 DEF UploadDefects
<1>9. "signature_encoding" \in UploadDefects <=> ~body.signature.canonical
  BY <1>2 DEF UploadDefects
<1>10. "signature_scalar" \in UploadDefects <=> ~InRange(body.signature)
  BY <1>2 DEF UploadDefects
<1>11. "signature_malleability" \in UploadDefects <=> 2 * body.signature.s > Order
  BY <1>2 DEF UploadDefects
<1>12. "signature_mismatch" \in UploadDefects
          <=> ~Verifies(body.signature, CanonicalBytes(about, body))
  BY <1>2 DEF UploadDefects
<1>13. "body_digest" \in UploadDefects <=> Digest[body.body] # body.digest
  BY <1>2 DEF UploadDefects
<1>14. 2 * body.signature.s > Order <=> ~(body.signature.s <= Half)
  BY <1>3, Halves
<1> QED  BY <1>1, <1>4, <1>5, <1>6, <1>7, <1>8, <1>9, <1>10, <1>11, <1>12, <1>13, <1>14

\* What a check reports when it finds its defect.
Found(class, bad) == IF class \in bad THEN class ELSE Pass

\* The checks of an upload, each with its class.
LEMMA UploadChecks ==
    ASSUME Request, gate = "upload"
    PROVE  UploadClass = FirstOf(<<
              Found("method_path", UploadDefects),
              Found("forbidden_header", UploadDefects),
              Found("authority", UploadDefects),
              Found("nonce", UploadDefects),
              Found("audience_key_id", UploadDefects),
              Found("signature_encoding", UploadDefects),
              Found("signature_scalar", UploadDefects),
              Found("signature_malleability", UploadDefects),
              Found("signature_mismatch", UploadDefects),
              Found("body_digest", UploadDefects)>>)
<1>1. PICK a, b, c, d, e, f, g, h, i, j :
         /\ a = Unless(body.method = Method[about] /\ body.path = Path, "method_path")
         /\ b = Unless(~body.forbidden, "forbidden_header")
         /\ c = Unless(body.authority \in Authorities, "authority")
         /\ d = Unless(body.nonce \in UploadNonces, "nonce")
         /\ e = Unless(about = "upload" => body.audience \in Audiences, "audience_key_id")
         /\ f = Unless(body.signature.canonical, "signature_encoding")
         /\ g = Unless(InRange(body.signature), "signature_scalar")
         /\ h = Unless(body.signature.s <= Half, "signature_malleability")
         /\ i = Unless(Verifies(body.signature, CanonicalBytes(about, body)), "signature_mismatch")
         /\ j = Unless(Digest[body.body] = body.digest, "body_digest")
  OBVIOUS
<1>2. UploadClass = FirstOf(<<a, b, c, d, e,
                             VerifySignature(body.signature, CanonicalBytes(about, body)), j>>)
  BY <1>1 DEF UploadClass, RejectClass
<1>3. VerifySignature(body.signature, CanonicalBytes(about, body)) = FirstOf(<<f, g, h, i>>)
  BY <1>1 DEF VerifySignature
<1>4. UploadClass = FirstOf(<<a, b, c, d, e, f, g, h, i, j>>)
  BY <1>2, <1>3, First4, First7, First10
<1>5. a = Found("method_path", UploadDefects)
  BY <1>1, UploadDefect DEF Unless, Found
<1>6. b = Found("forbidden_header", UploadDefects)
  BY <1>1, UploadDefect DEF Unless, Found
<1>7. c = Found("authority", UploadDefects)
  BY <1>1, UploadDefect DEF Unless, Found
<1>8. d = Found("nonce", UploadDefects)
  BY <1>1, UploadDefect DEF Unless, Found
<1>9. e = Found("audience_key_id", UploadDefects)
  BY <1>1, UploadDefect DEF Unless, Found
<1>10. f = Found("signature_encoding", UploadDefects)
  BY <1>1, UploadDefect DEF Unless, Found
<1>11. g = Found("signature_scalar", UploadDefects)
  BY <1>1, UploadDefect DEF Unless, Found
<1>12. h = Found("signature_malleability", UploadDefects)
  BY <1>1, UploadDefect DEF Unless, Found
<1>13. i = Found("signature_mismatch", UploadDefects)
  BY <1>1, UploadDefect DEF Unless, Found
<1>14. j = Found("body_digest", UploadDefects)
  BY <1>1, UploadDefect DEF Unless, Found
<1> QED  BY <1>4, <1>5, <1>6, <1>7, <1>8, <1>9, <1>10, <1>11, <1>12, <1>13, <1>14

\* The class of a refused upload is the first of all that is wrong with it.
LEMMA UploadOrdered == Request => UploadDefectsInOrder
<1> SUFFICES ASSUME Request, gate = "upload"
             PROVE  /\ UploadClass = Pass <=> UploadDefects = {}
                    /\ \A i \in DOMAIN Precedence : UploadClass = Precedence[i] =>
                          /\ Precedence[i] \in UploadDefects
                          /\ \A j \in 1..(i - 1) : Precedence[j] \notin UploadDefects
  BY DEF UploadDefectsInOrder
<1> DEFINE checks == <<
              Found("method_path", UploadDefects),
              Found("forbidden_header", UploadDefects),
              Found("authority", UploadDefects),
              Found("nonce", UploadDefects),
              Found("audience_key_id", UploadDefects),
              Found("signature_encoding", UploadDefects),
              Found("signature_scalar", UploadDefects),
              Found("signature_malleability", UploadDefects),
              Found("signature_mismatch", UploadDefects),
              Found("body_digest", UploadDefects)>>
           classes == Precedence
<1>1. Len(checks) = 10 /\ DOMAIN classes = 1..10
  BY DEF Precedence
<1>2. \A m \in 1..10 : checks[m] = IF classes[m] \in UploadDefects THEN classes[m] ELSE Pass
  BY DEF Precedence, Found
<1>3. \A m \in 1..10 : classes[m] # Pass
  <2>1. /\ classes[1] # "" /\ classes[2] # "" /\ classes[3] # "" /\ classes[4] # ""
        /\ classes[5] # "" /\ classes[6] # "" /\ classes[7] # "" /\ classes[8] # ""
        /\ classes[9] # "" /\ classes[10] # ""
    BY DEF Precedence
  <2>2. \A m \in 1..10 : \/ m = 1 \/ m = 2 \/ m = 3 \/ m = 4 \/ m = 5
                          \/ m = 6 \/ m = 7 \/ m = 8 \/ m = 9 \/ m = 10
    OBVIOUS
  <2> HIDE DEF classes
  <2>3. \A m \in 1..10 : classes[m] # ""
    BY <2>1, <2>2
  <2> QED  BY <2>3 DEF Pass
<1>4. \A m, n \in 1..10 : classes[m] = classes[n] => m = n
  BY DEF Precedence
<1>5. \A class \in UploadDefects : \E m \in 1..10 : class = classes[m]
  BY <1>1, UploadDefect DEF Chars
<1>6. UploadClass = FirstOf(checks)
  BY UploadChecks
<1> HIDE DEF checks, classes
<1>7. /\ FirstOf(checks) = Pass <=> \A m \in 1..Len(checks) : classes[m] \notin UploadDefects
      /\ \A m \in 1..Len(checks) : FirstOf(checks) = classes[m] =>
            /\ classes[m] \in UploadDefects
            /\ \A n \in 1..(m - 1) : classes[n] \notin UploadDefects
  <2>1. /\ Len(checks) \in Nat
        /\ \A m \in 1..Len(checks) : classes[m] # Pass
        /\ \A m, n \in 1..Len(checks) : classes[m] = classes[n] => m = n
        /\ \A m \in 1..Len(checks) :
              checks[m] = IF classes[m] \in UploadDefects THEN classes[m] ELSE Pass
    BY <1>1, <1>2, <1>3, <1>4
  <2> QED  BY ONLY <2>1, InOrder
<1> QED  BY <1>1, <1>5, <1>6, <1>7 DEF classes

\* A redirect that is a link lies somewhere.
LEMMA LinkLies ==
    ASSUME Jsons, gate = "link", Field(body.value, "redirectUrl").type = "link"
    PROVE  Field(body.value, "redirectUrl").link.location \in L!Locations
<1>1. "redirectUrl" \in Keys(body.value)
  BY FieldIs
<1>2. HoldsLexemes(Field(body.value, "redirectUrl"))
  BY <1>1, FieldLexeme DEF Jsons, BodyGateNames
<1> QED  BY <1>2 DEF HoldsLexemes, IsLexeme

\* Each check of a link finds one defect.
LEMMA LinkDefect ==
    ASSUME Jsons, LinkAsked, gate = "link",
           NEW redirect, redirect = Field(body.value, "redirectUrl"),
           NEW link, link = redirect.link
    PROVE  /\ "missing_redirect" \in Defects <=> redirect.type # "link"
           /\ redirect.type # "link" => Defects = {"missing_redirect"}
           /\ redirect.type = "link" =>
                 /\ "origin" \in Defects <=> ~(link.origin /\ link.location # "authority")
                 /\ "path_or_query" \in Defects <=> link.location \in {"path", "query"}
                 /\ "transport" \in Defects <=> ~link.transport
                 /\ "issuer_signature" \in Defects <=> ~(link.signed /\ link.readable)
                 /\ "crid_mismatch" \in Defects <=> ~L!KeyMatches(about, link.key)
                 /\ "info_crid_mismatch" \in Defects <=> ~L!InfoCridMatches(about, body.value)
<1>1. redirect.type # "link" => Defects = {"missing_redirect"}
  BY DEF Defects
<1>2. ASSUME redirect.type = "link"
      PROVE  /\ "missing_redirect" \notin Defects
             /\ "origin" \in Defects <=> ~(link.origin /\ link.location # "authority")
             /\ "path_or_query" \in Defects <=> link.location \in {"path", "query"}
             /\ "transport" \in Defects <=> ~link.transport
             /\ "issuer_signature" \in Defects <=> ~(link.signed /\ link.readable)
             /\ "crid_mismatch" \in Defects <=> link.key # about.digest
             /\ "info_crid_mismatch" \in Defects <=>
                   LET info == Field(body.value, "redirectInfo")
                   IN  Has(info, "crid") /\ Field(info, "crid") # L!CridText(about)
  BY <1>2 DEF Defects
<1>3. L!InfoCridMatches(about, body.value) <=>
         LET info == Field(body.value, "redirectInfo")
         IN  Has(info, "crid") => Field(info, "crid") = L!CridText(about)
  BY LinkCopies DEF L!InfoCridMatches
<1>4. L!KeyMatches(about, link.key) <=> link.key = about.digest
  <2>1. L!ValueGate(about) = Pass
    BY RequestGatePass DEF LinkAsked
  <2>2. about \in [alphabet : BOOLEAN, length : Nat, canonical : BOOLEAN,
                   checksum : BOOLEAN, version : Nat, digest : LinkKeys]
    BY IdentifiersAssumption DEF LinkAsked
  <2>3. about.alphabet = TRUE /\ about.canonical = TRUE /\ about.checksum = TRUE
    BY <2>1, <2>2, ValueGatePass
  <2>4. about = [alphabet |-> TRUE, length |-> about.length, canonical |-> TRUE,
                 checksum |-> TRUE, version |-> about.version, digest |-> about.digest]
    BY <2>2, <2>3
  <2> QED  BY <2>1, <2>4, LinkCopies DEF L!KeyMatches, L!Derive
<1> QED  BY <1>1, <1>2, <1>3, <1>4

\* The checks of a link, each with its class.
LEMMA LinkChecks ==
    ASSUME Jsons, LinkAsked, gate = "link"
    PROVE  L!LinkRejectClass(about, body.value) = FirstOf(<<
              Found("missing_redirect", Defects), Found("origin", Defects),
              Found("path_or_query", Defects), Found("transport", Defects),
              Found("issuer_signature", Defects), Found("crid_mismatch", Defects),
              Found("info_crid_mismatch", Defects)>>)
<1>1. PICK redirect, link : /\ redirect = Field(body.value, "redirectUrl")
                            /\ link = redirect.link
  OBVIOUS
<1>2. L!Field(body.value, "redirectUrl") = redirect
  BY <1>1, LinkCopies
<1>3. PICK a, b, c, d, e, f, g : /\ a = Found("missing_redirect", Defects)
                                 /\ b = Found("origin", Defects)
                                 /\ c = Found("path_or_query", Defects)
                                 /\ d = Found("transport", Defects)
                                 /\ e = Found("issuer_signature", Defects)
                                 /\ f = Found("crid_mismatch", Defects)
                                 /\ g = Found("info_crid_mismatch", Defects)
  OBVIOUS
<1>4. FirstOf(<<a, b, c, d, e, f, g>>) =
         IF a # Pass THEN a ELSE IF b # Pass THEN b ELSE IF c # Pass THEN c
         ELSE IF d # Pass THEN d ELSE IF e # Pass THEN e ELSE IF f # Pass THEN f ELSE g
  BY First7
<1>5. CASE redirect.type # "link"
  <2>1. a = "missing_redirect"
    BY <1>1, <1>3, <1>5, LinkDefect DEF Found
  <2>2. L!LinkRejectClass(about, body.value) = "missing_redirect"
    BY <1>2, <1>5 DEF L!LinkRejectClass
  <2> QED  BY <1>3, <1>4, <2>1, <2>2 DEF Pass
<1>6. CASE redirect.type = "link"
  <2>1. /\ a = Pass
        /\ b = L!Unless(link.origin /\ link.location # "authority", "origin")
        /\ d = L!Unless(link.transport, "transport")
        /\ e = L!Unless(link.signed /\ link.readable, "issuer_signature")
        /\ f = L!Unless(L!KeyMatches(about, link.key), "crid_mismatch")
        /\ g = L!Unless(L!InfoCridMatches(about, body.value), "info_crid_mismatch")
    BY <1>1, <1>3, <1>6, LinkDefect DEF Found, L!Unless, L!Pass, Pass
  <2>2. link.location \in {"none", "slash", "path", "query", "authority"}
    BY <1>1, <1>6, LinkLies DEF L!Locations
  <2>3. PICK h : h = L!Unless(link.location \in {"none", "slash"}, "path_or_query")
    OBVIOUS
  <2>4. b = Pass => h = c
    <3>1. c = IF link.location \in {"path", "query"} THEN "path_or_query" ELSE Pass
      BY <1>1, <1>3, <1>6, LinkDefect DEF Found
    <3>2. b = Pass => link.location # "authority"
      BY <2>1 DEF L!Unless, Pass
    <3> QED  BY <2>2, <2>3, <3>1, <3>2 DEF L!Unless, L!Pass, Pass
  <2>5. L!SplitLink(link) = FirstOf(<<b, h>>)
    BY <2>1, <2>3, LinkCopies DEF L!SplitLink
  <2>6. L!OpenLink(link) = FirstOf(<<L!SplitLink(link), d, e>>)
    BY <2>1, LinkCopies DEF L!OpenLink
  <2>7. L!LinkRejectClass(about, body.value) = FirstOf(<<L!OpenLink(link), f, g>>)
    BY <1>1, <1>2, <1>6, <2>1, LinkCopies DEF L!LinkRejectClass
  <2>8. L!SplitLink(link) = IF b # Pass THEN b ELSE c
    BY <2>4, <2>5, First2
  <2>9. L!OpenLink(link) = IF b # Pass THEN b ELSE IF c # Pass THEN c
                           ELSE IF d # Pass THEN d ELSE e
    BY <2>6, <2>8, First3
  <2> QED  BY <1>3, <1>4, <2>1, <2>7, <2>9, First3
<1> QED  BY <1>5, <1>6

\* A reply under the code of a link is reported by the class of the link.
LEMMA ReplyClass ==
    ASSUME gate = "link", Field(body.value, "errCode") = Str("52600")
    PROVE  Reply.class = L!LinkRejectClass(about, body.value)
<1>1. PICK code : code = L!Field(body.value, "errCode")
  OBVIOUS
<1>2. code.type = "string" /\ code.text = "52600"
  BY <1>1, LinkCopies DEF Str, Scalar
<1>3. /\ L!IsCode(code) /\ code.text \in DOMAIN L!ClientResult
      /\ code.text = L!LinkIssued
  BY <1>2 DEF L!IsCode, L!ClientResult, L!LinkIssued
<1>4. PICK class : class = L!LinkRejectClass(about, body.value)
  OBVIOUS
<1>5. Reply = IF class # L!Pass THEN L!Rejected(class)
              ELSE [L!Answer("link") EXCEPT
                      !.link = <<L!Field(body.value, "redirectUrl").link>>,
                      !.info = L!Sanitize(L!Field(body.value, "redirectInfo"))]
  BY <1>1, <1>3, <1>4 DEF Reply, L!InterpretACK
<1>6. CASE class # L!Pass
  BY <1>4, <1>5, <1>6 DEF L!Rejected
<1>7. CASE class = L!Pass
  BY <1>4, <1>5, <1>7 DEF L!Answer
<1> QED  BY <1>6, <1>7

\* The class of a refused link is the first of all that is wrong with it.
LEMMA LinkOrdered == Jsons /\ LinkAsked => LinkDefectsInOrder
<1> SUFFICES ASSUME Jsons, LinkAsked, gate = "link", Field(body.value,
    "errCode") = Str("52600")
             PROVE  /\ Reply.class = Pass <=> Defects = {}
                    /\ \A i \in DOMAIN L!RejectClasses : Reply.class = L!RejectClasses[i] =>
                          /\ L!RejectClasses[i] \in Defects
                          /\ \A j \in 1..(i - 1) : L!RejectClasses[j] \notin Defects
  BY DEF LinkDefectsInOrder
<1> DEFINE checks == <<
              Found("missing_redirect", Defects), Found("origin", Defects),
              Found("path_or_query", Defects), Found("transport", Defects),
              Found("issuer_signature", Defects), Found("crid_mismatch", Defects),
              Found("info_crid_mismatch", Defects)>>
           classes == L!RejectClasses
<1>1. Len(checks) = 7 /\ DOMAIN classes = 1..7
  BY DEF L!RejectClasses
<1>2. \A m \in 1..7 : checks[m] = IF classes[m] \in Defects THEN classes[m] ELSE Pass
  BY DEF L!RejectClasses, Found
<1>3. \A m \in 1..7 : classes[m] # Pass
  <2>1. /\ classes[1] # "" /\ classes[2] # "" /\ classes[3] # "" /\ classes[4] # ""
        /\ classes[5] # "" /\ classes[6] # "" /\ classes[7] # ""
    BY DEF L!RejectClasses
  <2>2. \A m \in 1..7 : m = 1 \/ m = 2 \/ m = 3 \/ m = 4 \/ m = 5 \/ m = 6 \/ m = 7
    OBVIOUS
  <2> HIDE DEF classes
  <2>3. \A m \in 1..7 : classes[m] # ""
    BY <2>1, <2>2
  <2> QED  BY <2>3 DEF Pass
<1>4. \A m, n \in 1..7 : classes[m] = classes[n] => m = n
  BY DEF L!RejectClasses
<1>5. \A class \in Defects : \E m \in 1..7 : class = classes[m]
  <2>1. Defects \subseteq {"missing_redirect", "origin", "path_or_query", "transport",
                           "issuer_signature", "crid_mismatch", "info_crid_mismatch"}
    BY DEF Defects
  <2>2. /\ classes[1] = "missing_redirect" /\ classes[2] = "origin"
        /\ classes[3] = "path_or_query" /\ classes[4] = "transport"
        /\ classes[5] = "issuer_signature" /\ classes[6] = "crid_mismatch"
        /\ classes[7] = "info_crid_mismatch"
    BY DEF L!RejectClasses
  <2> HIDE DEF classes
  <2> QED  BY <2>1, <2>2
<1>6. Reply.class = FirstOf(checks)
  BY LinkChecks, ReplyClass
<1> HIDE DEF checks, classes
<1>7. /\ FirstOf(checks) = Pass <=> \A m \in 1..Len(checks) : classes[m] \notin Defects
      /\ \A m \in 1..Len(checks) : FirstOf(checks) = classes[m] =>
            /\ classes[m] \in Defects
            /\ \A n \in 1..(m - 1) : classes[n] \notin Defects
  <2>1. /\ Len(checks) \in Nat
        /\ \A m \in 1..Len(checks) : classes[m] # Pass
        /\ \A m, n \in 1..Len(checks) : classes[m] = classes[n] => m = n
        /\ \A m \in 1..Len(checks) :
              checks[m] = IF classes[m] \in Defects THEN classes[m] ELSE Pass
    BY <1>1, <1>2, <1>3, <1>4
  <2> QED  BY ONLY <2>1, InOrder
<1> QED  BY <1>1, <1>5, <1>6, <1>7 DEF classes

----------------------------------------------------------------------------
\* Structure is judged before values.

\* What is told of a body before a value of it is judged.
StructureClasses == {Pass, "packet_size", "body_parse", "wrong_type", "unknown_field",
                     "missing_field", "list_on_error"}

LEMMA NoValueClass == \A c \in StructureClasses : c \notin ValueClasses
BY DEF StructureClasses, ValueClasses, Pass

\* A value that is judged has the checks of the structure behind it.
LEMMA StructureFirst ==
    ASSUME NEW checks, Len(checks) \in Nat, FirstOf(checks) \in ValueClasses,
           NEW n \in 0..Len(checks), \A i \in 1..n : checks[i] \in StructureClasses
    PROVE  \A i \in 1..n : checks[i] = Pass
<1>1. FirstOf(checks) # Pass
  BY NoValueClass DEF StructureClasses
<1>2. PICK i \in 1..Len(checks) :
         FirstOf(checks) = checks[i] /\ \A j \in 1..(i - 1) : checks[j] = Pass
  BY <1>1, FirstOfIs
<1>3. i \notin 1..n
  BY <1>2, NoValueClass
<1> QED  BY <1>2, <1>3

\* A list of such checks reports what one of them does.
LEMMA StructureList ==
    ASSUME NEW checks, Len(checks) \in Nat,
           \A i \in 1..Len(checks) : checks[i] \in StructureClasses
    PROVE  FirstOf(checks) \in StructureClasses
<1>1. Pass \in StructureClasses
  BY DEF StructureClasses
<1> QED  BY <1>1, FirstOfIs

LEMMA Structures2 ==
    ASSUME NEW a \in StructureClasses, NEW b \in StructureClasses
    PROVE  FirstOf(<<a, b>>) \in StructureClasses
BY First2

LEMMA Structures3 ==
    ASSUME NEW a \in StructureClasses, NEW b \in StructureClasses, NEW c \in StructureClasses
    PROVE  FirstOf(<<a, b, c>>) \in StructureClasses
BY First3

LEMMA Structures4 ==
    ASSUME NEW a \in StructureClasses, NEW b \in StructureClasses, NEW c \in StructureClasses,
           NEW d \in StructureClasses
    PROVE  FirstOf(<<a, b, c, d>>) \in StructureClasses
BY First4

\* The checks of keys and types are such checks.
LEMMA StructureChecks ==
    /\ \A holds : \A class \in StructureClasses : Unless(holds, class) \in StructureClasses
    /\ \A b : RawObject(b) \in StructureClasses
    /\ \A v, required, allowed : ExactKeys(v, required, allowed) \in StructureClasses
    /\ \A b, required, allowed : ExactObject(b, required, allowed) \in StructureClasses
    /\ \A v, keys : AreStrings(v, keys) \in StructureClasses
    /\ \A v, keys : A!Exact(v, keys) \in StructureClasses
    /\ \A b : A!WholeBody(b) \in StructureClasses
<1>1. /\ Pass \in StructureClasses /\ "packet_size" \in StructureClasses
      /\ "body_parse" \in StructureClasses /\ "wrong_type" \in StructureClasses
      /\ "unknown_field" \in StructureClasses /\ "missing_field" \in StructureClasses
  BY DEF StructureClasses
<1>2. \A holds : \A class \in StructureClasses : Unless(holds, class) \in StructureClasses
  BY <1>1 DEF Unless
<1>3. ASSUME NEW b PROVE RawObject(b) \in StructureClasses
  <2>1. PICK p, q, r \in StructureClasses : RawObject(b) = FirstOf(<<p, q, r>>)
    BY <1>1, <1>2 DEF RawObject
  <2> QED  BY <2>1, Structures3
<1>4. ASSUME NEW v, NEW required, NEW allowed
      PROVE  ExactKeys(v, required, allowed) \in StructureClasses
  <2>1. PICK p, q \in StructureClasses : ExactKeys(v, required, allowed) = FirstOf(<<p, q>>)
    BY <1>1, <1>2 DEF ExactKeys
  <2> QED  BY <2>1, Structures2
<1>5. ASSUME NEW b, NEW required, NEW allowed
      PROVE  ExactObject(b, required, allowed) \in StructureClasses
  <2>1. PICK p, q \in StructureClasses : ExactObject(b, required, allowed) = FirstOf(<<p, q>>)
    BY <1>3, <1>4 DEF ExactObject
  <2> QED  BY <2>1, Structures2
<1>6. \A v, keys : AreStrings(v, keys) \in StructureClasses
  BY <1>1, <1>2 DEF AreStrings
<1>7. ASSUME NEW v, NEW keys PROVE A!Exact(v, keys) \in StructureClasses
  <2>1. PICK p, q \in StructureClasses : A!Exact(v, keys) = FirstOf(<<p, q>>)
    BY <1>1, <1>2, <1>4, AssignmentCopies DEF A!Exact
  <2> QED  BY <2>1, Structures2
<1>8. \A b : A!WholeBody(b) \in StructureClasses
  BY <1>1, <1>2, AssignmentCopies DEF A!WholeBody
<1> QED  BY <1>2, <1>3, <1>4, <1>5, <1>6, <1>7, <1>8

\* Scalars are no objects, and what is no object has no keys.
LEMMA Leaves ==
    /\ \A text : ~IsObject(Str(text)) /\ ~IsObject(Num(text)) /\ ~IsObject(Bool(text))
    /\ ~IsObject(Null)
    /\ \A v : ~IsObject(v) => Keys(v) = {}
BY DEF IsObject, Str, Num, Bool, Null, Scalar, Keys

\* Two bodies with one object inside each.
LEMMA TwoLevels ==
    ASSUME NEW v, NEW w, NEW inner, IsObject(v), IsObject(w), Keys(v) = Keys(w),
           \A k \in Keys(w) : k # inner => ~IsObject(Field(w, k)),
           inner \in Keys(w) =>
              /\ IsObject(Field(v, inner))
              /\ Keys(Field(v, inner)) = Keys(Field(w, inner))
              /\ \A k \in Keys(Field(w, inner)) : ~IsObject(Field(Field(w, inner), k))
    PROVE  SameKeys(v, w)
<1>1. \A x, y : ~IsObject(y) => Alike(x, y)
  BY DEF Alike
<1>2. Alike(v, w)
  BY DEF Alike
<1>3. ASSUME NEW i \in Keys(w), NEW first, first = Field(w, i)
      PROVE  /\ Alike(Field(v, i), first)
             /\ \A j \in Keys(first) : ~IsObject(Field(first, j))
  <2>1. CASE i = inner
    BY <1>3, <2>1 DEF Alike
  <2>2. CASE i # inner
    BY <1>1, <1>3, <2>2, Leaves
  <2> QED  BY <2>1, <2>2
<1>4. \A y : ~IsObject(y) => \A k \in Keys(y) : FALSE
  BY Leaves
<1> HIDE DEF Alike
<1>5. ASSUME NEW i \in Keys(w), NEW j \in Keys(Field(w, i))
      PROVE  /\ Alike(Field(Field(v, i), j), Field(Field(w, i), j))
             /\ \A k \in Keys(Field(Field(w, i), j)) :
                   Alike(Field(Field(Field(v, i), j), k), Field(Field(Field(w, i), j), k))
  <2>1. ~IsObject(Field(Field(w, i), j))
    BY <1>3
  <2> QED  BY <1>1, <1>4, <2>1
<1> QED  BY <1>2, <1>3, <1>5 DEF SameKeys

----------------------------------------------------------------------------
\* What the gate is about is what a seed of it is about.
Introduced == gate \in BodyGateNames => \E seed \in Seeds[gate] : seed.about = about

LEMMA InitIntroduced == GatesInit => Introduced
<1>1. BodyGateNames \cap ValueGateNames = {}
  BY DEF ValueGateNames, TextGates, RecordGates, BodyGateNames
<1> QED  BY <1>1 DEF GatesInit, BodyInit, ValueInit, Introduced

LEMMA IntroducedKept == Introduced /\ [GatesNext]_gateVars => Introduced'
BY GateKept DEF Introduced

\* A request whose values are judged has the keys of one that may be sent.
LEMMA RequestStructure ==
    ASSUME Introduced, gate = "resource_request", Class \in ValueClasses
    PROVE  /\ body.flaw \notin Flaws
           /\ \E seed \in Seeds[gate] :
                 seed.about = about /\ SameKeys(body.value, seed.body.value)
<1> DEFINE v == body.value
           data == Field(v, "usrData")
<1>1. PICK a, b, c, d, e, f, g, h, i :
         /\ a = ExactObject(body, R!RequestOuter, R!RequestOuter)
         /\ b = AreStrings(v, {"usrId", "devId", "aspId"})
         /\ c = Unless(IsObject(data), "wrong_type")
         /\ d = ExactKeys(data, R!UserDataRequired, R!UserData)
         /\ Class = FirstOf(<<a, b, c, d, e, f, g, h, i>>)
  BY ResourceCopies DEF R!ParseRequest, Class
<1>2. /\ a \in StructureClasses /\ b \in StructureClasses /\ c \in StructureClasses
      /\ d \in StructureClasses
  BY <1>1, StructureChecks DEF StructureClasses
<1>3. a = Pass /\ b = Pass /\ c = Pass /\ d = Pass
  BY <1>1, <1>2, First9, NoValueClass
<1>4. /\ body.flaw \notin Flaws /\ IsObject(v) /\ Keys(v) = R!RequestOuter
      /\ IsObject(data)
      /\ Keys(data) \subseteq R!UserData /\ R!UserDataRequired \subseteq Keys(data)
  <2>1. body.flaw \notin Flaws /\ IsObject(v) /\ Keys(v) = R!RequestOuter
    <3>1. ExactObject(body, R!RequestOuter, R!RequestOuter) = Pass
      BY <1>1, <1>3
    <3>2. Keys(v) \subseteq R!RequestOuter /\ R!RequestOuter \subseteq Keys(v)
             => Keys(v) = R!RequestOuter
      OBVIOUS
    <3> QED  BY <3>1, <3>2, ExactObjectPass
  <2>2. IsObject(data)
    BY <1>1, <1>3 DEF Unless, Pass
  <2>3. Keys(data) \subseteq R!UserData /\ R!UserDataRequired \subseteq Keys(data)
    BY <1>1, <1>3, ExactKeysPass
  <2> QED  BY <2>1, <2>2, <2>3
<1>5. PICK seed \in Seeds["resource_request"] : seed.about = about
  BY DEF Introduced, BodyGateNames
<1>6. PICK other \in Seeds["resource_request"] :
         /\ other.about = about /\ other.body = R!EncodeRequest(RequestOf(other.body.value))
         /\ "expected_crid" \in Keys(data) <=> RequestOf(other.body.value).expected # ""
  BY <1>5, SeedsAssumption
<1>7. PICK r : other.body = R!EncodeRequest(r)
       /\ ("expected_crid" \in Keys(data) <=> r.expected # "")
  BY <1>6
<1> DEFINE w == other.body.value
           asked == Field(w, "usrData")
<1>8. /\ IsObject(w) /\ Keys(w) = R!RequestOuter /\ IsObject(asked)
      /\ r.expected = "" => Keys(asked) = R!UserDataRequired
      /\ r.expected # "" =>
            Keys(asked) = R!UserData /\ Field(asked, "expected_crid") = Str(r.expected)
      /\ Field(w, "usrId") = Str(r.agent) /\ Field(w, "devId") = Str(r.agent)
      /\ Field(w, "aspId") = Str(R!AspId)
      /\ Field(asked, "query") = Str(R!Query) /\ Field(asked, "version") = Num("1")
      /\ Field(asked, "request_nonce") = Str(r.nonce)
      /\ Field(asked, "connector_id") = Str(r.connector)
  BY <1>7, EncodedRequest
<1> HIDE DEF w, asked
<1>9. Keys(data) = Keys(asked)
  BY <1>4, <1>7, <1>8 DEF R!UserData
<1>10. \A k \in Keys(w) : k # "usrData" => ~IsObject(Field(w, k))
  BY <1>8, Leaves DEF R!RequestOuter
<1>11. \A k \in Keys(asked) : ~IsObject(Field(asked, k))
  <2>1. Keys(asked) \subseteq {"query", "version", "request_nonce", "connector_id"} \cup
           (IF r.expected # "" THEN {"expected_crid"} ELSE {})
    BY <1>8 DEF R!UserData, R!UserDataRequired
  <2> QED  BY <1>8, <2>1, Leaves
<1>12. SameKeys(v, w)
  BY <1>4, <1>8, <1>9, <1>10, <1>11, TwoLevels DEF asked
<1> QED  BY <1>4, <1>6, <1>12 DEF w

\* What the seeds of a result are made of.
LEMMA SuccessShape ==
    ASSUME NEW s, NEW w, w = R!EncodeSuccess(s).value
    PROVE  /\ IsObject(w) /\ Keys(w) = {"errCode", "list"} /\ ~IsObject(Field(w, "errCode"))
           /\ IsObject(Field(w, "list")) /\ Keys(Field(w, "list")) = R!ListFields
           /\ \A k \in R!ListFields : ~IsObject(Field(Field(w, "list"), k))
<1> DEFINE list == Field(w, "list")
<1>1. /\ IsObject(w) /\ Keys(w) = {"errCode", "list"} /\ Field(w, "errCode") = Str("0")
      /\ Said(list, s)
  BY EncodedSuccess
<1> HIDE DEF list
<1>2. /\ IsObject(list) /\ Keys(list) = R!ListFields
      /\ Field(list, "query") = Str(R!Query) /\ Field(list, "version") = Num("1")
      /\ Field(list, "agent_id") = Str(s.agent)
      /\ Field(list, "connector_id") = Str(s.connector)
      /\ Field(list, "resource_public_key") = Str(s.key)
      /\ Field(list, "connector_routing_id") = Str(s.routing)
      /\ Field(list, "knock_resource_id") = Str(s.knock) /\ Field(list, "crid") = Str(s.crid)
      /\ Field(list, "found_existing") = Bool(IF s.found THEN "true" ELSE "false")
  BY <1>1 DEF Said
<1>3. \A k \in R!ListFields : ~IsObject(Field(list, k))
  BY <1>2, Leaves DEF R!ListFields
<1> QED  BY <1>1, <1>2, <1>3, Leaves DEF list

LEMMA ErrorShape ==
    ASSUME NEW code, NEW delay, NEW w, w = R!EncodeError(code, delay).value
    PROVE  /\ IsObject(w) /\ \A k \in Keys(w) : ~IsObject(Field(w, k))
           /\ delay = "" => Keys(w) = {"errCode", "errMsg"}
           /\ delay # "" => Keys(w) = {"errCode", "errMsg", "retryAfterSeconds"}
<1>1. /\ IsObject(w) /\ Field(w, "errCode") = Str(code) /\ Field(w, "errMsg") = Str(code)
      /\ delay = "" => Keys(w) = {"errCode", "errMsg"}
      /\ delay # "" => /\ Keys(w) = {"errCode", "errMsg", "retryAfterSeconds"}
                       /\ Field(w, "retryAfterSeconds") = Num(delay)
  BY EncodedError
<1>2. \A k \in Keys(w) : ~IsObject(Field(w, k))
  BY <1>1, Leaves
<1> QED  BY <1>1, <1>2

\* A success whose values are judged has the keys of a success,
LEMMA SuccessStructure ==
    ASSUME NEW b, NEW request, IsObject(b.value), R!ParseSuccess(b, request) \in ValueClasses,
           NEW s, NEW w, w = R!EncodeSuccess(s).value
    PROVE  SameKeys(b.value, w)
<1> DEFINE v == b.value
           list == Field(v, "list")
<1>1. PICK c, d, e, f, g, h, i, j, k, l, m, n :
         /\ c = ExactKeys(v, {"errCode", "list"}, {"errCode", "list"})
         /\ d = Unless(IsObject(list), "wrong_type")
         /\ e = ExactKeys(list, R!ListFields, R!ListFields)
         /\ f = AreStrings(list, R!ListStrings) /\ g = R!ResultVersion(list)
         /\ h = Unless(Field(list, "found_existing").type = "boolean", "wrong_type")
         /\ i = Unless(Text(list, "query") = R!Query, "semantic")
         /\ j = R!RequestBinding(list, request) /\ k = R!ListGrammar(list)
         /\ l = R!NotCrossWired(list) /\ m = R!CridBinding(list)
         /\ n = R!Continuity(list, request)
  OBVIOUS
<1> HIDE DEF list
<1>2. R!ParseSuccess(b, request) = FirstOf(<<c, d, e, f, g, h, i, j, k, l, m, n>>)
  BY <1>1, ResourceCopies DEF R!ParseSuccess, list
<1>3. c \in StructureClasses /\ d \in StructureClasses /\ e \in StructureClasses
  <2>1. "wrong_type" \in StructureClasses
    BY DEF StructureClasses
  <2>2. c \in StructureClasses
    BY <1>1, StructureChecks
  <2>3. d \in StructureClasses
    BY <1>1, <2>1, StructureChecks
  <2>4. e \in StructureClasses
    BY <1>1, StructureChecks
  <2> QED  BY <2>2, <2>3, <2>4
<1>4. c = Pass /\ d = Pass /\ e = Pass
  <2>1. R!ParseSuccess(b, request) \notin StructureClasses
    BY NoValueClass
  <2>2. R!ParseSuccess(b, request) =
              IF c # Pass THEN c ELSE IF d # Pass THEN d ELSE IF e # Pass THEN e ELSE
              IF f # Pass THEN f ELSE IF g # Pass THEN g ELSE IF h # Pass THEN h ELSE
              IF i # Pass THEN i ELSE IF j # Pass THEN j ELSE IF k # Pass THEN k ELSE
              IF l # Pass THEN l ELSE IF m # Pass THEN m ELSE n
    BY <1>2, First12
  <2> QED  BY <1>3, <2>1, <2>2
<1>5. Keys(v) = {"errCode", "list"} /\ Keys(list) = R!ListFields
  <2>1. ExactKeys(v, {"errCode", "list"}, {"errCode", "list"}) = Pass
    BY <1>1, <1>4
  <2>2. ExactKeys(list, R!ListFields, R!ListFields) = Pass
    BY <1>1, <1>4
  <2>3. Keys(v) = {"errCode", "list"}
    BY <2>1, ExactKeysPass
  <2>4. Keys(list) = R!ListFields
    BY <2>2, ExactKeysPass
  <2> QED  BY <2>3, <2>4
<1>6. IsObject(list)
  BY <1>1, <1>4 DEF Unless, Pass
<1>7. /\ IsObject(w) /\ Keys(w) = {"errCode", "list"} /\ ~IsObject(Field(w, "errCode"))
      /\ IsObject(Field(w, "list")) /\ Keys(Field(w, "list")) = R!ListFields
      /\ \A key \in R!ListFields : ~IsObject(Field(Field(w, "list"), key))
  BY SuccessShape
<1>8. \A key \in Keys(w) : key # "list" => ~IsObject(Field(w, key))
  BY <1>7
<1>9. IsObject(Field(v, "list")) /\ Keys(Field(v, "list")) = Keys(Field(w, "list"))
  BY <1>5, <1>6, <1>7 DEF list
<1> QED  BY <1>5, <1>7, <1>8, <1>9, TwoLevels

\* and an error those of an error.
LEMMA ErrorStructure ==
    ASSUME NEW b, IsObject(b.value), R!ParseError(b) \in ValueClasses,
           NEW code, NEW delay, NEW w, w = R!EncodeError(code, delay).value,
           delay # "" <=> "retryAfterSeconds" \in Keys(b.value)
    PROVE  SameKeys(b.value, w)
<1> DEFINE v == b.value
           required == {"errCode", "errMsg"}
           allowed == {"errCode", "errMsg", "retryAfterSeconds"}
<1>1. PICK c, d, e, f, g, h, i :
         /\ c = Unless(~Has(v, "list"), "list_on_error")
         /\ d = ExactKeys(v, required, allowed)
         /\ e = AreStrings(v, {"errMsg"})
         /\ f = Unless(Text(v, "errCode") \in R!ErrorCodes, "unknown_error_code")
         /\ g = R!DelayInRange(v)
         /\ h = Unless(Text(v, "errMsg") = Text(v, "errCode"), "semantic")
         /\ i = R!DelayPolicy(v)
  OBVIOUS
<1>2. R!ParseError(b) = FirstOf(<<c, d, e, f, g, h, i>>)
  BY <1>1, ResourceCopies DEF R!ParseError
<1>3. c \in StructureClasses /\ d \in StructureClasses
  BY <1>1, StructureChecks DEF StructureClasses
<1> HIDE DEF required, allowed
<1>4. d = Pass
  <2>1. R!ParseError(b) \notin StructureClasses
    BY NoValueClass
  <2>2. R!ParseError(b) =
              IF c # Pass THEN c ELSE IF d # Pass THEN d ELSE IF e # Pass THEN e ELSE
              IF f # Pass THEN f ELSE IF g # Pass THEN g ELSE IF h # Pass THEN h ELSE i
    <3>1. FirstOf(<<c, d, e, f, g, h, i>>) =
              IF c # Pass THEN c ELSE IF d # Pass THEN d ELSE IF e # Pass THEN e ELSE
              IF f # Pass THEN f ELSE IF g # Pass THEN g ELSE IF h # Pass THEN h ELSE i
      BY ONLY First7
    <3> QED  BY <1>2, <3>1
  <2> QED  BY <1>3, <2>1, <2>2
<1>5. Keys(v) \subseteq allowed /\ required \subseteq Keys(v)
  BY <1>1, <1>4, ExactKeysPass
<1>6. /\ IsObject(w) /\ \A k \in Keys(w) : ~IsObject(Field(w, k))
      /\ delay = "" => Keys(w) = required
      /\ delay # "" => Keys(w) = allowed
  BY ErrorShape DEF required, allowed
<1>7. Keys(v) = Keys(w)
  BY <1>5, <1>6 DEF required, allowed
<1>8. "list" \notin Keys(w)
  BY <1>6 DEF required, allowed
<1> QED  BY <1>6, <1>7, <1>8, TwoLevels

\* Either way there is a seed like it.
LEMMA ResultStructure ==
    ASSUME Introduced, gate = "resource_result", Class \in ValueClasses
    PROVE  /\ body.flaw \notin Flaws
           /\ \E seed \in Seeds[gate] :
                 seed.about = about /\ SameKeys(body.value, seed.body.value)
<1> DEFINE v == body.value
<1>1. PICK a, b, c, d :
         /\ a = RawObject(body) /\ b = Unless(Has(v, "errCode"), "missing_field")
         /\ c = AreStrings(v, {"errCode"})
         /\ d = IF R!IsSuccess(body) THEN R!ParseSuccess(body, about) ELSE R!ParseError(body)
         /\ Class = FirstOf(<<a, b, c, d>>)
  BY ResourceCopies DEF R!ParseResult, Class
<1>2. a \in StructureClasses /\ b \in StructureClasses /\ c \in StructureClasses
  BY <1>1, StructureChecks DEF StructureClasses
<1>3. a = Pass /\ d \in ValueClasses
  BY <1>1, <1>2, First4, NoValueClass
<1>4. body.flaw \notin Flaws /\ IsObject(v)
  BY <1>1, <1>3, RawObjectPass
<1>5. PICK seed \in Seeds["resource_result"] : seed.about = about
  BY DEF Introduced, BodyGateNames
<1>6. CASE R!IsSuccess(body)
  <2>1. PICK other \in Seeds["resource_result"] :
           other.about = about /\ other.body = R!EncodeSuccess(SuccessOf(other.body.value))
    BY <1>5, SeedsAssumption
  <2>2. SameKeys(v, other.body.value)
    BY <1>1, <1>3, <1>4, <1>6, <2>1, SuccessStructure
  <2> QED  BY <1>4, <2>1, <2>2
<1>7. CASE ~R!IsSuccess(body)
  <2>1. ("retryAfterSeconds" \in Keys(v)) \in BOOLEAN
    OBVIOUS
  <2>2. PICK other \in Seeds["resource_result"] :
           /\ other.about = about
           /\ other.body = R!EncodeError(Text(other.body.value, "errCode"),
                                         DelayOf(other.body.value))
           /\ "retryAfterSeconds" \in Keys(v) <=> DelayOf(other.body.value) # ""
    BY <1>5, <2>1, SeedsAssumption
  <2>3. SameKeys(v, other.body.value)
    BY <1>1, <1>3, <1>4, <1>7, <2>2, ErrorStructure
  <2> QED  BY <1>4, <2>2, <2>3
<1> QED  BY <1>6, <1>7

\* A request of an enrollment has the keys of its phase,
LEMMA AssignmentStructure ==
    ASSUME Introduced, PhaseAsked, gate = "assignment_request", Class \in ValueClasses
    PROVE  /\ body.flaw \notin Flaws
           /\ \E seed \in Seeds[gate] :
                 seed.about = about /\ SameKeys(body.value, seed.body.value)
<1> DEFINE v == body.value
           data == Field(v, "usrData")
<1>1. about \in A!Phases /\ Class = A!ClassifyRequest(about, A!RequestHeader[about], body)
  BY DEF PhaseAsked, Class
<1>2. \E list \in {A!ClassifyOTP(body), A!ClassifyRegistration(body),
                   A!ClassifyListRequest(about, body)} :
         /\ Class = FirstOf(<<Pass, list>>)
         /\ about = "assigned_cell_otp" => list = A!ClassifyOTP(body)
         /\ about = "assigned_cell_registration" => list = A!ClassifyRegistration(body)
         /\ about \notin {"assigned_cell_otp", "assigned_cell_registration"} =>
               list = A!ClassifyListRequest(about, body)
  <2>1. \A class : Unless(A!RequestHeader[about] = A!RequestHeader[about], class) = Pass
    BY DEF Unless
  <2>2. CASE about = "assigned_cell_otp"
    BY <1>1, <2>1, <2>2, AssignmentCopies DEF A!ClassifyRequest
  <2>3. CASE about = "assigned_cell_registration"
    BY <1>1, <2>1, <2>3, AssignmentCopies DEF A!ClassifyRequest
  <2>4. CASE about \notin {"assigned_cell_otp", "assigned_cell_registration"}
    BY <1>1, <2>1, <2>4, AssignmentCopies DEF A!ClassifyRequest
  <2> QED  BY <2>2, <2>3, <2>4
<1>3. PICK class : /\ class \in ValueClasses
                   /\ about = "assigned_cell_otp" => class = A!ClassifyOTP(body)
                   /\ about = "assigned_cell_registration" =>
                         class = A!ClassifyRegistration(body)
                   /\ about \notin {"assigned_cell_otp", "assigned_cell_registration"} =>
                         class = A!ClassifyListRequest(about, body)
  BY <1>2, First2
<1>4. PICK keys : keys = A!RequestKeys(about, body)
  OBVIOUS
<1>5. (\E p, q, r : class = FirstOf(<<keys, p, q, r>>))
      \/ (\E p, q, r, s : class = FirstOf(<<keys, p, q, r, s>>))
  <2>1. CASE about = "assigned_cell_otp"
    BY <1>3, <1>4, <2>1, AssignmentCopies DEF A!ClassifyOTP
  <2>2. CASE about = "assigned_cell_registration"
    BY <1>3, <1>4, <2>2, AssignmentCopies DEF A!ClassifyRegistration
  <2>3. CASE about \notin {"assigned_cell_otp", "assigned_cell_registration"}
    BY <1>3, <1>4, <2>3, AssignmentCopies DEF A!ClassifyListRequest
  <2> QED  BY <2>1, <2>2, <2>3
<1>6. keys \in StructureClasses
  <2>1. PICK p, q, r, s :
           /\ p = A!WholeBody(body) /\ q = A!Exact(v, A!OuterKeys[about])
           /\ r = A!Exact(data, A!DataKeys[about])
           /\ s = Unless(about \in A!AssignmentPhases =>
                           Field(data, "request_nonce").type = "string", "wrong_type")
    OBVIOUS
  <2>2. keys = FirstOf(<<p, q, r, s>>)
    BY <1>4, <2>1, AssignmentCopies DEF A!RequestKeys
  <2>3. "wrong_type" \in StructureClasses
    BY DEF StructureClasses
  <2>4. p \in StructureClasses /\ q \in StructureClasses /\ r \in StructureClasses
    BY <2>1, StructureChecks
  <2>5. s \in StructureClasses
    BY <2>1, <2>3, StructureChecks
  <2> QED  BY <2>2, <2>4, <2>5, Structures4
<1>7. keys = Pass
  <2>1. class # keys
    BY <1>3, <1>6, NoValueClass
  <2>2. \A p, q, r : FirstOf(<<keys, p, q, r>>) = keys \/ keys = Pass
    BY First4
  <2>3. \A p, q, r, s : FirstOf(<<keys, p, q, r, s>>) = keys \/ keys = Pass
    BY First5
  <2> QED  BY <1>5, <2>1, <2>2, <2>3
<1>8. /\ body.flaw = "none" /\ IsObject(v) /\ Keys(v) = A!OuterKeys[about]
      /\ IsObject(data) /\ Keys(data) = A!DataKeys[about]
  BY <1>4, <1>7, RequestKeysPass DEF KeysHold
<1>9. PICK seed \in Seeds["assignment_request"] : seed.about = about
  BY DEF Introduced, BodyGateNames
<1>10. seed.body.value = AssignmentEncoding(about, seed.body.value)
  BY <1>9, SeedsAssumption
<1>11. "usrData" \in A!OuterKeys[about]
  BY <1>1 DEF A!OuterKeys, A!Common
<1> DEFINE w == seed.body.value
           asked == Field(w, "usrData")
<1>12. /\ IsObject(w) /\ Keys(w) = A!OuterKeys[about]
       /\ \A k \in A!OuterKeys[about] : k # "usrData" => Field(w, k) = Str(Text(w, k))
       /\ IsObject(asked) /\ Keys(asked) = A!DataKeys[about]
       /\ \A k \in A!DataKeys[about] :
             Field(asked, k) = IF k = "version" /\ about # "assigned_cell_registration"
                               THEN Num("1") ELSE Str(Text(Field(w, "usrData"), k))
  BY <1>10, <1>11, EncodedAssignment
<1> HIDE DEF w, asked
<1>13. \A k \in Keys(w) : k # "usrData" => ~IsObject(Field(w, k))
  BY <1>12, Leaves
<1>14. \A k \in Keys(asked) : ~IsObject(Field(asked, k))
  BY <1>12, Leaves
<1>15. SameKeys(v, w)
  BY <1>8, <1>12, <1>13, <1>14, TwoLevels DEF asked
<1>16. "none" \notin Flaws
  BY DEF Flaws
<1> QED  BY <1>8, <1>9, <1>15, <1>16 DEF w

\* What decodes into a text or a number is no object.
LEMMA DecodesPlain ==
    ASSUME NEW v, NEW strings, NEW integers, A!Decodes(v, strings, integers) = Pass
    PROVE  \A k \in strings \cup integers : ~IsObject(Field(v, k))
<1>1. /\ \A k \in strings : Field(v, k).type \in {"string", "null"}
      /\ \A k \in integers : Field(v, k).type \in {"null", "number"}
  BY AssignmentCopies DEF A!Decodes, Unless, Pass
<1> QED  BY <1>1 DEF IsObject

\* The objects of an initial result.
InitialKeys(v) ==
    LET list == Field(v, "list")
        assignment == Field(list, "assignment")
    IN  /\ IsObject(v) /\ Keys(v) = {"errCode", "list"}
        /\ IsObject(list) /\ Keys(list) = A!ListKeys["initial_assignment"]
        /\ IsObject(Field(list, "registration"))
        /\ Keys(Field(list, "registration")) = A!RegistrationKeys
        /\ IsObject(assignment) /\ Keys(assignment) = A!AssignmentKeys
        /\ IsObject(Field(assignment, "nhp_udp_endpoint"))
        /\ Keys(Field(assignment, "nhp_udp_endpoint")) = A!EndpointKeys

LEMMA InitialKeysPass ==
    ASSUME NEW b
    PROVE  A!ResultKeys("initial_assignment", b) = Pass =>
              b.flaw = "none" /\ InitialKeys(b.value)
<1> DEFINE v == b.value
           list == Field(v, "list")
           assignment == Field(list, "assignment")
           endpoint == Field(assignment, "nhp_udp_endpoint")
<1>1. PICK p, q, r, s, t, e, f :
         /\ p = A!WholeBody(b) /\ q = A!Exact(v, {"errCode", "list"})
         /\ r = A!Exact(list, A!ListKeys["initial_assignment"])
         /\ s = A!Exact(Field(list, "registration"), A!RegistrationKeys)
         /\ e = A!Exact(assignment, A!AssignmentKeys)
         /\ f = A!Exact(endpoint, A!EndpointKeys)
         /\ t = FirstOf(<<e, f>>)
  OBVIOUS
<1>2. A!ResultKeys("initial_assignment", b) = FirstOf(<<p, q, r, s, t>>)
  <2>1. "initial_assignment" \in A!AssignmentPhases
    BY DEF A!AssignmentPhases
  <2> QED  BY <1>1, <2>1, AssignmentCopies DEF A!ResultKeys
<1>3. ASSUME FirstOf(<<p, q, r, s, t>>) = Pass
      PROVE  b.flaw = "none" /\ InitialKeys(v)
  <2>1. p = Pass /\ q = Pass /\ r = Pass /\ s = Pass /\ t = Pass
    BY <1>3, Passes5
  <2>2. e = Pass /\ f = Pass
    <3>1. FirstOf(<<e, f>>) = Pass
      BY <1>1, <2>1
    <3> QED  BY ONLY <3>1, Passes2
  <2>3. b.flaw = "none"
    BY <1>1, <2>1, AssignmentCopies DEF A!WholeBody, Unless, Pass
  <2>4. IsObject(v) /\ Keys(v) = {"errCode", "list"}
    BY <1>1, <2>1, ExactPass
  <2>5. IsObject(list) /\ Keys(list) = A!ListKeys["initial_assignment"]
    BY <1>1, <2>1, ExactPass
  <2>6. IsObject(Field(list, "registration"))
        /\ Keys(Field(list, "registration")) = A!RegistrationKeys
    BY <1>1, <2>1, ExactPass
  <2>7. IsObject(assignment) /\ Keys(assignment) = A!AssignmentKeys
    BY <1>1, <2>2, ExactPass
  <2>8. IsObject(endpoint) /\ Keys(endpoint) = A!EndpointKeys
    BY <1>1, <2>2, ExactPass
  <2> QED  BY <2>3, <2>4, <2>5, <2>6, <2>7, <2>8 DEF InitialKeys
<1> QED  BY <1>2, <1>3

\* The keys of a result are checked before anything else of it.
LEMMA ResultKeysStructure ==
    ASSUME NEW phase, NEW b
    PROVE  A!ResultKeys(phase, b) \in StructureClasses
<1> DEFINE v == b.value
           list == Field(v, "list")
           assignment == Field(list, "assignment")
           endpoint == Field(assignment, "nhp_udp_endpoint")
<1>1. PICK p, q, r, s, t, e, f, o :
         /\ p = A!WholeBody(b) /\ q = A!Exact(v, {"errCode", "list"})
         /\ r = A!Exact(list, A!ListKeys[phase])
         /\ s = IF phase # "initial_assignment" THEN Pass
                ELSE A!Exact(Field(list, "registration"), A!RegistrationKeys)
         /\ e = A!Exact(assignment, A!AssignmentKeys)
         /\ f = A!Exact(endpoint, A!EndpointKeys)
         /\ t = IF phase \notin A!AssignmentPhases THEN Pass ELSE FirstOf(<<e, f>>)
         /\ o = A!Exact(v, {"errCode", "aspId"})
  OBVIOUS
<1>2. /\ p \in StructureClasses /\ q \in StructureClasses /\ r \in StructureClasses
      /\ e \in StructureClasses /\ f \in StructureClasses /\ o \in StructureClasses
  BY <1>1, StructureChecks
<1>3. Pass \in StructureClasses
  BY DEF StructureClasses
<1>4. s \in StructureClasses
  BY <1>1, <1>3, StructureChecks
<1>5. t \in StructureClasses
  BY <1>1, <1>2, <1>3, Structures2
<1>6. CASE phase = "assigned_cell_registration"
  <2>1. A!ResultKeys(phase, b) = FirstOf(<<p, o>>)
    BY <1>1, <1>6, AssignmentCopies DEF A!ResultKeys
  <2> QED  BY <1>2, <2>1, Structures2
<1>7. CASE phase # "assigned_cell_registration"
  <2>1. A!ResultKeys(phase, b) = FirstOf(<<p, q, r, s, t>>)
    BY <1>1, <1>7, AssignmentCopies DEF A!ResultKeys
  <2>2. FirstOf(<<p, q, r, s, t>>) \in StructureClasses
    BY <1>2, <1>4, <1>5, First5
  <2> QED  BY <2>1, <2>2
<1> QED  BY <1>6, <1>7

\* and the scalars beside them.
LEMMA InitialPlain ==
    ASSUME NEW v, InitialKeys(v),
           NEW list, list = Field(v, "list"), A!ReadInitial(v, list) = Pass
    PROVE  /\ ~IsObject(Field(v, "errCode"))
           /\ \A j \in Keys(list) : j \notin {"registration", "assignment"} =>
                 ~IsObject(Field(list, j))
           /\ \A k \in A!RegistrationKeys : ~IsObject(Field(Field(list, "registration"), k))
           /\ \A k \in A!AssignmentKeys : k # "nhp_udp_endpoint" =>
                 ~IsObject(Field(Field(list, "assignment"), k))
<1> DEFINE assignment == Field(list, "assignment")
           registration == Field(list, "registration")
<1>1. PICK p, q, r, s, t, u :
         /\ p = Unless(Field(v, "errCode") = Str("0"), "body_parse")
         /\ q = A!Decodes(list, {"query", "mode", "agent_id", "assignment_ticket",
                                 "assignment_ticket_expires_at"}, {"version"})
         /\ r = A!Decodes(registration, A!RegistrationKeys, {})
         /\ s = A!Decodes(assignment, {"cell_id", "lease_expires_at"},
                          {"assignment_generation", "endpoint_revision"})
         /\ t = A!Decodes(Field(assignment, "nhp_udp_endpoint"),
                          {"host", "server_public_key_b64"}, {"port"})
         /\ u = Unless(A!PublicKind(registration), "semantic")
  OBVIOUS
<1>2. A!ReadInitial(v, list) = FirstOf(<<p, q, r, s, t, u>>)
  <2>1. A!Str("0") = Str("0")
    BY DEF A!Str, A!Scalar, Str, Scalar
  <2> QED  BY <1>1, <2>1, AssignmentCopies DEF A!ReadInitial
<1>3. p = Pass /\ q = Pass /\ r = Pass /\ s = Pass
  BY <1>2, First6
<1>4. ~IsObject(Field(v, "errCode"))
  BY <1>1, <1>3, Leaves DEF Unless, Pass
<1>5. \A k \in {"query", "mode", "agent_id", "assignment_ticket",
                "assignment_ticket_expires_at"} \cup {"version"} : ~IsObject(Field(list, k))
  BY <1>1, <1>3, DecodesPlain
<1>6. \A k \in A!RegistrationKeys \cup {} : ~IsObject(Field(registration, k))
  BY <1>1, <1>3, DecodesPlain
<1>7. \A k \in {"cell_id", "lease_expires_at"}
               \cup {"assignment_generation", "endpoint_revision"} :
         ~IsObject(Field(assignment, k))
  BY <1>1, <1>3, DecodesPlain
<1>8. Keys(list) = {"query", "version", "mode", "agent_id", "registration", "assignment",
                    "assignment_ticket", "assignment_ticket_expires_at"}
  BY DEF InitialKeys, A!ListKeys
<1>9. A!AssignmentKeys = {"cell_id", "assignment_generation", "endpoint_revision",
                          "lease_expires_at", "nhp_udp_endpoint"}
  BY DEF A!AssignmentKeys
<1> QED  BY <1>4, <1>5, <1>6, <1>7, <1>8, <1>9

\* Two of them have the same keys.
LEMMA InitialAlike ==
    ASSUME NEW v, NEW w, InitialKeys(v), InitialKeys(w),
           A!ReadInitial(w, Field(w, "list")) = Pass
    PROVE  SameKeys(v, w)
<1> DEFINE list == Field(w, "list")
<1>1. \A x, y : ~IsObject(y) => Alike(x, y) /\ Keys(y) = {}
  BY Leaves DEF Alike
<1>2. \A x, y : IsObject(x) /\ Keys(x) = Keys(y) => Alike(x, y)
  BY DEF Alike
<1>3. /\ ~IsObject(Field(w, "errCode"))
      /\ \A j \in Keys(list) : j \notin {"registration", "assignment"} =>
            ~IsObject(Field(list, j))
      /\ \A k \in A!RegistrationKeys : ~IsObject(Field(Field(list, "registration"), k))
      /\ \A k \in A!AssignmentKeys : k # "nhp_udp_endpoint" =>
            ~IsObject(Field(Field(list, "assignment"), k))
  BY InitialPlain
<1>4. Alike(v, w) /\ Keys(w) = {"errCode", "list"}
  BY <1>2 DEF InitialKeys
<1>5. Alike(Field(v, "list"), list)
  BY <1>2 DEF InitialKeys
<1>6. ASSUME NEW j \in Keys(list)
      PROVE  /\ Alike(Field(Field(v, "list"), j), Field(list, j))
             /\ \A k \in Keys(Field(list, j)) :
                   Alike(Field(Field(Field(v, "list"), j), k), Field(Field(list, j), k))
  <2>1. CASE j \notin {"registration", "assignment"}
    BY <1>1, <1>3, <2>1
  <2>2. CASE j = "registration"
    <3>1. Alike(Field(Field(v, "list"), j), Field(list, j))
      BY <1>2, <2>2 DEF InitialKeys
    <3>2. Keys(Field(list, j)) = A!RegistrationKeys
      BY <2>2 DEF InitialKeys
    <3> QED  BY <1>1, <1>3, <2>2, <3>1, <3>2
  <2>3. CASE j = "assignment"
    <3>1. Alike(Field(Field(v, "list"), j), Field(list, j))
      BY <1>2, <2>3 DEF InitialKeys
    <3>2. Keys(Field(list, j)) = A!AssignmentKeys
      BY <2>3 DEF InitialKeys
    <3>3. Alike(Field(Field(Field(v, "list"), j), "nhp_udp_endpoint"),
                Field(Field(list, j), "nhp_udp_endpoint"))
      BY <1>2, <2>3 DEF InitialKeys
    <3> QED  BY <1>1, <1>3, <2>3, <3>1, <3>2, <3>3
  <2> QED  BY <2>1, <2>2, <2>3
<1>7. ASSUME NEW i \in Keys(w)
      PROVE  /\ Alike(Field(v, i), Field(w, i))
             /\ \A j \in Keys(Field(w, i)) :
                   /\ Alike(Field(Field(v, i), j), Field(Field(w, i), j))
                   /\ \A k \in Keys(Field(Field(w, i), j)) :
                         Alike(Field(Field(Field(v, i), j), k), Field(Field(Field(w, i), j), k))
  <2>1. CASE i = "errCode"
    BY <1>1, <1>3, <2>1
  <2>2. CASE i = "list"
    BY <1>5, <1>6, <2>2
  <2> QED  BY <1>4, <2>1, <2>2
<1> QED  BY <1>4, <1>7 DEF SameKeys

\* An initial result whose values are judged has the keys of one.
LEMMA InitialStructure ==
    ASSUME Introduced, gate = "assignment_result", Class \in ValueClasses
    PROVE  /\ body.flaw \notin Flaws
           /\ \E seed \in Seeds[gate] :
                 seed.about = about /\ SameKeys(body.value, seed.body.value)
<1>1. \A b : \E p, q : /\ A!ClassifyResult(about, b) = FirstOf(<<p, q>>)
                       /\ p = A!ResultKeys(about, b)
                       /\ q = IF about = "initial_assignment"
                              THEN A!ReadInitial(b.value, Field(b.value, "list")) ELSE Pass
  BY AssignmentCopies DEF A!ClassifyResult
<1>2. PICK p, q : /\ Class = FirstOf(<<p, q>>) /\ p = A!ResultKeys(about, body)
                  /\ q = IF about = "initial_assignment"
                         THEN A!ReadInitial(body.value, Field(body.value, "list")) ELSE Pass
  BY <1>1 DEF Class
<1>3. p = Pass /\ Class = q
  <2>1. p \in StructureClasses
    BY <1>2, ResultKeysStructure
  <2> QED  BY <1>2, <2>1, First2, NoValueClass
<1>4. about = "initial_assignment"
  BY <1>2, <1>3, NoValueClass DEF StructureClasses
<1>5. body.flaw = "none" /\ InitialKeys(body.value)
  BY <1>2, <1>3, <1>4, InitialKeysPass
<1>6. PICK seed \in Seeds["assignment_result"] : seed.about = about
  BY DEF Introduced, BodyGateNames
<1>7. A!ClassifyResult(about, seed.body) = Pass
  BY <1>6, SeedsAssumption
<1>8. PICK x, y : /\ A!ClassifyResult(about, seed.body) = FirstOf(<<x, y>>)
                  /\ x = A!ResultKeys(about, seed.body)
                  /\ y = A!ReadInitial(seed.body.value, Field(seed.body.value, "list"))
  BY <1>1, <1>4
<1>9. x = Pass /\ y = Pass
  BY <1>7, <1>8, Passes2
<1>10. InitialKeys(seed.body.value)
  BY <1>4, <1>8, <1>9, InitialKeysPass
<1>11. SameKeys(body.value, seed.body.value)
  BY <1>5, <1>8, <1>9, <1>10, InitialAlike
<1>12. "none" \notin Flaws
  BY DEF Flaws
<1> QED  BY <1>5, <1>6, <1>11, <1>12

----------------------------------------------------------------------------
\* The inductive invariant: bodies are made of lexemes and damaged as they may be, what the
\* gate knows is of a seed, and signers and requests are known ones.
FirstIInv == Jsons /\ FlawKnown /\ PhaseAsked /\ LinkAsked /\ Introduced /\ Signer /\ Request

\* Values are judged in sound structures only.
LEMMA StructureOrdered == FlawKnown /\ PhaseAsked /\ Introduced => StructureBeforeValues
<1> SUFFICES ASSUME FlawKnown, PhaseAsked, Introduced, gate \in ExactGates,
                    Class \in ValueClasses
             PROVE  /\ body.flaw = "none"
                    /\ \E seed \in Seeds[gate] :
                          seed.about = about /\ SameKeys(body.value, seed.body.value)
  BY DEF StructureBeforeValues
<1>1. /\ body.flaw \notin Flaws
      /\ \E seed \in Seeds[gate] :
            seed.about = about /\ SameKeys(body.value, seed.body.value)
  BY RequestStructure, ResultStructure, AssignmentStructure, InitialStructure DEF ExactGates
<1>2. body.flaw = "none"
  <2>1. gate \in BodyGateNames /\ FlawsAt(gate) \subseteq Flaws
    BY DEF ExactGates, BodyGateNames, FlawsAt, Flaws
  <2> QED  BY <1>1, <2>1 DEF FlawKnown
<1> QED  BY <1>1, <1>2

(***************************************************************************)
(* The class that is reported is the first of all that is wrong: values    *)
(* are judged only in a body whose objects have the keys of a legitimate   *)
(* one, and the class of a refused link or upload is the first defect in   *)
(* the published order (connector_resource_lst_v1.go:849, schema.go:2044,  *)
(* crid_link_knock.go:1268, private_upload_v1.go:660).                     *)
(***************************************************************************)
THEOREM FirstReported == GatesSpec => []FirstDefectIsReported
<1>1. GatesInit => FirstIInv
  BY InitJsons, InitFlaw, InitPhase, InitAsked, InitIntroduced, InitSigned DEF FirstIInv
<1>2. FirstIInv /\ [GatesNext]_gateVars => FirstIInv'
  BY JsonsKept, FlawKept, PhaseKept, LinkAskedKept, IntroducedKept, SignedKept DEF FirstIInv
<1>3. FirstIInv => FirstDefectIsReported
  BY StructureOrdered, LinkOrdered, UploadOrdered DEF FirstIInv, FirstDefectIsReported
<1> QED  BY <1>1, <1>2, <1>3, PTL DEF GatesSpec
----------------------------------------------------------------------------
(***************************************************************************)
(* Readers.                                                                *)
(***************************************************************************)

\* A JSON text is made of tokens.
JsonTokens == {piece[1] : piece \in TextPieces["json"]}
JsonText == gate = "json" => body \in Seq(JsonTokens)

\* At first a text has none and repeats no key,
LEMMA InitText == GatesInit => JsonText /\ KeysAreDistinct
<1> SUFFICES ASSUME GatesInit, gate = "json" PROVE body = <<>>
  <2>1. J!Walk(<<>>).status \notin {"duplicate"}
    BY WalkNothing
  <2>2. <<>> \in Seq(JsonTokens)
    OBVIOUS
  <2> QED  BY <2>1, <2>2, WalkNothing DEF JsonText, KeysAreDistinct
<1>1. gate \notin BodyGateNames
  BY DEF BodyGateNames
<1> QED  BY <1>1, TextAssumption DEF GatesInit, BodyInit, ValueInit

\* a step adds one to a text that has not been refused,
LEMMA TextGrows ==
    ASSUME [GatesNext]_gateVars, gate = "json"
    PROVE  \/ body' = body
           \/ /\ J!Walk(body).status \in {"open", "done"}
              /\ \E token \in JsonTokens : body' = body \o <<token>>
<1>1. gate \notin BodyGateNames /\ gate \notin RecordGates /\ gate # "claims" /\ gate # "fence"
  BY DEF RecordGates, BodyGateNames
<1>2. body' = body \/ Grow
  BY <1>1 DEF GatesNext, gateVars, BodyNext, ValueNext, Change, EditClaims, EditFence
<1>3. ASSUME Grow PROVE /\ J!Walk(body).status \in {"open", "done"}
                        /\ \E token \in JsonTokens : body' = body \o <<token>>
  <2>1. Unfinished /\ \E piece \in TextPieces["json"] : body' = body \o piece
    BY <1>3 DEF Grow
  <2>2. PICK piece \in TextPieces["json"] : body' = body \o piece
    BY <2>1
  <2>3. piece = <<piece[1]>> /\ piece[1] \in JsonTokens
    BY TextAssumption DEF JsonTokens
  <2>4. body' = body \o <<piece[1]>>
    BY <2>2, <2>3
  <2> QED  BY <2>1, <2>3, <2>4 DEF Unfinished
<1> QED  BY <1>2, <1>3

\* and the walk finds in the longer one what it has.
LEMMA TextKept ==
    JsonText /\ KeysAreDistinct /\ [GatesNext]_gateVars => (JsonText /\ KeysAreDistinct)'
<1> SUFFICES ASSUME JsonText, KeysAreDistinct, [GatesNext]_gateVars
             PROVE  (JsonText /\ KeysAreDistinct)'
  OBVIOUS
<1>1. gate' = gate
  BY GateKept
<1>2. CASE gate # "json"
  BY <1>1, <1>2 DEF JsonText, KeysAreDistinct
<1>3. CASE gate = "json" /\ body' = body
  BY <1>1, <1>3 DEF JsonText, KeysAreDistinct
<1>4. CASE gate = "json" /\ body' # body
  <2>1. /\ J!Walk(body).status \in {"open", "done"}
        /\ \E token \in JsonTokens : body' = body \o <<token>>
    BY <1>4, TextGrows
  <2>2. PICK token \in JsonTokens : body' = body \o <<token>>
    BY <2>1
  <2>3. body \in Seq(JsonTokens)
    BY <1>4 DEF JsonText
  <2>4. body' \in Seq(JsonTokens)
    BY <2>2, <2>3
  <2>5. /\ J!Walk(body').status = "duplicate" => KeyRepeated(body')
        /\ J!Walk(body').status \in {"open", "done", "trailing"} => ~KeyRepeated(body')
    BY <2>1, <2>2, <2>3, RepeatedKeyIsFound
  <2> QED  BY <1>1, <1>4, <2>4, <2>5 DEF JsonText, KeysAreDistinct
<1> QED  BY <1>2, <1>3, <1>4

----------------------------------------------------------------------------
\* What the generic parser takes has a run id that is one or is empty, and no damage.
LEMMA GenericPass ==
    ASSUME NEW b, K!GenericParse(b) = Pass
    PROVE  b.flaw = "none" /\ Text(b.value, "runId") \in RunIds \cup {""}
<1>1. PICK p, q, r, s, t :
         /\ p = Unless(b.flaw = "none" /\ Keys(b.value) \subseteq K!KnockKeys, "body_parse")
         /\ q = Unless(K!Tolerated(b.value), "body_parse")
         /\ r = Unless(/\ Field(b.value, "headerType") = Num("1")
                       /\ \A k \in K!Identity : Text(b.value, k) = KnockId[k], "body_parse")
         /\ s = Unless(Field(b.value, "runId").type \in {"absent", "string"}, "body_parse")
         /\ t = Unless(Text(b.value, "runId") \in RunIds \cup {""}, "invalid_run_id")
  OBVIOUS
<1>2. K!GenericParse(b) = FirstOf(<<p, q, r, s, t>>)
  BY <1>1, KnockCopies DEF K!GenericParse
<1>3. p = Pass /\ t = Pass
  BY <1>2, Passes5
<1> QED  BY <1>1, <1>3 DEF Unless, Pass

\* The Connector asks for no more than a run.
LEMMA ConnectorIs ==
    ASSUME NEW b
    PROVE  K!ConnectorParse(b) = IF K!GenericParse(b) # Pass THEN K!GenericParse(b)
                                 ELSE Unless(Text(b.value, "runId") # "", "missing_run_id")
<1>1. PICK p, q : p = K!GenericParse(b)
       /\ q = Unless(Text(b.value, "runId") # "", "missing_run_id")
  OBVIOUS
<1>2. K!ConnectorParse(b) = FirstOf(<<p, q>>)
  BY <1>1, KnockCopies DEF K!ConnectorParse
<1>3. FirstOf(<<p, q>>) = IF p # Pass THEN p ELSE q
  BY First2
<1> QED  BY <1>1, <1>2, <1>3

\* The Connector is the stricter reader.
LEMMA Stricter == ConnectorIsStricter
<1> SUFFICES ASSUME gate = "knock_request"
             PROVE /\ K!GenericParse(body) # Pass =>
                         K!ConnectorParse(body) = K!GenericParse(body)
                   /\ K!ConnectorParse(body) = Pass => Text(body.value, "runId") \in RunIds
  BY DEF ConnectorIsStricter
<1>1. ASSUME K!ConnectorParse(body) = Pass PROVE Text(body.value, "runId") \in RunIds
  <2>1. K!GenericParse(body) = Pass
    BY <1>1, ConnectorIs
  <2>2. Text(body.value, "runId") # ""
    BY <1>1, <2>1, ConnectorIs DEF Unless, Pass
  <2> QED  BY <2>1, <2>2, GenericPass
<1> QED  BY <1>1, ConnectorIs

\* The gates for one CRID agree.
LEMMA CridAgreed == CridGatesAgree
<1> DEFINE local == L!ValueGate(body)
           asked == L!RequestGate(body)
           report == L!VersionReport(body)
<1> SUFFICES ASSUME gate = "crid"
             PROVE  /\ local # Pass =>
                          asked = local /\ report = "error" /\ ~L!KeyMatches(body, about)
                    /\ asked = Pass => report \in {"test", "production"}
                    /\ local = Pass /\ report \in {"unknown", "error"} => asked = "version"
  BY DEF CridGatesAgree
<1>1. \E a, b : a = local /\ b \in {Pass, "version"} /\ asked = FirstOf(<<a, b>>)
  BY LinkCopies DEF L!RequestGate, L!Unless, L!Pass, Pass
<1>2. /\ local # Pass => asked = local
      /\ local = Pass => asked \in {Pass, "version"}
  BY <1>1, First2
<1>3. local # Pass => report = "error" /\ ~L!KeyMatches(body, about)
  BY LinkCopies DEF L!VersionReport, L!KeyMatches
<1>4. ASSUME asked = Pass PROVE report \in {"test", "production"}
  <2>1. local = Pass /\ body.version \in {1, 129} /\ body.length = 60
    BY <1>4, RequestGatePass
  <2>2. \A row \in L!Rows(body) : row.length = 60
    <3> SUFFICES ASSUME NEW row \in L!Rows(body) PROVE row.length = 60
      OBVIOUS
    <3>1. row.version = body.version
      BY DEF L!Rows
    <3>2. row \in {L!Row(1, 60, "active"), L!Row(129, 60, "active"),
                   L!Row(2, 47, "reserved"), L!Row(130, 47, "reserved")}
      BY DEF L!Rows, L!Registry, L!FullLength, L!TruncatedLength
    <3> QED  BY <2>1, <3>1, <3>2 DEF L!Row
  <2>3. L!Rows(body) # {}
    <3>1. L!Row(1, 60, "active") \in L!Registry /\ L!Row(129, 60, "active") \in L!Registry
      BY DEF L!Registry, L!FullLength
    <3>2. L!Row(1, 60, "active").version = 1 /\ L!Row(129, 60, "active").version = 129
      BY DEF L!Row
    <3> QED  BY <2>1, <3>1, <3>2 DEF L!Rows
  <2>4. report = L!EnvironmentOf(body.version)
    BY <2>1, <2>2, <2>3, LinkCopies DEF L!VersionReport
  <2> QED  BY <2>4 DEF L!EnvironmentOf
<1> HIDE DEF local, asked, report
<1> QED  BY <1>2, <1>3, <1>4 DEF Pass

----------------------------------------------------------------------------
\* No gate takes a damaged body.
LEMMA DamageUnread == FlawKnown /\ PhaseAsked => DamageIsNeverRead
<1> SUFFICES ASSUME FlawKnown, PhaseAsked, gate \in BodyGateNames \ {"link"}, Accepted
             PROVE  body.flaw = "none"
  BY DEF DamageIsNeverRead
<1>1. CASE gate = "resource_request"
  <2>1. R!ParseRequest(body, about) = Pass
    BY <1>1 DEF Accepted, Class
  <2>2. body.flaw \notin Flaws
    BY <2>1, RequestPass DEF RequestHolds
  <2> QED  BY <1>1, <2>2 DEF FlawKnown, FlawsAt, BodyGateNames
<1>2. CASE gate = "resource_result"
  <2>1. R!ParseResult(body, about) = Pass
    BY <1>2 DEF Accepted, Class
  <2>2. body.flaw \notin Flaws
    BY <2>1, ResultPass
  <2> QED  BY <1>2, <2>2 DEF FlawKnown, FlawsAt, BodyGateNames
<1>3. CASE gate = "assignment_request"
  <2>1. A!ClassifyRequest(about, A!RequestHeader[about], body) = Pass /\ about \in A!Phases
    BY <1>3 DEF Accepted, Class, PhaseAsked
  <2>2. KeysHold(about, body)
    BY <2>1, AssignmentPass
  <2> QED  BY <2>2 DEF KeysHold
<1>4. CASE gate = "assignment_result"
  <2>1. A!ClassifyResult(about, body) = Pass
    BY <1>4 DEF Accepted, Class
  <2>2. \E rest : A!ClassifyResult(about, body) = FirstOf(<<A!ResultKeys(about, body), rest>>)
    BY AssignmentCopies DEF A!ClassifyResult
  <2>3. A!ResultKeys(about, body) = Pass
    BY <2>1, <2>2, Passes2
  <2>4. A!WholeBody(body) = Pass
    <3>1. \E p, q, r, s : A!ResultKeys(about, body) \in
             {FirstOf(<<A!WholeBody(body), p>>), FirstOf(<<A!WholeBody(body), p, q, r, s>>)}
      BY AssignmentCopies DEF A!ResultKeys
    <3> QED  BY <2>3, <3>1, Passes2, Passes5
  <2> QED  BY <2>4, AssignmentCopies DEF A!WholeBody, Unless, Pass
<1>5. CASE gate = "assignment_error"
  <2>1. A!ClassifyError(about, body) = Pass
    BY <1>5 DEF Accepted, Class
  <2>2. A!ClassifyRegistrationError(body) = Pass \/ A!ClassifyListError(body) = Pass
    BY <2>1 DEF A!ClassifyError, Pass
  <2> QED  BY <2>2, RegistrationErrorIs, ListErrorIs
<1>6. CASE gate = "knock_request"
  <2>1. K!ConnectorParse(body) = Pass
    BY <1>6 DEF Accepted, Class
  <2> QED  BY <2>1, ConnectorIs, GenericPass
<1>7. CASE gate = "knock_reply"
  <2>1. K!EnvelopeClass(body) = Pass
    BY <1>7 DEF Accepted, Class
  <2> QED  BY <2>1, EnvelopePass
<1>8. CASE gate = "key_id"
  <2>1. K!ReadKeyId(about, body) = Pass
    BY <1>8 DEF Accepted, Class
  <2>2. PICK p, q :
           /\ p = Unless(body.flaw = "none"
                         /\ Field(body.value, K!Surfaces[about]).type = "string", "body_parse")
           /\ K!ReadKeyId(about, body) = FirstOf(<<p, q>>)
    BY KnockCopies DEF K!ReadKeyId
  <2>3. p = Pass
    BY <2>1, <2>2, Passes2
  <2> QED  BY <2>2, <2>3 DEF Unless, Pass
<1> QED  BY <1>1, <1>2, <1>3, <1>4, <1>5, <1>6, <1>7, <1>8 DEF BodyGateNames

\* The inductive invariant: KeysAreDistinct needs that a text is made of tokens, since a
\* text that goes on has no repeated key, and one token adds one key at most.
ReadIInv == JsonText /\ KeysAreDistinct /\ FlawKnown /\ PhaseAsked

(***************************************************************************)
(* Two readers of one text never take it for different things: a JSON text *)
(* of any depth is refused for a repeated key exactly if one object of it  *)
(* has two, no gate of a body reads a damaged one, the Connector's parser  *)
(* is a stricter reader of a knock than the generic one, and the gates of  *)
(* a CRID agree (schema.go:3073, 3422; crid.go:485, 538).                  *)
(***************************************************************************)
THEOREM OneReading == GatesSpec => []ReadersAgree
<1>1. GatesInit => ReadIInv
  BY InitText, InitFlaw, InitPhase DEF ReadIInv
<1>2. ReadIInv /\ [GatesNext]_gateVars => ReadIInv'
  BY TextKept, FlawKept, PhaseKept DEF ReadIInv
<1>3. ReadIInv => ReadersAgree
  BY DamageUnread, Stricter, CridAgreed DEF ReadIInv, ReadersAgree
<1> QED  BY <1>1, <1>2, <1>3, PTL DEF GatesSpec
=============================================================================
