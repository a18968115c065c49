------------------------------ MODULE JsonBody ------------------------------
(***************************************************************************)
(* A JSON body as the strict decoders of the application contracts see it: *)
(* the raw lexeme of a value, the defects of a body that are found before  *)
(* any field is read, and the exact object gate in front of every typed    *)
(* decode.  A classifier is an ordered list of checks, each the class it   *)
(* reports or Pass; the first one that does not pass decides.              *)
(***************************************************************************)
EXTENDS Naturals, Sequences

Pass == ""

Unless(holds, class) == IF holds THEN Pass ELSE class

\* (a slip: the checks run in the opposite order)
FirstOf_Last(checks) ==
    LET failing == {i \in 1..Len(checks) : checks[i] # Pass}
    IN  IF failing = {} THEN Pass
        ELSE checks[CHOOSE i \in failing : \A j \in failing : i >= j]

FirstOf(checks) ==
    LET failing == {i \in 1..Len(checks) : checks[i] # Pass}
    IN  IF failing = {} THEN Pass
        ELSE checks[CHOOSE i \in failing : \A j \in failing : i <= j]

----------------------------------------------------------------------------
\* Lexemes.  A scalar keeps its spelling, an object is a function on its keys.

Scalar(type, text) == [type |-> type, text |-> text]
Str(text) == Scalar("string", text)
Num(text) == Scalar("number", text)
Bool(text) == Scalar("boolean", text)
Null == Scalar("null", "null")
Absent == Scalar("absent", "")
Obj(fields) == [type |-> "object", fields |-> fields]

IsObject(v) == v.type = "object"
Keys(v) == IF IsObject(v) THEN DOMAIN v.fields ELSE {}
Field(v, key) == IF key \in Keys(v) THEN v.fields[key] ELSE Absent
Text(v, key) == IF Field(v, key).type = "string" THEN Field(v, key).text ELSE ""
Has(v, key) == key \in Keys(v)

\* The value with one key given another lexeme, or with one key taken away.
With(v, key, lexeme) ==
    Obj([k \in Keys(v) \cup {key} |-> IF k = key THEN lexeme ELSE v.fields[k]])
Without(v, key) == Obj([k \in Keys(v) \ {key} |-> v.fields[k]])

----------------------------------------------------------------------------
\* Bodies: the value, and what is wrong with the bytes around it.

Flaws == {"oversize", "utf8", "duplicate", "trailing"}
Body(value) == [flaw |-> "none", value |-> value]
Flawed(flaw, value) == [flaw |-> flaw, value |-> value]

\* The body is one complete object without a key used twice.
RawObject(body) ==
    FirstOf(<<Unless(body.flaw # "oversize", "packet_size"),
              Unless(body.flaw \notin {"utf8", "duplicate", "trailing"}, "body_parse"),
              Unless(IsObject(body.value), "wrong_type")>>)

\* Unknown keys are reported before missing ones.
ExactKeys(v, required, allowed) ==
    FirstOf(<<Unless(Keys(v) \subseteq allowed, "unknown_field"),
              Unless(required \subseteq Keys(v), "missing_field")>>)

ExactObject(body, required, allowed) ==
    FirstOf(<<RawObject(body), ExactKeys(body.value, required, allowed)>>)

AreStrings(v, keys) ==
    Unless(\A key \in keys : Field(v, key).type = "string", "wrong_type")
=============================================================================
