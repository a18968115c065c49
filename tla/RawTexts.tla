------------------------------ MODULE RawTexts ------------------------------
(***************************************************************************)
(* The texts that are judged as they are: JSON before it is decoded        *)
(* (StrictJson) and target paths (TargetPath).  Beside the two gates are   *)
(* the meanings that a text has: which of its strings are keys, and what   *)
(* libraries may make of a path.                                           *)
(***************************************************************************)
EXTENDS TargetPath, FiniteSets

CONSTANT DecodedEscape    \* [text of an escape -> the character it stands for]

\* A limit is a number, and a question mark is no hexadecimal digit.
ASSUME HexAssumption == MaxBytes \in Nat /\ "?" \notin Hex

J == INSTANCE StrictJson

----------------------------------------------------------------------------
\* JSON texts.

\* The objects and arrays that are open before a token, and how many that is.
Opened(text, i) == {j \in 1..(i - 1) : text[j].mark \in J!Opening}
Level(text, i) == Cardinality(Opened(text, i))
                  - Cardinality({j \in 1..(i - 1) : text[j].mark \in J!Closing})

\* The innermost of them, and 0 at the top.
Holder(text, i) ==
    LET holders == {j \in Opened(text, i) : Level(text, j) = Level(text, i) - 1}
    IN  IF Level(text, i) = 0 \/ holders = {} THEN 0
        ELSE CHOOSE j \in holders : \A k \in holders : k <= j

Members(text, h) ==
    {i \in DOMAIN text : text[i].mark \notin J!Closing /\ Holder(text, i) = h}
KeysOf(text, h) ==
    {i \in Members(text, h) : Cardinality({j \in Members(text, h) : j < i}) % 2 = 0}

\* One object of the text has two keys of one name, however spelled.
KeyRepeated(text) ==
    \E h \in {j \in DOMAIN text : text[j].mark = "{"} : \E i, k \in KeysOf(text, h) :
        /\ i # k /\ text[i].mark = "string" /\ text[k].mark = "string"
        /\ text[i].name = text[k].name

----------------------------------------------------------------------------
\* Target paths.

\* Each escape as the character it stands for, from the last position to the first.
Decoded(path) ==
    LET from[i \in 1..(Len(path) + 1)] ==
            IF i = Len(path) + 1 THEN <<>>
            ELSE IF path[i] = "%" /\ WellFormed(path, i)
                 THEN <<DecodedEscape[SubSeq(path, i + 1, i + 2)]>> \o from[i + 3]
                 ELSE <<path[i]>> \o from[i + 1]
    IN  from[1]

\* Dot segments and empty ones, but for one at the end, taken out in order.
Resolved(segments) ==
    LET first[n \in 0..Len(segments)] ==
            IF n = 0 THEN <<>>
            ELSE LET s == segments[n]
                     kept == first[n - 1]
                 IN  CASE s = <<".", ".">> -> SubSeq(kept, 1, Len(kept) - 1)
                       [] s = <<".">> \/ (s = <<>> /\ n < Len(segments)) -> kept
                       [] OTHER -> Append(kept, s)
    IN  first[Len(segments)]

\* What URL libraries may make of a path: escapes decoded, dot segments resolved,
\* repeated slashes merged.
Normalised(path) == Resolved(Tail(Segments(Decoded(path))))
=============================================================================
