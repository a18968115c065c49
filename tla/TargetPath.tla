----------------------------- MODULE TargetPath -----------------------------
(***************************************************************************)
(* The gate of target_path.go for the path a link opens at its target: a   *)
(* value is taken as it is, byte for byte, or refused under the class of   *)
(* the first gate it fails.  A value is a sequence of characters.          *)
(***************************************************************************)
EXTENDS JsonBody, SequencesExt

CONSTANTS MaxBytes, Allowed, ForbiddenInPath, Hex

Chars(text) == {text[i] : i \in DOMAIN text}

\* (a slip: the query begins at the last question mark)
PathPart_Last(value) ==
    IF "?" \in Chars(value)
    THEN SubSeq(value, 1, Max({i \in DOMAIN value : value[i] = "?"}) - 1) ELSE value

PathPart(value) ==
    IF "?" \in Chars(value)
    THEN SubSeq(value, 1, Min({i \in DOMAIN value : value[i] = "?"}) - 1) ELSE value

Escapes(text) == {i \in DOMAIN text : text[i] = "%"}
WellFormed(text, i) ==
    i + 2 <= Len(text) /\ text[i + 1] \in Hex /\ text[i + 2] \in Hex
Malformed(text) == \E i \in Escapes(text) : ~WellFormed(text, i)
EncodedDot(path) ==
    \E i \in Escapes(path) : WellFormed(path, i) /\ path[i + 1] = "2" /\ path[i + 2] \in {"e", "E"}

Segments(path) ==
    LET first[n \in 0..Len(path)] ==
            IF n = 0 THEN << <<>> >>
            ELSE LET before == first[n - 1]
                 IN  IF path[n] = "/" THEN Append(before, <<>>)
                     ELSE [before EXCEPT ![Len(before)] = Append(@, path[n])]
    IN  first[Len(path)]

LiteralDots(path) == \E s \in Chars(Segments(path)) : s = <<".">> \/ s = <<".", ".">>

\* (a slip: the segment before the last one is not looked at)
InteriorEmpty_Short(path) ==
    LET segments == Segments(path)
    IN  \E i \in 2..(Len(segments) - 2) : segments[i] = <<>>

\* The first segment is before the leading slash, the last may be after a trailing one.
InteriorEmpty(path) ==
    LET segments == Segments(path)
    IN  \E i \in 2..(Len(segments) - 1) : segments[i] = <<>>

\* The check that no escape of the path is cut off by its end is left out: it never
\* fires, since a question mark is no hexadecimal digit.
TargetGate(value) ==
    LET path == PathPart(value)
    IN  FirstOf(<<
          Unless(value # <<>>, "empty"),
          Unless(Len(value) <= MaxBytes, "too_long"),
          Unless(IsPrefix(<<"/">>, value), "not_absolute"),
          Unless(~IsPrefix(<<"/", "/">>, value), "authority"),
          Unless(Chars(value) \subseteq Allowed, "invalid_character"),
          Unless(Chars(path) \cap ForbiddenInPath = {}, "invalid_character"),
          Unless(~Malformed(value), "percent_encoding"),
          Unless(~EncodedDot(path), "dot_segment"),
          Unless(~LiteralDots(path), "dot_segment"),
          Unless(Escapes(path) = {} /\ ~InteriorEmpty(path), "invalid_character")>>)

\* An option that is left out opens the bare origin.
Expectation(present, value) == IF present THEN TargetGate(value) ELSE Pass
=============================================================================
