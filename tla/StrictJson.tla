----------------------------- MODULE StrictJson -----------------------------
(***************************************************************************)
(* The walk of schema.go over the tokens of an artifact or a body that     *)
(* refuses an object with a repeated key and anything after the first      *)
(* value.  Commas and colons are left out: the token reader checks them.   *)
(* A string has a name and a spelling of it, since an escape may stand for *)
(* a character.                                                            *)
(***************************************************************************)
EXTENDS Naturals, Sequences

Mark(mark) == [mark |-> mark, name |-> "", spelled |-> ""]
Quoted(name, spelled) == [mark |-> "string", name |-> name, spelled |-> spelled]

Opening == {"{", "["}
Closing == {"}", "]"}

\* An open object or array: the keys read so far, and whether a key comes next.
Frame(mark) == [mark |-> mark, seen |-> {}, key |-> mark = "{"]
Named(frame, name) == [frame EXCEPT !.seen = @ \cup {name}, !.key = FALSE]

Start == [frames |-> <<>>, status |-> "open"]
Stopped(walk, status) == [walk EXCEPT !.status = status]
Top(walk) == walk.frames[Len(walk.frames)]
Outer(walk) == SubSeq(walk.frames, 1, Len(walk.frames) - 1)

\* A value has been read to its end.
Ended(walk) ==
    IF walk.frames = <<>> THEN Stopped(walk, "done")
    ELSE [walk EXCEPT !.frames[Len(walk.frames)].key = (Top(walk).mark = "{")]

\* (a slip: one set of keys, made anew for every object)
Closed_Forgets(walk) ==
    LET outer == Outer(walk)
    IN  Ended([walk EXCEPT !.frames =
                 [i \in DOMAIN outer |-> [outer[i] EXCEPT !.seen = {}]]])

Closed(walk) == Ended([walk EXCEPT !.frames = Outer(walk)])

Value(walk, token) ==
    CASE token.mark \in Opening -> [walk EXCEPT !.frames = Append(@, Frame(token.mark))]
      [] token.mark \in Closing -> Stopped(walk, "syntax")
      [] OTHER -> Ended(walk)

Key(walk, token) ==
    CASE token.mark = "}" -> Closed(walk)
      [] token.mark = "string" /\ token.name \in Top(walk).seen ->
            Stopped(walk, "duplicate")
      [] token.mark = "string" /\ token.name \notin Top(walk).seen ->
            [walk EXCEPT !.frames[Len(walk.frames)] = Named(@, token.name)]
      [] OTHER -> Stopped(walk, "syntax")

Step(walk, token) ==
    CASE walk.status = "done" -> Stopped(walk, "trailing")
      [] walk.status \notin {"open", "done"} -> walk
      [] walk.status = "open" /\ walk.frames = <<>> -> Value(walk, token)
      [] OTHER -> IF Top(walk).key THEN Key(walk, token)
                  ELSE IF Top(walk).mark = "[" /\ token.mark = "]" THEN Closed(walk)
                  ELSE Value(walk, token)

\* "open" is a text that ends too early.
Walk(tokens) ==
    LET after[n \in 0..Len(tokens)] ==
            IF n = 0 THEN Start ELSE Step(after[n - 1], tokens[n])
    IN  after[Len(tokens)]
=============================================================================
