-------------------------- MODULE MCTransportCodec --------------------------
(***************************************************************************)
(* TransportCodec with the contract scaled down in proportion: chunks of   *)
(* two bytes, three, two and one of them, the claims bound in the middle   *)
(* of the last chunk as 6144 is of 26 * 240.  23 is the longest body:      *)
(* prefix, three digits, 5 + 3 + 2 bytes and nine dots.                    *)
(***************************************************************************)
EXTENDS TransportCodec, SequencesExt

MCMaxEncodedLength == <<5, 3, 2>>
MCMaxChunks == <<3, 2, 1>>
MCPrefix == <<10>>

\* Bytes: 1 is a digit and a base64url byte, 10 a letter, 12 neither.
Values(bytes, max) == BoundedSeq(bytes, max) \ {<<>>}

MCFragments == {<<c, s, g>> : c \in Values({1, 10}, MCMaxEncodedLength[1]),
                              s \in Values({10}, MCMaxEncodedLength[2]),
                              g \in Values({1}, MCMaxEncodedLength[3])}

Encoded == {[body |-> Transport(f), origin |-> f] : f \in MCFragments}

\* Bodies nobody encoded: every header of small tokens, every list of chunks
\* around the limits.
Tokens == {<<>>, <<0>>, <<1>>, <<3>>, <<4>>, <<0, 1>>, <<1, 1>>, <<10>>}
SomeChunks == {<<>>, <<1>>, <<1, 10>>, <<12>>, <<1, 1, 1>>}
Headers == {<<p, c, s, g>> : p \in {<<10>>}, c \in Tokens, s \in {<<1>>, <<2>>},
                             g \in {<<1>>, <<2>>}}
Foreign == {[body |-> h \o chunks, origin |-> NoFragment] :
               h \in Headers, chunks \in BoundedSeq(SomeChunks, 4)}
           \cup {[body |-> h \o chunks, origin |-> NoFragment] :
                    h \in {<<<<10>>, <<3>>, <<2>>, <<1>>>>},
                    chunks \in [1..6 -> {<<1>>, <<1, 10>>}]}
           \cup {[body |-> SubSeq(h, 1, k), origin |-> NoFragment] :
                    h \in Headers, k \in 1..3}
           \cup {[body |-> <<<<1>>>> \o Tail(h), origin |-> NoFragment] : h \in Headers}
MCInputs == Encoded \cup Foreign
=============================================================================
