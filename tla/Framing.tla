------------------------------- MODULE Framing -------------------------------
(***************************************************************************)
(* The preimage that a signature or a fence digest covers: a domain, a     *)
(* zero byte, and each field behind its length.  Bytes are numbers, and a  *)
(* length of fixed width counts as one of them.                            *)
(***************************************************************************)
EXTENDS Naturals, Sequences, SequencesExt

\* (a slip: the fields follow each other without their lengths)
Framed_NoLength(domain, fields) == domain \o <<0>> \o FlattenSeq(fields)

Framed(domain, fields) ==
    domain \o <<0>> \o FlattenSeq([i \in DOMAIN fields |-> <<Len(fields[i])>> \o fields[i]])
=============================================================================
