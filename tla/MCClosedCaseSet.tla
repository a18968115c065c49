-------------------------- MODULE MCClosedCaseSet --------------------------
\* ClosedCaseSet on every list of up to MaxCases cases.
EXTENDS ClosedCaseSet, SequencesExt

CONSTANTS a, b, x,      \* two required names and one that is not
          r, s,         \* two rows
          MaxCases      \* longest document

MCNames == {a, b, x}
MCRows == {r, s}
MCRequired == {a, b}
\* a has one admissible row (a table entry); b and x have two (a class of rows).
MCFits == (a :> {r}) @@ (b :> {r, s}) @@ (x :> {s})
MCModes == {"counted", "required", "unique", "bare"}
MCOpenModes == {"unique", "bare"}
MCDocuments == BoundedSeq(Case, MaxCases)
=============================================================================
