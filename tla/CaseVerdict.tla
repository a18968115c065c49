---------------------------- MODULE CaseVerdict ----------------------------
(***************************************************************************)
(* What a case-table loader promises, with no mention of how it scans the  *)
(* table: one atomic verdict on the whole list of cases.  ClosedCaseSet    *)
(* implements it with the loops of the Go loaders.                         *)
(***************************************************************************)
EXTENDS Naturals, Sequences

CONSTANTS Required,   \* the names the contract closes over
          Fits        \* Fits[n]: the rows the per-case check accepts under n

VARIABLES mode, cases, verdict

vars == <<mode, cases, verdict>>

Named == {cases[k].name : k \in 1..Len(cases)}

Distinct == \A j, k \in 1..Len(cases) :
               cases[j].name = cases[k].name => j = k

RowsFit == \A k \in 1..Len(cases) : cases[k].row \in Fits[cases[k].name]

(***************************************************************************)
(* The four disciplines in use.  "counted" and "required" promise the same *)
(* exact cover of the required names; "unique" and "bare" promise nothing  *)
(* about which names are there.                                            *)
(***************************************************************************)
Acceptable ==
    /\ RowsFit
    /\ mode \in {"counted", "required"} => Named = Required /\ Distinct
    /\ mode = "unique" => Distinct
    /\ mode # "counted" => cases # <<>>

Init == verdict = "pending"

Decide == /\ verdict = "pending"
          /\ verdict' = IF Acceptable THEN "accept" ELSE "reject"
          /\ UNCHANGED <<mode, cases>>

Next == Decide

Spec == Init /\ [][Next]_vars /\ WF_vars(Next)
=============================================================================
