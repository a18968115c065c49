--------------------------- MODULE ClosedCaseSet ---------------------------
(***************************************************************************)
(* The case-table loop every artifact loader of this module runs: it scans *)
(* the decoded cases once, in file order, remembering the names it has     *)
(* seen, and fails on the first case it does not like.                     *)
(*                                                                         *)
(* Four disciplines of that loop occur in the code:                        *)
(*   counted   the length is compared with the table first, there is no    *)
(*             later pass for missing names (validateNamedAssignmentCases, *)
(*             validateAgentCredentialRecoveryClosedCases, ...);           *)
(*   required  only emptiness is tested first, a last pass looks for       *)
(*             missing names (validateAgentKnockRequestCases, ...);        *)
(*   unique    names are open, only duplicates are refused                 *)
(*             (validateConformanceTransportClass);                        *)
(*   bare      names are not looked at (ParseVectorFile).                  *)
(* A case is its name and a row, the rest of its fields.  Error texts, and *)
(* so the order of the tests made on one case, are abstracted.             *)
(***************************************************************************)
EXTENDS Naturals, Sequences, FiniteSets

CONSTANTS Names,      \* every name a document may use
          Rows,       \* every content a case may have
          Required,   \* the names of the contract's table
          Fits,       \* Fits[n]: the rows the per-case check accepts under n
          Modes,      \* the disciplines modelled
          Documents   \* the decoded case lists a loader is handed

Case == [name : Names, row : Rows]

ASSUME RequiredAssumption ==
    Required \subseteq Names /\ IsFiniteSet(Required) /\ Required # {}
ASSUME FitsAssumption == Fits \in [Names -> SUBSET Rows]
ASSUME ModesAssumption == Modes \subseteq {"counted", "required", "unique", "bare"}
ASSUME DocumentsAssumption == Documents \subseteq Seq(Case)

VARIABLES mode,      \* which loader
          cases,     \* its input
          next,      \* 0 before the length gate, then the index of the next case
          seen,      \* the map "seen" of the loop
          verdict    \* pending, accept (nil error) or reject

vars == <<mode, cases, next, seen, verdict>>

TypeOK == /\ mode \in Modes
          /\ cases \in Documents
          /\ next \in 0..(Len(cases) + 1)
          /\ seen \subseteq Names
          /\ verdict \in {"pending", "accept", "reject"}

Init == /\ mode \in Modes
        /\ cases \in Documents
        /\ next = 0
        /\ seen = {}
        /\ verdict = "pending"

----------------------------------------------------------------------------
\* The tests, each with the discipline that makes it.

\* (a slip: only too many cases are refused)
LengthRefused_UpperBoundOnly == IF mode = "counted"
                                THEN Len(cases) > Cardinality(Required)
                                ELSE Len(cases) = 0

LengthRefused == IF mode = "counted" THEN Len(cases) # Cardinality(Required)
                                     ELSE Len(cases) = 0

Unknown(c) == mode \in {"counted", "required"} /\ c.name \notin Required

Duplicate(c) == mode # "bare" /\ c.name \in seen

Drifted(c) == c.row \notin Fits[c.name]

Refused(c) == Unknown(c) \/ Duplicate(c) \/ Drifted(c)

\* (a slip: no pass for the names that never came)
Incomplete_NoLastPass == FALSE

Incomplete == mode = "required" /\ ~(Required \subseteq seen)

----------------------------------------------------------------------------
Scanning == verdict = "pending" /\ next \in 1..Len(cases)

RejectLength == /\ verdict = "pending" /\ next = 0
                /\ LengthRefused
                /\ verdict' = "reject"
                /\ UNCHANGED <<mode, cases, next, seen>>

EnterLoop == /\ verdict = "pending" /\ next = 0
             /\ ~LengthRefused
             /\ next' = 1
             /\ UNCHANGED <<mode, cases, seen, verdict>>

RejectCase == /\ Scanning
              /\ Refused(cases[next])
              /\ verdict' = "reject"
              /\ UNCHANGED <<mode, cases, next, seen>>

\* (a slip: the index moves twice)
TakeCase_SkipsOne == /\ Scanning
                     /\ ~Refused(cases[next])
                     /\ seen' = seen \cup {cases[next].name}
                     /\ next' = next + 2
                     /\ UNCHANGED <<mode, cases, verdict>>

TakeCase == /\ Scanning
            /\ ~Refused(cases[next])
            /\ seen' = seen \cup {cases[next].name}
            /\ next' = next + 1
            /\ UNCHANGED <<mode, cases, verdict>>

Finish == /\ verdict = "pending" /\ next = Len(cases) + 1
          /\ verdict' = IF Incomplete THEN "reject" ELSE "accept"
          /\ UNCHANGED <<mode, cases, next, seen>>

Next == RejectLength \/ EnterLoop \/ RejectCase \/ TakeCase \/ Finish

\* A loader is one sequential function: it runs to its return.
Spec == Init /\ [][Next]_vars /\ WF_vars(Next)

----------------------------------------------------------------------------
Named == {cases[k].name : k \in 1..Len(cases)}

(***************************************************************************)
(* A document a closed loader accepts holds every required case exactly    *)
(* once and nothing else, each with a row of its table: for "counted"      *)
(* although no pass ever looks for a missing name, for "required" although *)
(* nothing ever compares lengths.                                          *)
(***************************************************************************)
AcceptedIsExactCover ==
    verdict = "accept" /\ mode \in {"counted", "required"} =>
        /\ Named = Required
        /\ Len(cases) = Cardinality(Required)
        /\ \A k \in 1..Len(cases) : cases[k].row \in Fits[cases[k].name]

(***************************************************************************)
(* The loop implements the atomic verdict: whatever the order of the cases *)
(* it accepts what the promise accepts, rejects the rest, changes its mind *)
(* about nothing and always returns.                                       *)
(***************************************************************************)
Promise == INSTANCE CaseVerdict
RefinesVerdict == Promise!Spec

(***************************************************************************)
(* README.md says of the loaders that "the contract can never silently     *)
(* drop out of a test suite": no loader accepts a document that lost a     *)
(* case of the published artifact.                                         *)
(***************************************************************************)
NoCaseDropsOut == verdict = "accept" => Required \subseteq Named
=============================================================================
