---------------------------- MODULE Replacement ----------------------------
(***************************************************************************)
(* What credential recovery promises, with no grants, packets, clocks or   *)
(* crashes: an episode records one replacement and never another, episodes *)
(* are settled in order, and an agent only ever puts a recorded secret     *)
(* into use, under the id that was recorded for it.                        *)
(***************************************************************************)
EXTENDS Naturals

CONSTANTS Agents, Fences, Candidates, None

VARIABLES recorded, inUse

Init == /\ recorded = [a \in Agents |-> [f \in Fences |-> None]]
        /\ inUse = [a \in Agents |-> None]

Record(a, f, c) ==
    /\ \A g \in Fences : g >= f => recorded[a][g] = None
    /\ recorded' = [recorded EXCEPT ![a][f] = c]
    /\ UNCHANGED inUse

Use(a, f) ==
    /\ recorded[a][f] # None
    /\ inUse' = [inUse EXCEPT ![a] = [secret |-> recorded[a][f],
                                      id |-> recorded[a][f]]]
    /\ UNCHANGED recorded

Next == \E a \in Agents, f \in Fences :
           Use(a, f) \/ \E c \in Candidates : Record(a, f, c)

Spec == Init /\ [][Next]_<<recorded, inUse>>
=============================================================================
