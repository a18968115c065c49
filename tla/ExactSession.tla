---------------------------- MODULE ExactSession ----------------------------
(***************************************************************************)
(* What the registered-agent session contract promises about sessions,     *)
(* with no packets, counters, cookies or retries: a session is granted, at *)
(* most one is held, only a session its holder asked to retire is retired, *)
(* and only a retired session is confirmed.                                *)
(***************************************************************************)
EXTENDS Naturals

CONSTANT Sessions   \* every session that can be granted; 0 is none of them

VARIABLES granted, held, asked, retired, confirmed

vars == <<granted, held, asked, retired, confirmed>>

Init == /\ granted = {} /\ held = 0
        /\ asked = {} /\ retired = {} /\ confirmed = {}

Grant(s) == /\ s \notin granted
            /\ granted' = granted \cup {s}
            /\ UNCHANGED <<held, asked, retired, confirmed>>

Hold(s) == /\ held = 0 /\ s \in granted
           /\ held' = s
           /\ UNCHANGED <<granted, asked, retired, confirmed>>

LetGo == /\ held # 0 /\ held' = 0
         /\ UNCHANGED <<granted, asked, retired, confirmed>>

Ask == /\ held # 0
       /\ asked' = asked \cup {held}
       /\ UNCHANGED <<granted, held, retired, confirmed>>

Retire(s) == /\ s \in asked
             /\ retired' = retired \cup {s}
             /\ UNCHANGED <<granted, held, asked, confirmed>>

Confirm == /\ held \in retired
           /\ confirmed' = confirmed \cup {held} /\ held' = 0
           /\ UNCHANGED <<granted, asked, retired>>

Next == \/ \E s \in Sessions : Grant(s) \/ Hold(s) \/ Retire(s)
        \/ LetGo \/ Ask \/ Confirm

Spec == Init /\ [][Next]_vars
=============================================================================
