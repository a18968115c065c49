---------------------------- MODULE VectorProofs ----------------------------
(***************************************************************************)
(* The vectors, from the generator to the loader, for any number of        *)
(* generations, every case table and every file; and before that what the  *)
(* proofs here and in GateProofs rest on: lists of checks, framed bytes,   *)
(* loops over a text, signatures, the texts of target paths and the walk   *)
(* over a JSON text.                                                       *)
(***************************************************************************)
EXTENDS VectorPipeline, ClosedCaseSet, RawTexts, Framing, Signature, FiniteSetTheorems,
        TLAPS, NaturalsInduction, WellFoundedInduction, SequenceTheorems

(***************************************************************************)
(* Lists of checks.                                                        *)
(***************************************************************************)
\* A nonempty set of numbers has a least one.
LEMMA LeastExists ==
    ASSUME NEW S \in SUBSET Nat, S # {}
    PROVE  \E i \in S : \A j \in S : i <= j
<1> DEFINE Less == {p \in Nat \X Nat : p[1] < p[2]}
<1>1. IsWellFoundedOn(Less, Nat)
  BY NatLessThanWellFounded DEF OpToRel
<1>2. PICK i \in S : \A j \in S : ~(<<j, i>> \in Less)
  BY <1>1, WFMin
<1>3. ASSUME NEW j \in S PROVE i <= j
  <2>1. i \in Nat /\ j \in Nat
    OBVIOUS
  <2>2. ~(j < i)
    BY <1>2, <2>1
  <2> QED  BY <2>1, <2>2
<1> QED  BY <1>3

\* A list of checks passes if each of them does, and otherwise it reports one that does
\* not and has none before it that does not.
LEMMA FirstOfIs ==
    ASSUME NEW checks, Len(checks) \in Nat
    PROVE  \/ /\ FirstOf(checks) = Pass
              /\ \A i \in 1..Len(checks) : checks[i] = Pass
           \/ \E i \in 1..Len(checks) :
                 /\ FirstOf(checks) = checks[i] /\ checks[i] # Pass
                 /\ \A j \in 1..(i - 1) : checks[j] = Pass
<1> DEFINE failing == {i \in 1..Len(checks) : checks[i] # Pass}
<1>1. FirstOf(checks) = IF failing = {} THEN Pass
                        ELSE checks[CHOOSE i \in failing : \A j \in failing : i <= j]
  BY DEF FirstOf
<1>2. CASE failing = {}
  BY <1>1, <1>2
<1>3. CASE failing # {}
  <2>1. failing \in SUBSET Nat
    OBVIOUS
  <2>2. \E i \in failing : \A j \in failing : i <= j
    <3> HIDE DEF failing
    <3> QED  BY <1>3, <2>1, LeastExists
  <2>3. PICK i \in failing : FirstOf(checks) = checks[i] /\ \A j \in failing : i <= j
    <3> HIDE DEF failing
    <3> QED  BY <1>1, <1>3, <2>2
  <2>4. ASSUME NEW j \in 1..(i - 1) PROVE checks[j] = Pass
    <3>1. j \in 1..Len(checks) /\ j < i
      OBVIOUS
    <3>2. j \notin failing
      BY <2>3, <3>1
    <3> QED  BY <3>1, <3>2
  <2> QED  BY <2>3, <2>4
<1> QED  BY <1>2, <1>3

\* The same, for lists of two to ten.
LEMMA FirstOfPass ==
    ASSUME NEW checks, Len(checks) \in Nat
    PROVE  FirstOf(checks) = Pass <=> \A i \in 1..Len(checks) : checks[i] = Pass
<1>1. CASE /\ FirstOf(checks) = Pass
           /\ \A i \in 1..Len(checks) : checks[i] = Pass
  BY <1>1
<1>2. CASE \E i \in 1..Len(checks) : FirstOf(checks) = checks[i] /\ checks[i] # Pass
  BY <1>2
<1> QED  BY <1>1, <1>2, FirstOfIs

\* The check that is reported.
LEMMA Reported ==
    ASSUME NEW checks, Len(checks) \in Nat, NEW i \in 1..Len(checks), checks[i] # Pass,
           \A m \in 1..(i - 1) : checks[m] = Pass
    PROVE  FirstOf(checks) = checks[i]
<1>1. CASE FirstOf(checks) = Pass /\ \A m \in 1..Len(checks) : checks[m] = Pass
  BY <1>1
<1>2. CASE \E m \in 1..Len(checks) :
                 /\ FirstOf(checks) = checks[m] /\ checks[m] # Pass
                 /\ \A j \in 1..(m - 1) : checks[j] = Pass
  <2>1. PICK m \in 1..Len(checks) :
                 /\ FirstOf(checks) = checks[m] /\ checks[m] # Pass
                 /\ \A j \in 1..(m - 1) : checks[j] = Pass
    BY <1>2
  <2>2. ~(m < i)
    BY <2>1
  <2>3. ~(i < m)
    BY <2>1
  <2>4. m = i
    BY <2>2, <2>3
  <2> QED  BY <2>1, <2>4
<1> QED  BY <1>1, <1>2, FirstOfIs

\* A list reports its first check, or what the rest of it reports.
LEMMA FirstRest ==
    ASSUME NEW checks, NEW rest, Len(rest) \in Nat, Len(checks) = Len(rest) + 1,
           \A i \in 1..Len(rest) : rest[i] = checks[i + 1]
    PROVE  FirstOf(checks) = IF checks[1] # Pass THEN checks[1] ELSE FirstOf(rest)
<1>1. Len(checks) \in Nat /\ 1 \in 1..Len(checks)
  OBVIOUS
<1>2. CASE checks[1] # Pass
  <2>1. \A m \in 1..(1 - 1) : checks[m] = Pass
    OBVIOUS
  <2> QED  BY ONLY <1>1, <1>2, <2>1, Reported
<1>3. CASE checks[1] = Pass /\ \A i \in 1..Len(rest) : rest[i] = Pass
  <2>1. ASSUME NEW i \in 1..Len(checks) PROVE checks[i] = Pass
    <3>1. CASE i = 1
      BY <1>3, <3>1
    <3>2. CASE i # 1
      <4>1. i - 1 \in 1..Len(rest) /\ (i - 1) + 1 = i
        BY <3>2
      <4> QED  BY <1>3, <4>1
    <3> QED  BY <3>1, <3>2
  <2>2. FirstOf(checks) = Pass /\ FirstOf(rest) = Pass
    BY ONLY <1>1, <1>3, <2>1, FirstOfPass, Len(rest) \in Nat
  <2> QED  BY <1>3, <2>2
<1>4. CASE checks[1] = Pass /\ \E i \in 1..Len(rest) : rest[i] # Pass
  <2>1. FirstOf(rest) # Pass
    BY <1>4, FirstOfPass
  <2>2. PICK i \in 1..Len(rest) :
           /\ FirstOf(rest) = rest[i] /\ rest[i] # Pass
           /\ \A j \in 1..(i - 1) : rest[j] = Pass
    BY <2>1, FirstOfIs
  <2>3. i + 1 \in 1..Len(checks) /\ checks[i + 1] # Pass
    BY <2>2
  <2>4. ASSUME NEW m \in 1..((i + 1) - 1) PROVE checks[m] = Pass
    <3>1. CASE m = 1
      BY <1>4, <3>1
    <3>2. CASE m # 1
      <4>1. m - 1 \in 1..(i - 1) /\ m - 1 \in 1..Len(rest) /\ (m - 1) + 1 = m
        BY <3>2
      <4> QED  BY <2>2, <4>1
    <3> QED  BY <3>1, <3>2
  <2>5. FirstOf(checks) = checks[i + 1]
    BY ONLY <1>1, <2>3, <2>4, Reported
  <2> QED  BY <1>4, <2>2, <2>5
<1> QED  BY <1>2, <1>3, <1>4

\* A list of one.
LEMMA First1 == ASSUME NEW a PROVE FirstOf(<<a>>) = a
<1> DEFINE checks == <<a>>
<1>1. Len(checks) = 1 /\ checks[1] = a
  OBVIOUS
<1> HIDE DEF checks
<1>2. FirstOf(checks) = a
  BY <1>1, FirstOfIs
<1> QED  BY <1>2 DEF checks

\* Lists of two.
LEMMA First2 ==
    ASSUME NEW a, NEW b
    PROVE  FirstOf(<<a, b>>) =
              IF a # Pass THEN a ELSE b
<1> DEFINE checks == <<a, b>>
           rest == <<b>>
<1>1. /\ checks[1] = a /\ Len(rest) \in Nat /\ Len(checks) = Len(rest) + 1
      /\ \A at \in 1..Len(rest) : rest[at] = checks[at + 1]
  OBVIOUS
<1> HIDE DEF checks, rest
<1>2. FirstOf(checks) = IF a # Pass THEN a ELSE FirstOf(rest)
  BY ONLY <1>1, FirstRest
<1> QED  BY <1>2, First1 DEF checks, rest

\* Of three.
LEMMA First3 ==
    ASSUME NEW a, NEW b, NEW c
    PROVE  FirstOf(<<a, b, c>>) =
              IF a # Pass THEN a ELSE IF b # Pass THEN b ELSE c
<1> DEFINE checks == <<a, b, c>>
           rest == <<b, c>>
<1>1. /\ checks[1] = a /\ Len(rest) \in Nat /\ Len(checks) = Len(rest) + 1
      /\ \A at \in 1..Len(rest) : rest[at] = checks[at + 1]
  OBVIOUS
<1> HIDE DEF checks, rest
<1>2. FirstOf(checks) = IF a # Pass THEN a ELSE FirstOf(rest)
  BY ONLY <1>1, FirstRest
<1> QED  BY <1>2, First2 DEF checks, rest

\* Of four.
LEMMA First4 ==
    ASSUME NEW a, NEW b, NEW c, NEW d
    PROVE  FirstOf(<<a, b, c, d>>) =
              IF a # Pass THEN a ELSE IF b # Pass THEN b ELSE IF c # Pass THEN c ELSE
              d
<1> DEFINE checks == <<a, b, c, d>>
           rest == <<b, c, d>>
<1>1. /\ checks[1] = a /\ Len(rest) \in Nat /\ Len(checks) = Len(rest) + 1
      /\ \A at \in 1..Len(rest) : rest[at] = checks[at + 1]
  OBVIOUS
<1> HIDE DEF checks, rest
<1>2. FirstOf(checks) = IF a # Pass THEN a ELSE FirstOf(rest)
  BY ONLY <1>1, FirstRest
<1> QED  BY <1>2, First3 DEF checks, rest

\* Of five.
LEMMA First5 ==
    ASSUME NEW a, NEW b, NEW c, NEW d, NEW e
    PROVE  FirstOf(<<a, b, c, d, e>>) =
              IF a # Pass THEN a ELSE IF b # Pass THEN b ELSE IF c # Pass THEN c ELSE
              IF d # Pass THEN d ELSE e
<1> DEFINE checks == <<a, b, c, d, e>>
           rest == <<b, c, d, e>>
<1>1. /\ checks[1] = a /\ Len(rest) \in Nat /\ Len(checks) = Len(rest) + 1
      /\ \A at \in 1..Len(rest) : rest[at] = checks[at + 1]
  OBVIOUS
<1> HIDE DEF checks, rest
<1>2. FirstOf(checks) = IF a # Pass THEN a ELSE FirstOf(rest)
  BY ONLY <1>1, FirstRest
<1> QED  BY <1>2, First4 DEF checks, rest

\* Of six.
LEMMA First6 ==
    ASSUME NEW a, NEW b, NEW c, NEW d, NEW e, NEW f
    PROVE  FirstOf(<<a, b, c, d, e, f>>) =
              IF a # Pass THEN a ELSE IF b # Pass THEN b ELSE IF c # Pass THEN c ELSE
              IF d # Pass THEN d ELSE IF e # Pass THEN e ELSE f
<1> DEFINE checks == <<a, b, c, d, e, f>>
           rest == <<b, c, d, e, f>>
<1>1. /\ checks[1] = a /\ Len(rest) \in Nat /\ Len(checks) = Len(rest) + 1
      /\ \A at \in 1..Len(rest) : rest[at] = checks[at + 1]
  OBVIOUS
<1> HIDE DEF checks, rest
<1>2. FirstOf(checks) = IF a # Pass THEN a ELSE FirstOf(rest)
  BY ONLY <1>1, FirstRest
<1> QED  BY <1>2, First5 DEF checks, rest

\* Of seven.
LEMMA First7 ==
    ASSUME NEW a, NEW b, NEW c, NEW d, NEW e, NEW f, NEW g
    PROVE  FirstOf(<<a, b, c, d, e, f, g>>) =
              IF a # Pass THEN a ELSE IF b # Pass THEN b ELSE IF c # Pass THEN c ELSE
              IF d # Pass THEN d ELSE IF e # Pass THEN e ELSE IF f # Pass THEN f ELSE
              g
<1> DEFINE checks == <<a, b, c, d, e, f, g>>
           rest == <<b, c, d, e, f, g>>
<1>1. /\ checks[1] = a /\ Len(rest) \in Nat /\ Len(checks) = Len(rest) + 1
      /\ \A at \in 1..Len(rest) : rest[at] = checks[at + 1]
  OBVIOUS
<1> HIDE DEF checks, rest
<1>2. FirstOf(checks) = IF a # Pass THEN a ELSE FirstOf(rest)
  BY ONLY <1>1, FirstRest
<1> QED  BY <1>2, First6 DEF checks, rest

\* Of eight.
LEMMA First8 ==
    ASSUME NEW a, NEW b, NEW c, NEW d, NEW e, NEW f, NEW g, NEW h
    PROVE  FirstOf(<<a, b, c, d, e, f, g, h>>) =
              IF a # Pass THEN a ELSE IF b # Pass THEN b ELSE IF c # Pass THEN c ELSE
              IF d # Pass THEN d ELSE IF e # Pass THEN e ELSE IF f # Pass THEN f ELSE
              IF g # Pass THEN g ELSE h
<1> DEFINE checks == <<a, b, c, d, e, f, g, h>>
           rest == <<b, c, d, e, f, g, h>>
<1>1. /\ checks[1] = a /\ Len(rest) \in Nat /\ Len(checks) = Len(rest) + 1
      /\ \A at \in 1..Len(rest) : rest[at] = checks[at + 1]
  OBVIOUS
<1> HIDE DEF checks, rest
<1>2. FirstOf(checks) = IF a # Pass THEN a ELSE FirstOf(rest)
  BY ONLY <1>1, FirstRest
<1> QED  BY <1>2, First7 DEF checks, rest

\* Of nine.
LEMMA First9 ==
    ASSUME NEW a, NEW b, NEW c, NEW d, NEW e, NEW f, NEW g, NEW h, NEW i
    PROVE  FirstOf(<<a, b, c, d, e, f, g, h, i>>) =
              IF a # Pass THEN a ELSE IF b # Pass THEN b ELSE IF c # Pass THEN c ELSE
              IF d # Pass THEN d ELSE IF e # Pass THEN e ELSE IF f # Pass THEN f ELSE
              IF g # Pass THEN g ELSE IF h # Pass THEN h ELSE i
<1> DEFINE checks == <<a, b, c, d, e, f, g, h, i>>
           rest == <<b, c, d, e, f, g, h, i>>
<1>1. /\ checks[1] = a /\ Len(rest) \in Nat /\ Len(checks) = Len(rest) + 1
      /\ \A at \in 1..Len(rest) : rest[at] = checks[at + 1]
  OBVIOUS
<1> HIDE DEF checks, rest
<1>2. FirstOf(checks) = IF a # Pass THEN a ELSE FirstOf(rest)
  BY ONLY <1>1, FirstRest
<1> QED  BY <1>2, First8 DEF checks, rest

\* Of ten.
LEMMA First10 ==
    ASSUME NEW a, NEW b, NEW c, NEW d, NEW e, NEW f, NEW g, NEW h, NEW i,
           NEW j
    PROVE  FirstOf(<<a, b, c, d, e, f, g, h, i, j>>) =
              IF a # Pass THEN a ELSE IF b # Pass THEN b ELSE IF c # Pass THEN c ELSE
              IF d # Pass THEN d ELSE IF e # Pass THEN e ELSE IF f # Pass THEN f ELSE
              IF g # Pass THEN g ELSE IF h # Pass THEN h ELSE IF i # Pass THEN i ELSE
              j
<1> DEFINE checks == <<a, b, c, d, e, f, g, h, i, j>>
           rest == <<b, c, d, e, f, g, h, i, j>>
<1>1. /\ checks[1] = a /\ Len(rest) \in Nat /\ Len(checks) = Len(rest) + 1
      /\ \A at \in 1..Len(rest) : rest[at] = checks[at + 1]
  OBVIOUS
<1> HIDE DEF checks, rest
<1>2. FirstOf(checks) = IF a # Pass THEN a ELSE FirstOf(rest)
  BY ONLY <1>1, FirstRest
<1> QED  BY <1>2, First9 DEF checks, rest

\* Of eleven.
LEMMA First11 ==
    ASSUME NEW a, NEW b, NEW c, NEW d, NEW e, NEW f, NEW g, NEW h, NEW i,
           NEW j, NEW k
    PROVE  FirstOf(<<a, b, c, d, e, f, g, h, i, j, k>>) =
              IF a # Pass THEN a ELSE IF b # Pass THEN b ELSE IF c # Pass THEN c ELSE
              IF d # Pass THEN d ELSE IF e # Pass THEN e ELSE IF f # Pass THEN f ELSE
              IF g # Pass THEN g ELSE IF h # Pass THEN h ELSE IF i # Pass THEN i ELSE
              IF j # Pass THEN j ELSE k
<1> DEFINE checks == <<a, b, c, d, e, f, g, h, i, j, k>>
           rest == <<b, c, d, e, f, g, h, i, j, k>>
<1>1. /\ checks[1] = a /\ Len(rest) \in Nat /\ Len(checks) = Len(rest) + 1
      /\ \A at \in 1..Len(rest) : rest[at] = checks[at + 1]
  OBVIOUS
<1> HIDE DEF checks, rest
<1>2. FirstOf(checks) = IF a # Pass THEN a ELSE FirstOf(rest)
  BY ONLY <1>1, FirstRest
<1> QED  BY <1>2, First10 DEF checks, rest

\* Of twelve.
LEMMA First12 ==
    ASSUME NEW a, NEW b, NEW c, NEW d, NEW e, NEW f, NEW g, NEW h, NEW i,
           NEW j, NEW k, NEW l
    PROVE  FirstOf(<<a, b, c, d, e, f, g, h, i, j, k, l>>) =
              IF a # Pass THEN a ELSE IF b # Pass THEN b ELSE IF c # Pass THEN c ELSE
              IF d # Pass THEN d ELSE IF e # Pass THEN e ELSE IF f # Pass THEN f ELSE
              IF g # Pass THEN g ELSE IF h # Pass THEN h ELSE IF i # Pass THEN i ELSE
              IF j # Pass THEN j ELSE IF k # Pass THEN k ELSE l
<1> DEFINE checks == <<a, b, c, d, e, f, g, h, i, j, k, l>>
           rest == <<b, c, d, e, f, g, h, i, j, k, l>>
<1>1. /\ checks[1] = a /\ Len(rest) \in Nat /\ Len(checks) = Len(rest) + 1
      /\ \A at \in 1..Len(rest) : rest[at] = checks[at + 1]
  OBVIOUS
<1> HIDE DEF checks, rest
<1>2. FirstOf(checks) = IF a # Pass THEN a ELSE FirstOf(rest)
  BY ONLY <1>1, FirstRest
<1> QED  BY <1>2, First11 DEF checks, rest

\* Such lists pass if each of their checks does.
LEMMA Passes2 ==
    ASSUME NEW a, NEW b
    PROVE  FirstOf(<<a, b>>) = Pass <=>
              a = Pass /\ b = Pass
  BY First2

LEMMA Passes3 ==
    ASSUME NEW a, NEW b, NEW c
    PROVE  FirstOf(<<a, b, c>>) = Pass <=>
              a = Pass /\ b = Pass /\ c = Pass
  BY First3

LEMMA Passes4 ==
    ASSUME NEW a, NEW b, NEW c, NEW d
    PROVE  FirstOf(<<a, b, c, d>>) = Pass <=>
              a = Pass /\ b = Pass /\ c = Pass /\ d = Pass
  BY First4

LEMMA Passes5 ==
    ASSUME NEW a, NEW b, NEW c, NEW d, NEW e
    PROVE  FirstOf(<<a, b, c, d, e>>) = Pass <=>
              a = Pass /\ b = Pass /\ c = Pass /\ d = Pass /\ e = Pass
  BY First5

LEMMA Passes7 ==
    ASSUME NEW a, NEW b, NEW c, NEW d, NEW e, NEW f, NEW g
    PROVE  FirstOf(<<a, b, c, d, e, f, g>>) = Pass <=>
              /\ a = Pass /\ b = Pass /\ c = Pass /\ d = Pass /\ e = Pass /\ f = Pass
              /\ g = Pass
  BY First7

LEMMA Passes12 ==
    ASSUME NEW a, NEW b, NEW c, NEW d, NEW e, NEW f, NEW g, NEW h, NEW i,
           NEW j, NEW k, NEW l
    PROVE  FirstOf(<<a, b, c, d, e, f, g, h, i, j, k, l>>) = Pass <=>
              /\ a = Pass /\ b = Pass /\ c = Pass /\ d = Pass /\ e = Pass /\ f = Pass
              /\ g = Pass /\ h = Pass /\ i = Pass /\ j = Pass /\ k = Pass /\ l = Pass
  BY First12

----------------------------------------------------------------------------
(***************************************************************************)
(* The first of several checks, one class each.                            *)
(***************************************************************************)
\* When each check has a class of its own, the class that is reported is that of the
\* first check that does not hold.
LEMMA InOrder ==
    ASSUME NEW checks, Len(checks) \in Nat, NEW classes, NEW bad,
           \A i \in 1..Len(checks) : classes[i] # Pass,
           \A i, j \in 1..Len(checks) : classes[i] = classes[j] => i = j,
           \A i \in 1..Len(checks) :
              checks[i] = IF classes[i] \in bad THEN classes[i] ELSE Pass
    PROVE  /\ FirstOf(checks) = Pass <=> \A i \in 1..Len(checks) : classes[i] \notin bad
           /\ \A i \in 1..Len(checks) : FirstOf(checks) = classes[i] =>
                 /\ classes[i] \in bad
                 /\ \A j \in 1..(i - 1) : classes[j] \notin bad
<1>1. FirstOf(checks) = Pass <=> \A i \in 1..Len(checks) : classes[i] \notin bad
  BY FirstOfPass
<1>2. ASSUME NEW i \in 1..Len(checks), FirstOf(checks) = classes[i]
      PROVE  classes[i] \in bad /\ \A j \in 1..(i - 1) : classes[j] \notin bad
  <2>1. FirstOf(checks) # Pass
    BY <1>2
  <2>2. PICK m \in 1..Len(checks) :
                 /\ FirstOf(checks) = checks[m] /\ checks[m] # Pass
                 /\ \A j \in 1..(m - 1) : checks[j] = Pass
    BY <2>1, FirstOfIs
  <2>3. classes[m] \in bad /\ checks[m] = classes[m]
    BY <2>2
  <2>4. m = i
    BY <1>2, <2>2, <2>3
  <2>5. \A j \in 1..(m - 1) : j \in 1..Len(checks) /\ checks[j] = Pass
    BY <2>2
  <2>6. \A j \in 1..(m - 1) : classes[j] \notin bad
    BY <2>5
  <2> QED  BY <2>3, <2>4, <2>6
<1> QED  BY <1>1, <1>2

(***************************************************************************)
(* Preimages: fields behind their lengths are read in one way.             *)
(***************************************************************************)
\* What holds of 0 and climbs from a number to the next holds of all of them.
LEMMA Climb ==
    ASSUME NEW N \in Nat, NEW S, 0 \in S, \A k \in 0..N : k < N /\ k \in S => k + 1 \in S
    PROVE  \A k \in 0..N : k \in S
<1> DEFINE M == {k \in 0..N : k \notin S}
<1> SUFFICES ASSUME M # {} PROVE FALSE
  OBVIOUS
<1>1. M \in SUBSET Nat
  OBVIOUS
<1>2. PICK i \in M : \A j \in M : i <= j
  <2> HIDE DEF M
  <2> QED  BY <1>1, LeastExists
<1>3. i \in Nat /\ i # 0 /\ i <= N /\ i \notin S
  BY <1>2
<1>4. i - 1 \in 0..N /\ i - 1 < N /\ i - 1 < i
  BY <1>3
<1>5. i - 1 \in S
  BY <1>2, <1>3, <1>4
<1>6. (i - 1) + 1 = i
  BY <1>3
<1>7. (i - 1) + 1 \in S
  BY <1>4, <1>5
<1> QED  BY <1>3, <1>6, <1>7

\* One sequence after another.
LEMMA ConcatIs ==
    ASSUME NEW V, NEW s \in Seq(V), NEW t \in Seq(V)
    PROVE  /\ s \o t \in Seq(V) /\ Len(s \o t) = Len(s) + Len(t)
           /\ Len(s) \in Nat /\ Len(t) \in Nat
           /\ \A i \in 1..Len(s) : (s \o t)[i] = s[i]
           /\ \A i \in 1..Len(t) : (s \o t)[Len(s) + i] = t[i]
<1>1. Len(s) \in Nat /\ Len(t) \in Nat
  OBVIOUS
<1> QED  BY <1>1, ConcatProperties

\* Byte strings, one after another, and what the first k of them come to.
Bytes == Seq(Nat)

IsFlat(t, seqs, n) == t = [i \in 1..n |-> IF i = 1 THEN seqs[i] ELSE t[i - 1] \o seqs[i]]
Flat(seqs) == CHOOSE t : IsFlat(t, seqs, Len(seqs))
Upto(seqs, k) == IF k = 0 THEN <<>> ELSE Flat(seqs)[k]

\* The recursive definition of FlattenSeq has a solution.
LEMMA FlatExists ==
    ASSUME NEW seqs, Len(seqs) \in Nat
    PROVE  IsFlat(Flat(seqs), seqs, Len(seqs))
<1> DEFINE N == Len(seqs)
           S == {n \in 0..N : \E t : IsFlat(t, seqs, n)}
<1>1. 0 \in S
  <2> DEFINE t == [i \in 1..0 |-> 0]
  <2>1. t = [i \in 1..0 |-> IF i = 1 THEN seqs[i] ELSE t[i - 1] \o seqs[i]]
    OBVIOUS
  <2>2. IsFlat(t, seqs, 0)
    BY <2>1 DEF IsFlat
  <2> QED  BY <2>2
<1>2. \A k \in 0..N : k < N /\ k \in S => k + 1 \in S
  <2> SUFFICES ASSUME NEW n \in 0..N, n < N, n \in S PROVE n + 1 \in S
    OBVIOUS
  <2>1. PICK t : IsFlat(t, seqs, n)
    OBVIOUS
  <2> DEFINE last == IF n = 0 THEN seqs[1] ELSE t[n] \o seqs[n + 1]
             u == [i \in 1..(n + 1) |-> IF i = n + 1 THEN last ELSE t[i]]
             w == [i \in 1..(n + 1) |-> IF i = 1 THEN seqs[i] ELSE u[i - 1] \o seqs[i]]
  <2>2. n \in Nat /\ n + 1 \in 0..N
    OBVIOUS
  <2>3. \A i \in 1..n : t[i] = IF i = 1 THEN seqs[i] ELSE t[i - 1] \o seqs[i]
    BY <2>1 DEF IsFlat
  <2>4. ASSUME NEW i \in 1..(n + 1) PROVE u[i] = w[i]
    <3>1. CASE i = n + 1 /\ n = 0
      BY <2>2, <3>1
    <3>2. CASE i = n + 1 /\ n # 0
      <4>1. i - 1 = n /\ i # 1 /\ n \in 1..(n + 1) /\ n # n + 1
        BY <2>2, <3>2
      <4>2. u[i] = t[n] \o seqs[n + 1] /\ u[n] = t[n]
        BY <3>2, <4>1
      <4>3. w[i] = u[i - 1] \o seqs[i]
        BY <4>1
      <4> HIDE DEF u, w
      <4> QED  BY <3>2, <4>1, <4>2, <4>3
    <3>3. CASE i # n + 1
      <4>1. i \in 1..n
        BY <2>2, <3>3
      <4>2. i # 1 => i - 1 \in 1..(n + 1) /\ i - 1 # n + 1
        BY <2>2, <4>1
      <4>3. u[i] = t[i] /\ (i # 1 => u[i - 1] = t[i - 1])
        BY <3>3, <4>2
      <4>4. w[i] = IF i = 1 THEN seqs[i] ELSE u[i - 1] \o seqs[i]
        OBVIOUS
      <4> HIDE DEF u, w
      <4> QED  BY <2>3, <4>1, <4>3, <4>4
    <3> QED  BY <3>1, <3>2, <3>3
  <2>5. u = [i \in 1..(n + 1) |-> u[i]] /\ w = [i \in 1..(n + 1) |-> w[i]]
    OBVIOUS
  <2>6. u = w
    <3> HIDE DEF u, w
    <3> QED  BY <2>4, <2>5
  <2>7. IsFlat(u, seqs, n + 1)
    <3>1. w = [i \in 1..(n + 1) |-> IF i = 1 THEN seqs[i] ELSE u[i - 1] \o seqs[i]]
      OBVIOUS
    <3> HIDE DEF u, w
    <3> QED  BY <2>6, <3>1 DEF IsFlat
  <2> HIDE DEF u, w
  <2> QED  BY <2>2, <2>7
<1> HIDE DEF S
<1>3. \A k \in 0..N : k \in S
  BY <1>1, <1>2, Climb
<1>4. N \in 0..N
  OBVIOUS
<1>5. \E t : IsFlat(t, seqs, N)
  BY <1>3, <1>4 DEF S
<1> QED  BY <1>5 DEF Flat

\* The flattened sequence, part by part.
LEMMA UptoIs ==
    ASSUME NEW seqs \in Seq(Bytes)
    PROVE  /\ Len(seqs) \in Nat /\ Upto(seqs, 0) = <<>>
           /\ \A k \in 0..Len(seqs) : Upto(seqs, k) \in Bytes
           /\ \A k \in 0..(Len(seqs) - 1) :
                 /\ k + 1 \in 1..Len(seqs) /\ seqs[k + 1] \in Bytes
                 /\ Upto(seqs, k + 1) = Upto(seqs, k) \o seqs[k + 1]
           /\ FlattenSeq(seqs) = Upto(seqs, Len(seqs))
<1> DEFINE N == Len(seqs)
           t == Flat(seqs)
           S == {k \in 0..N : Upto(seqs, k) \in Bytes}
<1>1. N \in Nat
  OBVIOUS
<1>2. t = [i \in 1..N |-> IF i = 1 THEN seqs[i] ELSE t[i - 1] \o seqs[i]]
  BY <1>1, FlatExists DEF IsFlat
<1>3. FlattenSeq(seqs) = Upto(seqs, N)
  <2>1. CASE N = 0
    BY <2>1 DEF FlattenSeq, Upto
  <2>2. CASE N # 0
    BY <1>1, <2>2 DEF FlattenSeq, Upto, Flat, IsFlat
  <2> QED  BY <2>1, <2>2
<1> HIDE DEF t
<1>4. \A i \in 1..N : t[i] = IF i = 1 THEN seqs[i] ELSE t[i - 1] \o seqs[i]
  BY <1>2
<1>5. ASSUME NEW k \in 0..(N - 1)
      PROVE  /\ k + 1 \in 1..N /\ seqs[k + 1] \in Bytes
             /\ Upto(seqs, k) \in Bytes => Upto(seqs, k + 1) = Upto(seqs, k) \o seqs[k + 1]
  <2>1. k + 1 \in 1..N /\ k \in Nat /\ k + 1 # 0 /\ (k + 1) - 1 = k
    BY <1>1
  <2>2. seqs[k + 1] \in Bytes
    BY <2>1
  <2>3. Upto(seqs, k + 1) = t[k + 1]
    BY <2>1 DEF Upto, t
  <2>4. CASE k = 0
    <3>1. Upto(seqs, k) = <<>> /\ t[k + 1] = seqs[k + 1]
      BY <1>4, <2>1, <2>4 DEF Upto
    <3>2. <<>> \o seqs[k + 1] = seqs[k + 1]
      BY <2>2 DEF Bytes
    <3> QED  BY <2>1, <2>2, <2>3, <3>1, <3>2
  <2>5. CASE k # 0
    <3>1. Upto(seqs, k) = t[k]
      BY <2>1, <2>5 DEF Upto, t
    <3>2. t[k + 1] = IF k + 1 = 1 THEN seqs[k + 1] ELSE t[(k + 1) - 1] \o seqs[k + 1]
      BY <1>4, <2>1
    <3>3. k + 1 # 1
      BY <2>1, <2>5
    <3>4. t[k + 1] = t[(k + 1) - 1] \o seqs[k + 1]
      BY <3>2, <3>3
    <3>5. t[k + 1] = t[k] \o seqs[k + 1]
      BY <2>1, <3>4
    <3> QED  BY <2>1, <2>2, <2>3, <3>1, <3>5
  <2> QED  BY <2>4, <2>5
<1>6. 0 \in S
  BY <1>1 DEF Upto, Bytes
<1>7. \A k \in 0..N : k < N /\ k \in S => k + 1 \in S
  <2> SUFFICES ASSUME NEW k \in 0..N, k < N, k \in S PROVE k + 1 \in S
    OBVIOUS
  <2>1. k \in 0..(N - 1) /\ k + 1 \in 0..N
    BY <1>1
  <2>2. Upto(seqs, k + 1) = Upto(seqs, k) \o seqs[k + 1] /\ seqs[k + 1] \in Bytes
    BY <1>5, <2>1
  <2>3. Upto(seqs, k + 1) \in Bytes
    BY <2>2, ConcatIs DEF Bytes
  <2> QED  BY <2>1, <2>3
<1> HIDE DEF S
<1>8. \A k \in 0..N : k \in S
  BY <1>1, <1>6, <1>7, Climb
<1>9. \A k \in 0..N : Upto(seqs, k) \in Bytes
  BY <1>8 DEF S
<1>10. ASSUME NEW k \in 0..(N - 1)
       PROVE  /\ k + 1 \in 1..N /\ seqs[k + 1] \in Bytes
              /\ Upto(seqs, k + 1) = Upto(seqs, k) \o seqs[k + 1]
  <2>1. k \in 0..N
    BY <1>1
  <2> QED  BY <1>5, <1>9, <2>1
<1> QED  BY <1>1, <1>3, <1>9, <1>10 DEF Upto

\* A beginning of a sequence.
Begins(s, t) == Len(s) <= Len(t) /\ \A i \in 1..Len(s) : s[i] = t[i]

\* Each of its beginnings stays one.
LEMMA UptoBegins ==
    ASSUME NEW seqs \in Seq(Bytes), NEW k \in 0..Len(seqs)
    PROVE  Begins(Upto(seqs, k), FlattenSeq(seqs))
<1> DEFINE N == Len(seqs)
           S == {m \in 0..N : m < k \/ Begins(Upto(seqs, k), Upto(seqs, m))}
<1>1. N \in Nat /\ \A m \in 0..N : Upto(seqs, m) \in Bytes /\ Len(Upto(seqs, m)) \in Nat
  BY UptoIs DEF Bytes
<1>2. 0 \in S
  <2>1. k = 0 => Begins(Upto(seqs, k), Upto(seqs, 0))
    BY <1>1 DEF Begins
  <2> QED  BY <1>1, <2>1
<1>3. \A m \in 0..N : m < N /\ m \in S => m + 1 \in S
  <2> SUFFICES ASSUME NEW m \in 0..N, m < N, m \in S PROVE m + 1 \in S
    OBVIOUS
  <2>1. m \in 0..(N - 1) /\ m + 1 \in 0..N /\ k \in Nat
    BY <1>1
  <2> DEFINE p == Upto(seqs, m)
             x == seqs[m + 1]
             q == Upto(seqs, m + 1)
             b == Upto(seqs, k)
  <2>2. p \in Bytes /\ x \in Bytes /\ q = p \o x
    BY <2>1, UptoIs
  <2>3. Len(q) = Len(p) + Len(x) /\ Len(p) \in Nat /\ Len(x) \in Nat
        /\ \A i \in 1..Len(p) : q[i] = p[i]
    <3> HIDE DEF p, x, q
    <3> QED  BY <2>2, ConcatIs DEF Bytes
  <2>4. Len(b) \in Nat
    BY <1>1
  <2> HIDE DEF p, x, q, b
  <2>5. CASE Begins(b, p)
    <3>1. Len(b) <= Len(p) /\ Len(b) <= Len(q)
      BY <2>3, <2>4, <2>5 DEF Begins
    <3>2. \A i \in 1..Len(b) : i \in 1..Len(p)
      BY <2>3, <2>4, <3>1
    <3>3. Begins(b, q)
      BY <2>3, <2>5, <3>1, <3>2 DEF Begins
    <3> QED  BY <2>1, <3>3 DEF b, q
  <2>6. CASE m < k
    <3>1. CASE m + 1 < k
      BY <2>1, <3>1
    <3>2. CASE m + 1 = k
      <4>1. b = q
        BY <3>2 DEF b, q
      <4>2. Begins(q, q)
        BY <2>3 DEF Begins
      <4> QED  BY <2>1, <4>1, <4>2 DEF b, q
    <3> QED  BY <2>1, <2>6, <3>1, <3>2
  <2> QED  BY <2>5, <2>6 DEF b, p
<1> HIDE DEF S
<1>4. \A m \in 0..N : m \in S
  BY <1>1, <1>2, <1>3, Climb
<1>5. N \in 0..N /\ ~(N < k)
  BY <1>1
<1>6. Begins(Upto(seqs, k), Upto(seqs, N))
  BY <1>4, <1>5 DEF S
<1> QED  BY <1>6, UptoIs

\* Bytes behind bytes.
LEMMA BytesConcat ==
    ASSUME NEW s \in Bytes, NEW t \in Bytes
    PROVE  /\ s \o t \in Bytes /\ Len(s) \in Nat /\ Len(t) \in Nat
           /\ Len(s \o t) = Len(s) + Len(t)
           /\ \A i \in 1..Len(s) : (s \o t)[i] = s[i]
           /\ \A i \in 1..Len(t) : (s \o t)[Len(s) + i] = t[i]
<1>1. s \in Seq(Nat) /\ t \in Seq(Nat)
  BY DEF Bytes
<1>2. Len(s) \in Nat /\ Len(t) \in Nat
  BY <1>1
<1>3. s \o t \in Bytes
  BY <1>1, ConcatIs DEF Bytes
<1> QED  BY <1>1, <1>2, <1>3, ConcatIs

\* Each field behind its length.
Lengthened(fields) == [i \in DOMAIN fields |-> <<Len(fields[i])>> \o fields[i]]

\* What a field behind its length is.
LEMMA LengthenedIs ==
    ASSUME NEW f \in Seq(Bytes)
    PROVE  /\ Lengthened(f) \in Seq(Bytes) /\ Len(Lengthened(f)) = Len(f)
           /\ \A i \in 1..Len(f) :
                 /\ f[i] \in Bytes /\ Lengthened(f)[i] = <<Len(f[i])>> \o f[i]
                 /\ Len(Lengthened(f)[i]) = Len(f[i]) + 1 /\ Len(f[i]) \in Nat
                 /\ Lengthened(f)[i][1] = Len(f[i])
                 /\ \A j \in 1..Len(f[i]) : Lengthened(f)[i][j + 1] = f[i][j]
<1> DEFINE x == Lengthened(f)
<1>1. DOMAIN f = 1..Len(f) /\ Len(f) \in Nat /\ x = [i \in 1..Len(f) |-> <<Len(f[i])>> \o f[i]]
  BY DEF Lengthened
<1>2. ASSUME NEW i \in 1..Len(f)
      PROVE  /\ f[i] \in Bytes /\ x[i] = <<Len(f[i])>> \o f[i] /\ x[i] \in Bytes
             /\ Len(x[i]) = Len(f[i]) + 1 /\ Len(f[i]) \in Nat
             /\ x[i][1] = Len(f[i])
             /\ \A j \in 1..Len(f[i]) : x[i][j + 1] = f[i][j]
  <2> DEFINE a == <<Len(f[i])>>
             b == f[i]
  <2>1. b \in Seq(Nat) /\ Len(b) \in Nat
    BY DEF Bytes
  <2>2. a \in Seq(Nat) /\ Len(a) = 1 /\ a[1] = Len(b)
    BY <2>1
  <2>3. x[i] = a \o b
    BY <1>1
  <2> HIDE DEF a, b, x
  <2>4. /\ a \o b \in Seq(Nat) /\ Len(a \o b) = Len(a) + Len(b)
        /\ \A k \in 1..Len(a) : (a \o b)[k] = a[k]
        /\ \A k \in 1..Len(b) : (a \o b)[Len(a) + k] = b[k]
    BY <2>1, <2>2, BytesConcat DEF Bytes
  <2>5. \A k \in 1..Len(b) : Len(a) + k = k + 1
    BY <2>1, <2>2
  <2>6. /\ x[i] \in Seq(Nat) /\ Len(x[i]) = Len(b) + 1 /\ x[i][1] = Len(b)
        /\ \A k \in 1..Len(b) : x[i][k + 1] = b[k]
    BY <2>1, <2>2, <2>3, <2>4, <2>5
  <2> QED  BY <2>1, <2>3, <2>6 DEF a, b, Bytes
<1>3. x \in Seq(Bytes) /\ Len(x) = Len(f)
  <2>1. \A i \in 1..Len(f) : x[i] \in Bytes
    BY <1>2
  <2> HIDE DEF x
  <2>2. x = [i \in 1..Len(f) |-> x[i]]
    BY <1>1
  <2> QED  BY <1>1, <2>1, <2>2
<1> QED  BY <1>2, <1>3

\* Two sequences of one length that begin one sequence are equal.
LEMMA OneBeginning ==
    ASSUME NEW s \in Bytes, NEW t \in Bytes, NEW w, Begins(s, w), Begins(t, w), Len(s) = Len(t)
    PROVE  s = t
<1>1. Len(s) \in Nat /\ \A i \in 1..Len(s) : s[i] = t[i]
  BY DEF Bytes, Begins
<1> QED  BY <1>1, SeqEqual DEF Bytes

\* Lists of fields as long as each other, behind their lengths, are told apart.
LEMMA FieldsOnce ==
    ASSUME NEW f \in Seq(Bytes), NEW g \in Seq(Bytes), Len(f) = Len(g),
           FlattenSeq(Lengthened(f)) = FlattenSeq(Lengthened(g))
    PROVE  f = g
<1> DEFINE F == Lengthened(f)
           G == Lengthened(g)
           N == Len(f)
           w == FlattenSeq(F)
           S == {k \in 0..N : Upto(F, k) = Upto(G, k) /\ \A i \in 1..k : f[i] = g[i]}
<1>1. /\ N \in Nat /\ F \in Seq(Bytes) /\ G \in Seq(Bytes) /\ Len(F) = N /\ Len(G) = N
      /\ w = FlattenSeq(G)
  BY LengthenedIs
<1> HIDE DEF F, G, w
<1>2. 0 \in S
  BY <1>1, UptoIs
<1>3. \A k \in 0..N : k < N /\ k \in S => k + 1 \in S
  <2> SUFFICES ASSUME NEW k \in 0..N, k < N, k \in S PROVE k + 1 \in S
    OBVIOUS
  <2> DEFINE p == Upto(F, k)
             a == F[k + 1]
             b == G[k + 1]
             x == f[k + 1]
             y == g[k + 1]
  <2>1. k \in 0..(N - 1) /\ k + 1 \in 1..N /\ k + 1 \in 0..N /\ p = Upto(G, k)
        /\ \A i \in 1..k : f[i] = g[i]
    BY <1>1
  <2>2. p \in Bytes /\ a \in Bytes /\ b \in Bytes
        /\ Upto(F, k + 1) = p \o a /\ Upto(G, k + 1) = p \o b
    <3>1. p \in Bytes /\ a \in Bytes /\ Upto(F, k + 1) = p \o a
      BY <1>1, <2>1, UptoIs
    <3>2. b \in Bytes /\ Upto(G, k + 1) = Upto(G, k) \o b
      BY <1>1, <2>1, UptoIs
    <3> QED  BY <2>1, <3>1, <3>2
  <2>3. Begins(p \o a, w) /\ Begins(p \o b, w)
    <3>1. Begins(Upto(F, k + 1), w) /\ Begins(Upto(G, k + 1), w)
      BY <1>1, <2>1, UptoBegins DEF w
    <3> QED  BY <2>2, <3>1
  <2>4. /\ x \in Bytes /\ Len(a) = Len(x) + 1 /\ Len(x) \in Nat /\ a[1] = Len(x)
        /\ \A j \in 1..Len(x) : a[j + 1] = x[j]
    BY <2>1, LengthenedIs DEF F
  <2>5. /\ y \in Bytes /\ Len(b) = Len(y) + 1 /\ Len(y) \in Nat /\ b[1] = Len(y)
        /\ \A j \in 1..Len(y) : b[j + 1] = y[j]
    <3>1. k + 1 \in 1..Len(g)
      BY <2>1
    <3> QED  BY <3>1, LengthenedIs DEF G
  <2> HIDE DEF p, a, b, x, y
  <2>6. /\ p \o a \in Bytes /\ Len(p \o a) = Len(p) + Len(a) /\ Len(p) \in Nat
        /\ \A i \in 1..Len(a) : (p \o a)[Len(p) + i] = a[i]
    BY <2>2, ConcatIs DEF Bytes
  <2>7. /\ p \o b \in Bytes /\ Len(p \o b) = Len(p) + Len(b)
        /\ \A i \in 1..Len(b) : (p \o b)[Len(p) + i] = b[i]
    BY <2>2, ConcatIs DEF Bytes
  <2>8. a[1] = b[1]
    <3>1. Len(p) + 1 \in 1..Len(p \o a) /\ 1 \in 1..Len(a)
      BY <2>4, <2>6
    <3>2. Len(p) + 1 \in 1..Len(p \o b) /\ 1 \in 1..Len(b)
      BY <2>5, <2>6, <2>7
    <3>3. (p \o a)[Len(p) + 1] = w[Len(p) + 1] /\ (p \o b)[Len(p) + 1] = w[Len(p) + 1]
      BY <2>3, <3>1, <3>2 DEF Begins
    <3> QED  BY <2>6, <2>7, <3>1, <3>2, <3>3
  <2>9. Len(x) = Len(y) /\ Len(a) = Len(b)
    BY <2>4, <2>5, <2>8
  <2>10. p \o a = p \o b
    BY <2>3, <2>6, <2>7, <2>9, OneBeginning
  <2>11. ASSUME NEW j \in 1..Len(x) PROVE x[j] = y[j]
    <3>1. j + 1 \in 1..Len(a) /\ j + 1 \in 1..Len(b) /\ j \in 1..Len(y)
      BY <2>4, <2>5, <2>9
    <3>2. a[j + 1] = b[j + 1]
      BY <2>6, <2>7, <2>10, <3>1
    <3> QED  BY <2>4, <2>5, <3>1, <3>2
  <2>12. x = y
    BY <2>4, <2>5, <2>9, <2>11, SeqEqual DEF Bytes
  <2>13. \A i \in 1..(k + 1) : f[i] = g[i]
    <3>1. \A i \in 1..(k + 1) : i \in 1..k \/ i = k + 1
      BY <2>1
    <3> QED  BY <2>1, <2>12, <3>1 DEF x, y
  <2>14. Upto(F, k + 1) = Upto(G, k + 1)
    BY <2>2, <2>10
  <2> QED  BY <2>1, <2>13, <2>14
<1> HIDE DEF S
<1>4. \A k \in 0..N : k \in S
  BY <1>1, <1>2, <1>3, Climb
<1>5. N \in 0..N
  BY <1>1
<1>6. \A i \in 1..N : f[i] = g[i]
  BY <1>4, <1>5 DEF S
<1> QED  BY <1>6, SeqEqual

\* A zero byte ends a text without one.
Ended(text, rest) == text \o <<0>> \o rest
\* A zero byte ends a text that has none.
LEMMA ZeroEnds ==
    ASSUME NEW d \in Seq(Nat \ {0}), NEW e \in Seq(Nat \ {0}), NEW x \in Bytes,
           NEW y \in Bytes,
           Ended(d, x) = Ended(e, y)
    PROVE  d = e /\ x = y
<1> DEFINE z == <<0>>
           u == d \o z \o x
           v == e \o z \o y
<1>1. d \in Bytes /\ e \in Bytes /\ z \in Bytes /\ Len(z) = 1 /\ z[1] = 0
  BY DEF Bytes
<1>2. ASSUME NEW s \in Bytes, NEW t \in Bytes
      PROVE  /\ Len(s) \in Nat /\ Len(t) \in Nat
             /\ Len(s \o z \o t) = Len(s) + 1 + Len(t)
             /\ \A i \in 1..Len(s) : (s \o z \o t)[i] = s[i]
             /\ (s \o z \o t)[Len(s) + 1] = 0
             /\ \A i \in 1..Len(t) : (s \o z \o t)[Len(s) + 1 + i] = t[i]
  <2> DEFINE m == s \o z
  <2> HIDE DEF z
  <2>1. /\ m \in Bytes /\ Len(m) = Len(s) + 1 /\ Len(s) \in Nat
        /\ (\A i \in 1..Len(s) : m[i] = s[i]) /\ m[Len(s) + 1] = 0
    <3>1. /\ m \in Bytes /\ Len(m) = Len(s) + Len(z) /\ Len(s) \in Nat
          /\ \A i \in 1..Len(s) : m[i] = s[i]
          /\ \A i \in 1..Len(z) : m[Len(s) + i] = z[i]
      BY <1>1, BytesConcat
    <3>2. 1 \in 1..Len(z)
      BY <1>1
    <3> HIDE DEF m
    <3> QED  BY <1>1, <3>1, <3>2
  <2> HIDE DEF m
  <2>2. /\ Len(m \o t) = Len(m) + Len(t) /\ Len(t) \in Nat
        /\ \A i \in 1..Len(m) : (m \o t)[i] = m[i]
        /\ \A i \in 1..Len(t) : (m \o t)[Len(m) + i] = t[i]
    BY <2>1, BytesConcat
  <2>3. \A i \in 1..Len(s) : i \in 1..Len(m)
    BY <2>1
  <2>4. Len(s) + 1 \in 1..Len(m)
    BY <2>1
  <2>5. /\ Len(m \o t) = Len(s) + 1 + Len(t)
        /\ (\A i \in 1..Len(s) : (m \o t)[i] = s[i]) /\ (m \o t)[Len(s) + 1] = 0
        /\ \A i \in 1..Len(t) : (m \o t)[Len(s) + 1 + i] = t[i]
    BY <2>1, <2>2, <2>3, <2>4
  <2> QED  BY <2>1, <2>2, <2>5 DEF m
<1> HIDE DEF z
<1>3. ASSUME NEW s \in Seq(Nat \ {0}), NEW t \in Seq(Nat \ {0}), NEW a \in Bytes,
             NEW b \in Bytes,
             s \o z \o a = t \o z \o b, Len(s) < Len(t)
      PROVE  FALSE
  <2>1. s \in Bytes /\ t \in Bytes
    BY DEF Bytes
  <2>2. (s \o z \o a)[Len(s) + 1] = 0 /\ Len(s) \in Nat /\ Len(t) \in Nat
    BY <1>2, <2>1
  <2>3. Len(s) + 1 \in 1..Len(t)
    BY <1>3, <2>2
  <2>4. (t \o z \o b)[Len(s) + 1] = t[Len(s) + 1]
    BY <1>2, <2>1, <2>3
  <2>5. t[Len(s) + 1] # 0
    BY <2>3
  <2> QED  BY <1>3, <2>2, <2>4, <2>5
<1>4. u = v
  BY DEF z, Ended
<1>5. Len(d) \in Nat /\ Len(e) \in Nat
  OBVIOUS
<1>6. Len(d) = Len(e)
  <2>1. ~(Len(d) < Len(e)) /\ ~(Len(e) < Len(d))
    BY <1>3, <1>4
  <2> QED  BY <1>5, <2>1
<1>7. d = e
  <2>1. \A i \in 1..Len(d) : u[i] = d[i]
    BY <1>1, <1>2
  <2>2. \A i \in 1..Len(e) : v[i] = e[i]
    BY <1>1, <1>2
  <2>3. \A i \in 1..Len(d) : d[i] = e[i]
    BY <1>4, <1>6, <2>1, <2>2
  <2> QED  BY <1>1, <1>6, <2>3, SeqEqual DEF Bytes
<1>8. x = y
  <2>1. /\ Len(u) = Len(d) + 1 + Len(x) /\ Len(v) = Len(e) + 1 + Len(y)
        /\ Len(x) \in Nat /\ Len(y) \in Nat
        /\ \A i \in 1..Len(x) : u[Len(d) + 1 + i] = x[i]
        /\ \A i \in 1..Len(y) : v[Len(e) + 1 + i] = y[i]
    BY <1>1, <1>2
  <2> HIDE DEF u, v
  <2>2. Len(x) = Len(y)
    BY <1>4, <1>5, <1>6, <2>1
  <2>3. \A i \in 1..Len(x) : x[i] = y[i]
    BY <1>4, <1>5, <1>6, <2>1, <2>2
  <2> QED  BY <2>2, <2>3, SeqEqual DEF Bytes
<1> QED  BY <1>7, <1>8

----------------------------------------------------------------------------
(***************************************************************************)
(* Functions that are made from one number to the next.                    *)
(***************************************************************************)
\* A function that is defined from each number to the next exists.
Steps(g, N, V) == \A n \in 1..N : \A v \in V : g[<<n, v>>] \in V
\* A function whose values are each made from the one before.
Iterated(f, g, N, V, a) ==
    f \in [0..N -> V] /\ f[0] = a /\ \A n \in 1..N : f[n] = g[<<n, f[n - 1]>>]

\* There is one.
LEMMA Iterates ==
    ASSUME NEW N \in Nat, NEW V, NEW a \in V, NEW g, Steps(g, N, V)
    PROVE  \E f : Iterated(f, g, N, V, a)
<1> DEFINE Is(f, k) == f \in [0..k -> V] /\ f[0] = a
     /\ \A n \in 1..k : f[n] = g[<<n, f[n - 1]>>]
           S == {k \in 0..N : \E f : Is(f, k)}
<1>1. 0 \in S
  <2> DEFINE f == [n \in 0..0 |-> a]
  <2>1. Is(f, 0) /\ 0 \in 0..N
    OBVIOUS
  <2> HIDE DEF f, Is
  <2> QED  BY <2>1
<1>2. \A k \in 0..N : k < N /\ k \in S => k + 1 \in S
  <2> SUFFICES ASSUME NEW k \in 0..N, k < N, k \in S PROVE k + 1 \in S
    OBVIOUS
  <2>1. PICK f : Is(f, k)
    OBVIOUS
  <2> DEFINE v == g[<<k + 1, f[k]>>]
             h == [n \in 0..(k + 1) |-> IF n = k + 1 THEN v ELSE f[n]]
  <2>2. k + 1 \in 1..N /\ f[k] \in V
    BY <2>1
  <2>3. v \in V
    BY <2>2 DEF Steps
  <2> HIDE DEF v
  <2>4. \A n \in 0..k : h[n] = f[n] /\ f[n] \in V
    <3>1. f \in [0..k -> V]
      BY <2>1
    <3>2. \A n \in 0..k : n \in 0..(k + 1) /\ n # k + 1
      OBVIOUS
    <3>3. \A n \in 0..(k + 1) : n # k + 1 => h[n] = f[n]
      OBVIOUS
    <3> HIDE DEF h, Is
    <3> QED  BY <3>1, <3>2, <3>3
  <2>5. h[k + 1] = v
    OBVIOUS
  <2>6. h \in [0..(k + 1) -> V]
    <3>1. \A n \in 0..(k + 1) : n \in 0..k \/ n = k + 1
      OBVIOUS
    <3>2. h = [n \in 0..(k + 1) |-> h[n]]
      OBVIOUS
    <3> HIDE DEF h
    <3>3. \A n \in 0..(k + 1) : h[n] \in V
      BY <2>3, <2>4, <2>5, <3>1
    <3> QED  BY <3>2, <3>3
  <2>7. h[0] = a
    BY <2>1, <2>4
  <2> HIDE DEF h
  <2>8. \A n \in 1..(k + 1) : h[n] = g[<<n, h[n - 1]>>]
    <3> SUFFICES ASSUME NEW n \in 1..(k + 1) PROVE h[n] = g[<<n, h[n - 1]>>]
      OBVIOUS
    <3>1. CASE n = k + 1
      <4>1. n - 1 = k /\ k \in 0..k
        BY <3>1
      <4>2. h[n - 1] = f[k]
        BY <2>4, <4>1
      <4> QED  BY <2>5, <3>1, <4>2 DEF v
    <3>2. CASE n # k + 1
      <4>1. n \in 1..k /\ n \in 0..k /\ n - 1 \in 0..k
        BY <3>2
      <4>2. h[n] = f[n] /\ h[n - 1] = f[n - 1]
        BY <2>4, <4>1
      <4>3. f[n] = g[<<n, f[n - 1]>>]
        BY <2>1, <4>1
      <4> QED  BY <4>2, <4>3
    <3> QED  BY <3>1, <3>2
  <2>9. Is(h, k + 1)
    BY <2>6, <2>7, <2>8
  <2> QED  BY <2>2, <2>9
<1> HIDE DEF S
<1>3. N \in S
  BY <1>1, <1>2, Climb
<1> QED  BY <1>3 DEF S, Iterated

----------------------------------------------------------------------------
(***************************************************************************)
(* Signatures.                                                             *)
(***************************************************************************)
\* A half of the group is a whole number, and the order is one more than two of them.
LEMMA Halves == Order \in Nat /\ Half \in Nat /\ Order = 2 * Half + 1 /\ Half >= 1
BY OrderAssumption DEF Half

\* Exactly one of two twins is low, and LowS is that one.
LEMMA LowTwin ==
    ASSUME NEW s \in Scalars
    PROVE  /\ LowS(s) \in Scalars /\ LowS(s) <= Half
           /\ LowS(s) \in {s, Order - s}
           /\ LowS(Order - s) = LowS(s) /\ LowS(LowS(s)) = LowS(s)
           /\ s <= Half <=> ~(Order - s <= Half)
BY Halves DEF LowS, Scalars

\* The checks of a signature are its four conditions, and only the last depends on the
\* message.
LEMMA VerifyIs ==
    ASSUME NEW x, NEW message
    PROVE  /\ VerifySignature(x, message) = Pass <=>
                 x.canonical /\ InRange(x) /\ x.s <= Half /\ Verifies(x, message)
           /\ x.canonical /\ InRange(x) /\ x.s <= Half =>
                 VerifySignature(x, message)
                   = Unless(Verifies(x, message), "signature_mismatch")
<1>1. VerifySignature(x, message) =
         FirstOf(<<Unless(x.canonical, "signature_encoding"),
                   Unless(InRange(x), "signature_scalar"),
                   Unless(x.s <= Half, "signature_malleability"),
                   Unless(Verifies(x, message), "signature_mismatch")>>)
  BY DEF VerifySignature
<1>2. PICK a, b, c, d : /\ a = Unless(x.canonical, "signature_encoding")
                        /\ b = Unless(InRange(x), "signature_scalar")
                        /\ c = Unless(x.s <= Half, "signature_malleability")
                        /\ d = Unless(Verifies(x, message), "signature_mismatch")
  OBVIOUS
<1>3. /\ a = Pass <=> x.canonical
      /\ b = Pass <=> InRange(x)
      /\ c = Pass <=> x.s <= Half
      /\ d = Pass <=> Verifies(x, message)
  BY <1>2 DEF Unless, Pass
<1>4. FirstOf(<<a, b, c, d>>) =
         IF a # Pass THEN a ELSE IF b # Pass THEN b ELSE IF c # Pass THEN c ELSE d
  BY First4
<1> QED  BY <1>1, <1>2, <1>3, <1>4

----------------------------------------------------------------------------
\* What a signer computed, in its canonical encoding, is normalised to a signature that
\* a client accepts, whichever twin it was.
THEOREM NormalisedIsAccepted ==
    ASSUME NEW message, NEW r \in Scalars, NEW s \in Scalars
    PROVE  LET raw == DerToRaw(Signed(message, r, s))
           IN  Len(raw) = 1 /\ VerifySignature(raw[1], message) = Pass
<1>1. PICK d : d = Signed(message, r, s)
  OBVIOUS
<1>2. d.canonical = TRUE /\ d.r = r /\ d.s = s
  BY <1>1 DEF Signed
<1>3. PICK x : x = [d EXCEPT !.s = LowS(@)]
  OBVIOUS
<1>4. /\ x.canonical = TRUE /\ x.r = r /\ x.s = LowS(s)
      /\ x.by.message = message /\ x.by.r = r /\ x.by.s = s
  BY <1>1, <1>3 DEF Signed
<1>5. DerToRaw(d) = <<x>>
  BY <1>2, <1>3 DEF DerToRaw, InRange
<1>6. InRange(x) /\ x.s <= Half
  BY <1>4, LowTwin DEF InRange
<1>7. Verifies(x, message)
  BY <1>4, LowTwin DEF Verifies
<1>8. VerifySignature(x, message) = Pass
  BY <1>4, <1>6, <1>7, VerifyIs
<1> QED
  BY <1>1, <1>5, <1>8

\* Of all that can be made of one result of a signer, a client accepts one pair of
\* numbers: a signature cannot be respelled as another that verifies.
THEOREM OneTwinAccepted ==
    ASSUME NEW x, NEW y, NEW message, x.by = y.by, x.by.s \in Scalars,
           VerifySignature(x, message) = Pass, VerifySignature(y, message) = Pass
    PROVE  x.r = y.r /\ x.s = y.s
<1>1. /\ InRange(x) /\ x.s <= Half /\ Verifies(x, message)
      /\ InRange(y) /\ y.s <= Half /\ Verifies(y, message)
  BY VerifyIs
<1>2. x.r = y.r
  BY <1>1 DEF Verifies
<1>3. x.s \in {x.by.s, Order - x.by.s} /\ y.s \in {x.by.s, Order - x.by.s}
  BY <1>1 DEF Verifies
<1>4. x.s = y.s
  BY <1>1, <1>3, LowTwin DEF InRange
<1> QED
  BY <1>2, <1>4

----------------------------------------------------------------------------
(***************************************************************************)
(* Target paths.                                                           *)
(***************************************************************************)
\* The path part is what is before the first question mark.
Split(v, n) == /\ n \in 0..Len(v) /\ \A j \in 1..n : v[j] # "?"
               /\ n < Len(v) => v[n + 1] = "?"

\* The path ends before the first question mark, and there is one such place.
LEMMA PathPartIs ==
    ASSUME NEW C, NEW v \in Seq(C)
    PROVE  /\ \E n : Split(v, n) /\ PathPart(v) = SubSeq(v, 1, n)
           /\ \A m, n : Split(v, m) /\ Split(v, n) => m = n
<1>1. Len(v) \in Nat /\ DOMAIN v = 1..Len(v)
  OBVIOUS
<1>2. ASSUME NEW m, NEW n, Split(v, m), Split(v, n) PROVE m = n
  <2>1. m \in Nat /\ n \in Nat /\ m <= Len(v) /\ n <= Len(v)
    BY <1>1, <1>2 DEF Split
  <2>2. ~(m < n)
    <3> SUFFICES ASSUME m < n PROVE FALSE
      OBVIOUS
    <3>1. m < Len(v) /\ m + 1 \in 1..n
      BY <1>1, <2>1
    <3> QED  BY <1>2, <3>1 DEF Split
  <2>3. ~(n < m)
    <3> SUFFICES ASSUME n < m PROVE FALSE
      OBVIOUS
    <3>1. n < Len(v) /\ n + 1 \in 1..m
      BY <1>1, <2>1
    <3> QED  BY <1>2, <3>1 DEF Split
  <2> QED  BY <2>1, <2>2, <2>3
<1>3. CASE "?" \notin Chars(v)
  <2>1. PathPart(v) = v
    BY <1>3 DEF PathPart
  <2>2. \A j \in 1..Len(v) : v[j] # "?"
    BY <1>1, <1>3 DEF Chars
  <2>3. Split(v, Len(v))
    BY <1>1, <2>2 DEF Split
  <2>4. SubSeq(v, 1, Len(v)) = v
    OBVIOUS
  <2> QED  BY <1>2, <2>1, <2>3, <2>4
<1>4. CASE "?" \in Chars(v)
  <2> DEFINE M == {i \in DOMAIN v : v[i] = "?"}
  <2>1. PathPart(v) = SubSeq(v, 1, Min(M) - 1)
    BY <1>4 DEF PathPart
  <2>2. M # {} /\ M \in SUBSET Nat
    BY <1>1, <1>4 DEF Chars
  <2>3. Min(M) \in M /\ \A j \in M : Min(M) <= j
    <3> HIDE DEF M
    <3>1. \E i \in M : \A j \in M : i <= j
      BY <2>2, LeastExists
    <3> QED  BY <3>1 DEF Min
  <2> DEFINE n == Min(M)
  <2>4. n \in 1..Len(v) /\ v[n] = "?" /\ \A j \in 1..Len(v) : v[j] = "?" => n <= j
    BY <1>1, <2>3
  <2> HIDE DEF n
  <2>5. n - 1 \in 0..Len(v) /\ (n - 1) + 1 = n
    BY <1>1, <2>4
  <2>6. \A j \in 1..(n - 1) : v[j] # "?"
    BY <1>1, <2>4
  <2>7. Split(v, n - 1)
    BY <2>4, <2>5, <2>6 DEF Split
  <2> QED  BY <1>2, <2>1, <2>7 DEF n
<1> QED  BY <1>3, <1>4

\* What the gate asks of a target path.
LEMMA GatePass ==
    ASSUME NEW v, TargetGate(v) = Pass
    PROVE  /\ ~LiteralDots(PathPart(v)) /\ Escapes(PathPart(v)) = {}
           /\ ~InteriorEmpty(PathPart(v))
<1> DEFINE path == PathPart(v)
           checks == <<
          Unless(v # <<>>, "empty"),
          Unless(Len(v) <= MaxBytes, "too_long"),
          Unless(IsPrefix(<<"/">>, v), "not_absolute"),
          Unless(~IsPrefix(<<"/", "/">>, v), "authority"),
          Unless(Chars(v) \subseteq Allowed, "invalid_character"),
          Unless(Chars(path) \cap ForbiddenInPath = {}, "invalid_character"),
          Unless(~Malformed(v), "percent_encoding"),
          Unless(~EncodedDot(path), "dot_segment"),
          Unless(~LiteralDots(path), "dot_segment"),
          Unless(Escapes(path) = {} /\ ~InteriorEmpty(path), "invalid_character")>>
<1>1. TargetGate(v) = FirstOf(checks) /\ Len(checks) = 10
  BY DEF TargetGate
<1>2. /\ checks[9] = Pass => ~LiteralDots(path)
      /\ checks[10] = Pass => Escapes(path) = {} /\ ~InteriorEmpty(path)
  BY DEF Unless, Pass
<1> HIDE DEF checks
<1>3. FirstOf(checks) = Pass /\ Len(checks) \in Nat
  BY <1>1
<1>4. \A i \in 1..Len(checks) : checks[i] = Pass
  BY <1>3, FirstOfPass
<1>5. checks[9] = Pass /\ checks[10] = Pass
  BY <1>1, <1>4
<1> QED  BY <1>2, <1>5

----------------------------------------------------------------------------
\* The recursion of Decoded.
IsDecoding(f, path) ==
    f = [i \in 1..(Len(path) + 1) |->
            IF i = Len(path) + 1 THEN <<>>
            ELSE IF path[i] = "%" /\ WellFormed(path, i)
                 THEN <<DecodedEscape[SubSeq(path, i + 1, i + 2)]>> \o f[i + 3]
                 ELSE <<path[i]>> \o f[i + 1]]

\* A path without an escape is its own decoding.
LEMMA DecodedIs ==
    ASSUME NEW C, NEW path \in Seq(C), Escapes(path) = {}
    PROVE  Decoded(path) = path
<1> DEFINE N == Len(path)
           rest(i) == SubSeq(path, i, N)
           g == [i \in 1..(N + 1) |-> rest(i)]
           f == CHOOSE f : IsDecoding(f, path)
<1>1. N \in Nat /\ \A i \in 1..N : path[i] # "%" /\ path[i] \in C
  BY DEF Escapes
<1>2. rest(N + 1) = <<>> /\ rest(1) = path
  BY <1>1
<1>3. ASSUME NEW i \in 1..N PROVE rest(i) = <<path[i]>> \o rest(i + 1)
  <2>1. /\ rest(i) \in Seq(C) /\ Len(rest(i)) = N - i + 1
        /\ \A j \in 1..(N - i + 1) : rest(i)[j] = path[i + j - 1]
    BY <1>1
  <2>2. /\ rest(i + 1) \in Seq(C) /\ Len(rest(i + 1)) = N - i
        /\ \A j \in 1..(N - i) : rest(i + 1)[j] = path[i + j]
    BY <1>1
  <2> DEFINE x == <<path[i]>>
             y == rest(i + 1)
  <2>3. x \in Seq(C) /\ Len(x) = 1 /\ x[1] = path[i]
    BY <1>1
  <2>4. i \in Nat
    OBVIOUS
  <2> HIDE DEF x, y, rest
  <2>5. /\ x \o y \in Seq(C) /\ Len(x \o y) = 1 + (N - i)
        /\ (x \o y)[1] = x[1] /\ \A j \in 1..(N - i) : (x \o y)[1 + j] = y[j]
    <3>1. y \in Seq(C) /\ Len(y) = N - i
      BY <2>2 DEF y
    <3>2. 1 \in 1..Len(x)
      BY <2>3
    <3>3. /\ x \o y \in Seq(C) /\ Len(x \o y) = Len(x) + Len(y)
          /\ \A j \in 1..Len(x) : (x \o y)[j] = x[j]
          /\ \A j \in 1..Len(y) : (x \o y)[Len(x) + j] = y[j]
      <4>1. x \in Seq(C) /\ y \in Seq(C)
        BY <2>3, <3>1
      <4> QED  BY ONLY <4>1, ConcatIs
    <3>4. (x \o y)[1] = x[1]
      BY <3>2, <3>3
    <3>5. \A j \in 1..(N - i) : (x \o y)[1 + j] = y[j]
      BY <2>3, <3>1, <3>3
    <3> QED  BY <2>3, <3>1, <3>3, <3>4, <3>5
  <2>6. ASSUME NEW j \in 1..(N - i + 1) PROVE rest(i)[j] = (x \o y)[j]
    <3>1. CASE j = 1
      <4>1. i + j - 1 = i
        BY <2>4, <3>1
      <4>2. rest(i)[j] = path[i]
        BY <2>1, <4>1
      <4>3. (x \o y)[j] = path[i]
        BY <2>3, <2>5, <3>1
      <4> QED  BY <4>2, <4>3
    <3>2. CASE j # 1
      <4>1. j - 1 \in 1..(N - i) /\ 1 + (j - 1) = j /\ i + (j - 1) = i + j - 1
        BY <1>1, <2>4, <3>2
      <4>2. (x \o y)[j] = y[j - 1]
        BY <2>5, <4>1
      <4>3. y[j - 1] = path[i + j - 1]
        BY <2>2, <4>1 DEF y
      <4> QED  BY <2>1, <4>2, <4>3
    <3> QED  BY <3>1, <3>2
  <2>7. Len(rest(i)) = Len(x \o y)
    BY <1>1, <2>1, <2>4, <2>5
  <2>8. rest(i) = x \o y
    BY <2>1, <2>5, <2>6, <2>7, SeqEqual
  <2> QED  BY <2>8 DEF x, y
<1> HIDE DEF rest
<1>4. IsDecoding(g, path)
  <2> DEFINE w == [i \in 1..(N + 1) |->
            IF i = N + 1 THEN <<>>
            ELSE IF path[i] = "%" /\ WellFormed(path, i)
                 THEN <<DecodedEscape[SubSeq(path, i + 1, i + 2)]>> \o g[i + 3]
                 ELSE <<path[i]>> \o g[i + 1]]
  <2>1. ASSUME NEW i \in 1..(N + 1) PROVE g[i] = w[i]
    <3>1. CASE i = N + 1
      BY <1>2, <3>1
    <3>2. CASE i # N + 1
      <4>1. i \in 1..N /\ i + 1 \in 1..(N + 1)
        BY <1>1, <3>2
      <4>2. g[i] = rest(i) /\ g[i + 1] = rest(i + 1)
        BY <4>1
      <4>3. w[i] = <<path[i]>> \o g[i + 1]
        BY <1>1, <3>2, <4>1
      <4> QED  BY <1>3, <4>1, <4>2, <4>3
    <3> QED  BY <3>1, <3>2
  <2>2. g = [i \in 1..(N + 1) |-> g[i]] /\ w = [i \in 1..(N + 1) |-> w[i]]
    OBVIOUS
  <2>3. g = w
    <3> HIDE DEF g, w
    <3> QED  BY <2>1, <2>2
  <2> HIDE DEF g
  <2> QED  BY <2>3 DEF IsDecoding
<1> HIDE DEF g
<1>5. IsDecoding(f, path)
  BY <1>4
<1>6. f = [i \in 1..(N + 1) |->
            IF i = N + 1 THEN <<>>
            ELSE IF path[i] = "%" /\ WellFormed(path, i)
                 THEN <<DecodedEscape[SubSeq(path, i + 1, i + 2)]>> \o f[i + 3]
                 ELSE <<path[i]>> \o f[i + 1]]
  BY <1>5, Zenon DEF IsDecoding
<1>7. Decoded(path) = f[1]
  BY DEF Decoded, IsDecoding
<1> HIDE DEF f
<1>8. f[N + 1] = <<>>
  BY <1>1, <1>6
<1>9. \A i \in 1..N : f[i] = <<path[i]>> \o f[i + 1]
  <2> SUFFICES ASSUME NEW i \in 1..N PROVE f[i] = <<path[i]>> \o f[i + 1]
    OBVIOUS
  <2>1. i \in 1..(N + 1) /\ i # N + 1 /\ path[i] # "%"
    BY <1>1
  <2> QED  BY <1>6, <2>1
<1> DEFINE S == {k \in 0..N : f[N + 1 - k] = rest(N + 1 - k)}
<1>10. 0 \in S
  BY <1>1, <1>2, <1>8
<1>11. \A k \in 0..N : k < N /\ k \in S => k + 1 \in S
  <2> SUFFICES ASSUME NEW k \in 0..N, k < N, k \in S PROVE k + 1 \in S
    OBVIOUS
  <2>1. N - k \in 1..N /\ (N - k) + 1 = N + 1 - k /\ N + 1 - (k + 1) = N - k
    BY <1>1
  <2>2. f[N - k] = <<path[N - k]>> \o f[(N - k) + 1]
    BY <1>9, <2>1
  <2>3. rest(N - k) = <<path[N - k]>> \o rest((N - k) + 1)
    BY <1>3, <2>1
  <2>4. f[(N - k) + 1] = rest((N - k) + 1)
    BY <2>1
  <2>5. f[N - k] = rest(N - k)
    BY <2>2, <2>3, <2>4
  <2>6. k + 1 \in 0..N
    BY <1>1
  <2> QED  BY <2>1, <2>5, <2>6
<1> HIDE DEF S
<1>12. \A k \in 0..N : k \in S
  BY <1>1, <1>10, <1>11, Climb
<1>13. N \in 0..N /\ N + 1 - N = 1
  BY <1>1
<1>14. f[1] = rest(1)
  BY <1>12, <1>13 DEF S
<1> QED  BY <1>2, <1>7, <1>14

----------------------------------------------------------------------------
\* The recursion of Segments, a step of it, and the lists it makes.
IsSplitting(f, path) ==
    f = [n \in 0..Len(path) |->
            IF n = 0 THEN << <<>> >>
            ELSE IF path[n] = "/" THEN Append(f[n - 1], <<>>)
                 ELSE [f[n - 1] EXCEPT ![Len(f[n - 1])] = Append(@, path[n])]]
Extended(list, c) ==
    IF c = "/" THEN Append(list, <<>>)
    ELSE [list EXCEPT ![Len(list)] = Append(@, c)]
SegmentLists(C) == {v \in Seq(Seq(C)) : Len(v) >= 1}

\* A step of it makes a list of segments of one.
LEMMA ExtendedIs ==
    ASSUME NEW C, NEW v \in SegmentLists(C), NEW c \in C
    PROVE  Extended(v, c) \in SegmentLists(C)
<1>1. v \in Seq(Seq(C)) /\ Len(v) \in Nat /\ Len(v) >= 1 /\ DOMAIN v = 1..Len(v)
  BY DEF SegmentLists
<1>2. CASE c = "/"
  <2>1. <<>> \in Seq(C)
    OBVIOUS
  <2>2. Append(v, <<>>) \in Seq(Seq(C)) /\ Len(Append(v, <<>>)) = Len(v) + 1
    BY <1>1, <2>1
  <2> QED  BY <1>1, <1>2, <2>2 DEF Extended, SegmentLists
<1>3. CASE c # "/"
  <2> DEFINE s == v[Len(v)]
             t == Append(s, c)
             w == [v EXCEPT ![Len(v)] = t]
  <2>1. s \in Seq(C)
    BY <1>1
  <2>2. t \in Seq(C)
    BY <2>1
  <2> HIDE DEF t
  <2>3. w \in Seq(Seq(C)) /\ Len(w) = Len(v)
    BY <1>1, <2>2
  <2>4. Extended(v, c) = w
    BY <1>3 DEF Extended, t
  <2> QED  BY <1>1, <2>3, <2>4 DEF SegmentLists
<1> QED  BY <1>2, <1>3

\* The segments of a path are one.
LEMMA SegmentsIs ==
    ASSUME NEW C, NEW path \in Seq(C)
    PROVE  Segments(path) \in SegmentLists(C)
<1> DEFINE N == Len(path)
           V == SegmentLists(C)
           g == [p \in (1..N) \X V |-> Extended(p[2], path[p[1]])]
           a == << <<>> >>
           h == CHOOSE h : IsSplitting(h, path)
<1>1. N \in Nat /\ \A n \in 1..N : path[n] \in C
  OBVIOUS
<1>2. a \in V
  <2>1. a \in Seq(Seq(C)) /\ Len(a) = 1
    OBVIOUS
  <2> QED  BY <2>1 DEF SegmentLists
<1> HIDE DEF a
<1>3. \A n \in 1..N : \A v \in V : g[<<n, v>>] = Extended(v, path[n])
  OBVIOUS
<1> HIDE DEF g
<1>4. Steps(g, N, V)
  <2> SUFFICES ASSUME NEW n \in 1..N, NEW v \in V PROVE g[<<n, v>>] \in V
    BY DEF Steps
  <2> QED  BY <1>1, <1>3, ExtendedIs
<1>5. PICK f : Iterated(f, g, N, V, a)
  BY <1>1, <1>2, <1>4, Iterates
<1>6. f \in [0..N -> V] /\ f[0] = a /\ \A n \in 1..N : f[n] = g[<<n, f[n - 1]>>]
  BY <1>5 DEF Iterated
<1>7. \A n \in 1..N : n - 1 \in 0..N /\ f[n - 1] \in V
  <2> HIDE DEF N, V
  <2>1. \A n \in 1..N : n - 1 \in 0..N
    BY <1>1
  <2> QED  BY <1>6, <2>1
<1>8. \A n \in 1..N : f[n] = Extended(f[n - 1], path[n])
  <2> HIDE DEF N, V
  <2> QED  BY <1>3, <1>6, <1>7
<1>9. \A n \in 0..N : n = 0 \/ n \in 1..N
  BY <1>1
<1>10. IsSplitting(f, path)
  <2> DEFINE w == [n \in 0..N |-> IF n = 0 THEN << <<>> >>
            ELSE IF path[n] = "/" THEN Append(f[n - 1], <<>>)
                 ELSE [f[n - 1] EXCEPT ![Len(f[n - 1])] = Append(@, path[n])]]
  <2>1. ASSUME NEW n \in 0..N PROVE f[n] = w[n]
    <3>1. CASE n = 0
      BY <1>6, <3>1 DEF a
    <3>2. CASE n # 0
      BY <1>8, <1>9, <3>2 DEF Extended
    <3> QED  BY <3>1, <3>2
  <2>2. f = [n \in 0..N |-> f[n]] /\ w = [n \in 0..N |-> w[n]]
    BY <1>6
  <2>3. f = w
    <3> HIDE DEF w
    <3> QED  BY <2>1, <2>2
  <2> QED  BY <2>3 DEF IsSplitting
<1>11. IsSplitting(h, path)
  BY <1>10
<1>12. h = [n \in 0..Len(path) |->
            IF n = 0 THEN << <<>> >>
            ELSE IF path[n] = "/" THEN Append(h[n - 1], <<>>)
                 ELSE [h[n - 1] EXCEPT ![Len(h[n - 1])] = Append(@, path[n])]]
  BY <1>11, Zenon DEF IsSplitting
<1>13. Segments(path) = h[N]
  BY DEF Segments, IsSplitting
<1> HIDE DEF h
<1>14. h[0] = a
  <2>1. 0 \in 0..N
    BY <1>1
  <2> QED  BY <1>12, <2>1 DEF a
<1>15. \A n \in 1..N : h[n] = Extended(h[n - 1], path[n])
  <2> SUFFICES ASSUME NEW n \in 1..N PROVE h[n] = Extended(h[n - 1], path[n])
    OBVIOUS
  <2>1. n \in 0..N /\ n # 0
    BY <1>1
  <2> QED  BY <1>12, <2>1 DEF Extended
<1> DEFINE S == {k \in 0..N : h[k] \in V}
<1>16. 0 \in S
  BY <1>1, <1>2, <1>14
<1>17. \A k \in 0..N : k < N /\ k \in S => k + 1 \in S
  <2> SUFFICES ASSUME NEW k \in 0..N, k < N, k \in S PROVE k + 1 \in S
    OBVIOUS
  <2>1. k + 1 \in 1..N /\ (k + 1) - 1 = k /\ k + 1 \in 0..N
    BY <1>1
  <2>2. h[k] \in V
    OBVIOUS
  <2>3. h[k + 1] = Extended(h[k], path[k + 1]) /\ path[k + 1] \in C
    BY <1>1, <1>15, <2>1
  <2>4. h[k + 1] \in V
    BY <2>2, <2>3, ExtendedIs
  <2> QED  BY <2>1, <2>4
<1> HIDE DEF S
<1>18. \A k \in 0..N : k \in S
  BY <1>1, <1>16, <1>17, Climb
<1>19. h[N] \in V
  <2>1. N \in 0..N
    BY <1>1
  <2> QED  BY <1>18, <2>1 DEF S
<1> QED  BY <1>13, <1>19

----------------------------------------------------------------------------
\* The recursion of Resolved.
IsResolving(f, t) ==
    f = [n \in 0..Len(t) |->
            IF n = 0 THEN <<>>
            ELSE LET s == t[n]
                     kept == f[n - 1]
                 IN  CASE s = <<".", ".">> -> SubSeq(kept, 1, Len(kept) - 1)
                       [] s = <<".">> \/ (s = <<>> /\ n < Len(t)) -> kept
                       [] OTHER -> Append(kept, s)]
\* Segments with nothing to resolve in them.
Plain(t) == /\ \A n \in 1..Len(t) : t[n] # <<".">> /\ t[n] # <<".", ".">>
            /\ \A n \in 1..Len(t) : n < Len(t) => t[n] # <<>>

\* Segments that need no resolving are resolved already.
LEMMA ResolvedIs ==
    ASSUME NEW V, NEW t \in Seq(V), Plain(t)
    PROVE  Resolved(t) = t
<1> DEFINE N == Len(t)
           first(n) == SubSeq(t, 1, n)
           g == [n \in 0..N |-> first(n)]
           h == CHOOSE h : IsResolving(h, t)
<1>1. N \in Nat /\ \A n \in 1..N : t[n] \in V
  OBVIOUS
<1>2. first(0) = <<>> /\ first(N) = t
  BY <1>1
<1>3. \A n \in 1..N : first(n) = Append(first(n - 1), t[n])
  BY <1>1
<1>4. /\ \A n \in 1..N : t[n] # <<".">> /\ t[n] # <<".", ".">>
      /\ \A n \in 1..N : n < N => t[n] # <<>>
  BY DEF Plain
<1> HIDE DEF first
<1>5. IsResolving(g, t)
  <2> DEFINE w == [n \in 0..N |->
            IF n = 0 THEN <<>>
            ELSE LET s == t[n]
                     kept == g[n - 1]
                 IN  CASE s = <<".", ".">> -> SubSeq(kept, 1, Len(kept) - 1)
                       [] s = <<".">> \/ (s = <<>> /\ n < Len(t)) -> kept
                       [] OTHER -> Append(kept, s)]
  <2>1. ASSUME NEW n \in 0..N PROVE g[n] = w[n]
    <3>1. CASE n = 0
      BY <1>2, <3>1
    <3>2. CASE n # 0
      <4>1. n \in 1..N /\ n - 1 \in 0..N
        BY <1>1, <3>2
      <4>2. g[n] = first(n) /\ g[n - 1] = first(n - 1)
        BY <4>1
      <4>3. w[n] = Append(g[n - 1], t[n])
        BY <1>4, <3>2, <4>1
      <4> QED  BY <1>3, <4>1, <4>2, <4>3
    <3> QED  BY <3>1, <3>2
  <2>2. g = [n \in 0..N |-> g[n]] /\ w = [n \in 0..N |-> w[n]]
    OBVIOUS
  <2>3. g = w
    <3> HIDE DEF g, w
    <3> QED  BY <2>1, <2>2
  <2> HIDE DEF g
  <2> QED  BY <2>3 DEF IsResolving
<1> HIDE DEF g
<1>6. IsResolving(h, t)
  BY <1>5
<1>7. h = [n \in 0..Len(t) |->
            IF n = 0 THEN <<>>
            ELSE LET s == t[n]
                     kept == h[n - 1]
                 IN  CASE s = <<".", ".">> -> SubSeq(kept, 1, Len(kept) - 1)
                       [] s = <<".">> \/ (s = <<>> /\ n < Len(t)) -> kept
                       [] OTHER -> Append(kept, s)]
  BY <1>6, Zenon DEF IsResolving
<1>8. Resolved(t) = h[N]
  BY DEF Resolved, IsResolving
<1> HIDE DEF h
<1>9. h[0] = <<>>
  BY <1>1, <1>7
<1>10. \A n \in 1..N : h[n] = Append(h[n - 1], t[n])
  <2> SUFFICES ASSUME NEW n \in 1..N PROVE h[n] = Append(h[n - 1], t[n])
    OBVIOUS
  <2>1. n \in 0..N /\ n # 0
    BY <1>1
  <2>2. t[n] # <<".", ".">> /\ t[n] # <<".">> /\ ~(t[n] = <<>> /\ n < N)
    BY <1>4
  <2> QED  BY <1>7, <2>1, <2>2, Zenon
<1> DEFINE S == {k \in 0..N : h[k] = first(k)}
<1>11. 0 \in S
  BY <1>1, <1>2, <1>9
<1>12. \A k \in 0..N : k < N /\ k \in S => k + 1 \in S
  <2> SUFFICES ASSUME NEW k \in 0..N, k < N, k \in S PROVE k + 1 \in S
    OBVIOUS
  <2>1. k + 1 \in 1..N /\ (k + 1) - 1 = k /\ k + 1 \in 0..N
    BY <1>1
  <2>2. h[k + 1] = Append(h[k], t[k + 1]) /\ h[k] = first(k)
    BY <1>10, <2>1
  <2>3. first(k + 1) = Append(first(k), t[k + 1])
    BY <1>3, <2>1
  <2> QED  BY <2>1, <2>2, <2>3
<1> HIDE DEF S
<1>13. \A k \in 0..N : k \in S
  BY <1>1, <1>11, <1>12, Climb
<1>14. h[N] = first(N)
  <2>1. N \in 0..N
    BY <1>1
  <2> QED  BY <1>13, <2>1 DEF S
<1> QED  BY <1>2, <1>8, <1>14

----------------------------------------------------------------------------
(***************************************************************************)
(* A query is carried along.                                               *)
(***************************************************************************)
\* A value with an opaque query meets each check of the gate exactly if its path does.
Opaque(v, n) ==
    /\ Split(v, n) /\ n > 0 /\ Len(v) <= MaxBytes
    /\ Chars(SubSeq(v, n + 1, Len(v))) \subseteq Allowed
    /\ ~Malformed(SubSeq(v, n + 1, Len(v)))

\* A path and the query behind it, position by position.
LEMMA QueryParts ==
    ASSUME NEW C, NEW v \in Seq(C), NEW n, Opaque(v, n)
    PROVE  LET path == SubSeq(v, 1, n)
               query == SubSeq(v, n + 1, Len(v))
           IN  /\ n \in Nat /\ n >= 1 /\ n <= Len(v) /\ Len(v) \in Nat
               /\ DOMAIN path = 1..n /\ Len(path) = n /\ \A i \in 1..n : path[i] = v[i]
               /\ DOMAIN query = 1..(Len(v) - n) /\ Len(query) = Len(v) - n
               /\ \A i \in 1..(Len(v) - n) : query[i] = v[n + i]
               /\ DOMAIN v = 1..Len(v) /\ path \in Seq(C) /\ query \in Seq(C)
<1>1. n \in 0..Len(v) /\ n > 0
  BY DEF Opaque, Split
<1>2. Len(v) \in Nat
  OBVIOUS
<1>3. n \in Nat /\ n >= 1 /\ n <= Len(v)
  BY <1>1, <1>2
<1> QED  BY <1>2, <1>3

\* The path begins as the target does,
LEMMA SameStart ==
    ASSUME NEW C, NEW v \in Seq(C), NEW n, Opaque(v, n)
    PROVE  LET path == SubSeq(v, 1, n)
           IN  /\ IsPrefix(<<"/">>, v) <=> IsPrefix(<<"/">>, path)
               /\ IsPrefix(<<"/", "/">>, v) <=> IsPrefix(<<"/", "/">>, path)
<1> DEFINE path == SubSeq(v, 1, n)
<1>1. /\ n \in Nat /\ n >= 1 /\ n <= Len(v) /\ Len(v) \in Nat
      /\ Len(path) = n /\ \A i \in 1..n : path[i] = v[i]
      /\ path \in Seq(C)
  BY QueryParts
<1> HIDE DEF path
<1>2. \A w \in Seq(C) : IsPrefix(<<"/">>, w) <=> Len(w) >= 1 /\ w[1] = "/"
  <2> SUFFICES ASSUME NEW w \in Seq(C)
               PROVE  IsPrefix(<<"/">>, w) <=> Len(w) >= 1 /\ w[1] = "/"
    OBVIOUS
  <2> QED  BY DEF IsPrefix
<1>3. \A w \in Seq(C) : IsPrefix(<<"/", "/">>, w) <=> Len(w) >= 2 /\ w[1] = "/" /\ w[2] = "/"
  <2> SUFFICES ASSUME NEW w \in Seq(C)
               PROVE  IsPrefix(<<"/", "/">>, w) <=> Len(w) >= 2 /\ w[1] = "/" /\ w[2] = "/"
    OBVIOUS
  <2> QED  BY DEF IsPrefix
<1>4. path[1] = v[1] /\ (n >= 2 => path[2] = v[2])
  BY <1>1
<1>5. n = 1 /\ Len(v) >= 2 => v[2] # "/"
  BY DEF Opaque, Split
<1>6. v[1] = path[1] /\ Len(v) >= 1 /\ Len(path) >= 1
  BY <1>1, <1>4
<1>7. IsPrefix(<<"/">>, v) <=> IsPrefix(<<"/">>, path)
  BY <1>1, <1>2, <1>6
<1>8. Len(v) >= 2 /\ v[1] = "/" /\ v[2] = "/"
         <=> Len(path) >= 2 /\ path[1] = "/" /\ path[2] = "/"
  <2>1. CASE n = 1
    BY <1>1, <1>5, <2>1
  <2>2. CASE n # 1
    <3>1. n >= 2 /\ Len(v) >= 2 /\ Len(path) >= 2
      BY <1>1, <2>2
    <3> QED  BY <1>4, <3>1
  <2> QED  BY <2>1, <2>2
<1>9. IsPrefix(<<"/", "/">>, v) <=> IsPrefix(<<"/", "/">>, path)
  BY <1>1, <1>3, <1>8
<1> QED  BY <1>7, <1>9 DEF path

\* has allowed characters when the target has,
LEMMA SameChars ==
    ASSUME NEW C, NEW v \in Seq(C), NEW n, Opaque(v, n)
    PROVE  Chars(v) \subseteq Allowed <=> Chars(SubSeq(v, 1, n)) \subseteq Allowed
<1> DEFINE path == SubSeq(v, 1, n)
           query == SubSeq(v, n + 1, Len(v))
<1>1. /\ n \in Nat /\ n >= 1 /\ n <= Len(v) /\ Len(v) \in Nat
      /\ DOMAIN path = 1..n /\ \A i \in 1..n : path[i] = v[i]
      /\ DOMAIN query = 1..(Len(v) - n) /\ \A i \in 1..(Len(v) - n) : query[i] = v[n + i]
      /\ DOMAIN v = 1..Len(v)
  BY QueryParts
<1>2. Chars(query) \subseteq Allowed
  BY DEF Opaque
<1> HIDE DEF path, query
<1>3. \A i \in 1..n : i \in 1..Len(v)
  BY <1>1
<1>4. \A i \in 1..Len(v) : i \in 1..n \/ (i - n \in 1..(Len(v) - n) /\ n + (i - n) = i)
  BY <1>1
<1>5. Chars(path) \subseteq Chars(v)
  BY <1>1, <1>3 DEF Chars
<1>6. \A i \in 1..Len(v) : v[i] \in Chars(path) \/ v[i] \in Chars(query)
  <2> SUFFICES ASSUME NEW i \in 1..Len(v)
               PROVE  v[i] \in Chars(path) \/ v[i] \in Chars(query)
    OBVIOUS
  <2>1. CASE i \in 1..n
    BY <1>1, <2>1 DEF Chars
  <2>2. CASE i - n \in 1..(Len(v) - n) /\ n + (i - n) = i
    <3>1. v[i] = query[i - n]
      BY <1>1, <2>2
    <3> QED  BY <1>1, <2>2, <3>1 DEF Chars
  <2> QED  BY <1>4, <2>1, <2>2
<1>7. Chars(v) \subseteq Chars(path) \cup Chars(query)
  BY <1>1, <1>6 DEF Chars
<1> QED  BY <1>2, <1>5, <1>7 DEF path

\* and has a malformed escape when the target has.
LEMMA SameEscapes ==
    ASSUME NEW C, NEW v \in Seq(C), NEW n, Opaque(v, n)
    PROVE  Malformed(v) <=> Malformed(SubSeq(v, 1, n))
<1> DEFINE path == SubSeq(v, 1, n)
           query == SubSeq(v, n + 1, Len(v))
<1>1. /\ n \in Nat /\ n >= 1 /\ n <= Len(v) /\ Len(v) \in Nat
      /\ DOMAIN path = 1..n /\ Len(path) = n /\ \A i \in 1..n : path[i] = v[i]
      /\ DOMAIN query = 1..(Len(v) - n) /\ Len(query) = Len(v) - n
      /\ \A i \in 1..(Len(v) - n) : query[i] = v[n + i]
      /\ DOMAIN v = 1..Len(v)
  BY QueryParts
<1>2. ~Malformed(query) /\ (n < Len(v) => v[n + 1] = "?") /\ "?" \notin Hex
  BY HexAssumption DEF Opaque, Split
<1> HIDE DEF path, query
<1>3. ASSUME NEW i \in 1..n PROVE WellFormed(v, i) <=> WellFormed(path, i)
  <2>1. CASE i + 2 <= n
    <3>1. i + 1 \in 1..n /\ i + 2 \in 1..n /\ i + 2 <= Len(v)
      BY <1>1, <2>1
    <3> QED  BY <1>1, <2>1, <3>1 DEF WellFormed
  <2>2. CASE ~(i + 2 <= n)
    <3>1. ~WellFormed(path, i)
      BY <1>1, <2>2 DEF WellFormed
    <3>2. n + 1 = i + 1 \/ n + 1 = i + 2
      BY <1>1, <2>2
    <3>3. i + 2 <= Len(v) => n < Len(v)
      BY <1>1, <2>2
    <3>4. ~WellFormed(v, i)
      BY <1>2, <3>2, <3>3 DEF WellFormed
    <3> QED  BY <3>1, <3>4
  <2> QED  BY <2>1, <2>2
<1>4. ASSUME NEW i \in 1..(Len(v) - n), v[n + i] = "%" PROVE WellFormed(v, n + i)
  <2>1. i \in Escapes(query) /\ i \in Nat /\ i >= 1
    BY <1>1, <1>4 DEF Escapes
  <2>2. i + 2 <= Len(query) /\ query[i + 1] \in Hex /\ query[i + 2] \in Hex
    BY <1>2, <2>1 DEF Malformed, WellFormed
  <2>3. /\ i + 1 \in 1..(Len(v) - n) /\ i + 2 \in 1..(Len(v) - n) /\ n + i + 2 <= Len(v)
        /\ n + (i + 1) = n + i + 1 /\ n + (i + 2) = n + i + 2
    BY <1>1, <2>1, <2>2
  <2>4. v[n + i + 1] \in Hex /\ v[n + i + 2] \in Hex
    BY <1>1, <2>2, <2>3
  <2> QED  BY <2>3, <2>4 DEF WellFormed
<1>5. ASSUME Malformed(path) PROVE Malformed(v)
  <2>1. PICK i \in Escapes(path) : ~WellFormed(path, i)
    BY <1>5 DEF Malformed
  <2>2. i \in 1..n /\ path[i] = "%"
    BY <1>1 DEF Escapes
  <2>3. i \in 1..Len(v) /\ v[i] = "%"
    BY <1>1, <2>2
  <2> QED  BY <1>1, <1>3, <2>1, <2>2, <2>3 DEF Malformed, Escapes
<1>6. ASSUME Malformed(v) PROVE Malformed(path)
  <2>1. PICK i \in Escapes(v) : ~WellFormed(v, i)
    BY <1>6 DEF Malformed
  <2>2. i \in 1..Len(v) /\ v[i] = "%"
    BY <1>1 DEF Escapes
  <2>3. i \in 1..n
    <3> SUFFICES ASSUME i \notin 1..n PROVE FALSE
      OBVIOUS
    <3>1. i - n \in 1..(Len(v) - n) /\ n + (i - n) = i
      BY <1>1, <2>2
    <3> QED  BY <1>4, <2>1, <2>2, <3>1
  <2>4. path[i] = "%" /\ ~WellFormed(path, i)
    BY <1>1, <1>3, <2>1, <2>2, <2>3
  <2> QED  BY <1>1, <2>3, <2>4 DEF Malformed, Escapes
<1> QED  BY <1>5, <1>6 DEF path

----------------------------------------------------------------------------
(***************************************************************************)
(* Strict JSON: the walk over any text, and the names of its objects.      *)
(***************************************************************************)

\* A nonempty set of numbers up to a bound has a greatest one.
LEMMA GreatestExists ==
    ASSUME NEW n \in Nat, NEW S \in SUBSET (1..n), S # {}
    PROVE  \E i \in S : \A j \in S : j <= i
<1> DEFINE T == {n - j : j \in S}
<1>1. T \in SUBSET Nat /\ T # {}
  <2>1. \A j \in S : n - j \in Nat
    OBVIOUS
  <2> QED  BY <2>1
<1>2. PICK m \in T : \A k \in T : m <= k
  <2> HIDE DEF T
  <2> QED  BY <1>1, LeastExists
<1>3. PICK i \in S : m = n - i
  OBVIOUS
<1>4. ASSUME NEW j \in S PROVE j <= i
  <2>1. n - j \in T /\ j \in 1..n /\ i \in 1..n
    OBVIOUS
  <2> QED  BY <1>2, <1>3, <2>1
<1> QED  BY <1>4

\* What begins an object.
Brace == "{"

\* A text of tokens, and the names in it.
TokenText(t) == Len(t) \in Nat /\ DOMAIN t = 1..Len(t)
NamesOf(t) == {t[i].name : i \in 1..Len(t)}

\* The objects and arrays that are open after n tokens, and the one at a depth.
Heads(t, n, k) == {j \in Opened(t, n + 1) : Level(t, j) = k - 1}
HeadAt(t, n, k) == CHOOSE j \in Heads(t, n, k) : \A i \in Heads(t, n, k) : i <= j

\* What has been read of one.
MembersRead(t, n, h) == {i \in Members(t, h) : i <= n}
CountRead(t, n, h) == Cardinality(MembersRead(t, n, h))
KeysRead(t, n, h) == {i \in KeysOf(t, h) : i <= n}
RepeatRead(t, n) ==
    \E h \in {j \in DOMAIN t : t[j].mark = Brace} : \E i, k \in KeysRead(t, n, h) :
        /\ i # k /\ t[i].mark = "string" /\ t[k].mark = "string"
        /\ t[i].name = t[k].name

LEMMA LevelIs ==
    ASSUME NEW t, TokenText(t)
    PROVE  /\ Level(t, 1) = 0
           /\ \A i \in 1..(Len(t) + 1) : Level(t, i) \in Int
           /\ \A i \in 1..Len(t) :
                 /\ t[i].mark \in J!Opening => Level(t, i + 1) = Level(t, i) + 1
                 /\ t[i].mark \in J!Closing => Level(t, i + 1) = Level(t, i) - 1
                 /\ t[i].mark \notin J!Opening \cup J!Closing => Level(t, i + 1) = Level(t, i)
<1> DEFINE O(i) == Opened(t, i)
           C(i) == {j \in 1..(i - 1) : t[j].mark \in J!Closing}
<1>1. Len(t) \in Nat
  BY DEF TokenText
<1>2. \A i \in 1..(Len(t) + 1) : Level(t, i) = Cardinality(O(i)) - Cardinality(C(i))
  BY DEF Level
<1>3. \A i \in 1..(Len(t) + 1) : O(i) \in SUBSET (1..(i - 1)) /\ C(i) \in SUBSET (1..(i - 1))
  BY DEF Opened
<1>4. \A i \in 1..(Len(t) + 1) : IsFiniteSet(1..(i - 1))
  BY <1>1, FS_Interval
<1>5. \A i \in 1..(Len(t) + 1) : /\ IsFiniteSet(O(i)) /\ Cardinality(O(i)) \in Nat
                                 /\ IsFiniteSet(C(i)) /\ Cardinality(C(i)) \in Nat
  BY <1>3, <1>4, FS_Subset, FS_CardinalityType
<1>6. O(1) = {} /\ C(1) = {}
  BY DEF Opened
<1>7. \A i \in 1..Len(t) :
         /\ O(i + 1) = IF t[i].mark \in J!Opening THEN O(i) \cup {i} ELSE O(i)
         /\ C(i + 1) = IF t[i].mark \in J!Closing THEN C(i) \cup {i} ELSE C(i)
         /\ i \notin O(i) /\ i \notin C(i)
  <2> SUFFICES ASSUME NEW i \in 1..Len(t)
               PROVE  /\ O(i + 1) = IF t[i].mark \in J!Opening THEN O(i) \cup {i} ELSE O(i)
                      /\ C(i + 1) = IF t[i].mark \in J!Closing THEN C(i) \cup {i} ELSE C(i)
                      /\ i \notin O(i) /\ i \notin C(i)
    OBVIOUS
  <2>1. \A j : j \in 1..((i + 1) - 1) <=> j \in 1..(i - 1) \/ j = i
    BY <1>1
  <2>2. i \notin 1..(i - 1)
    BY <1>1
  <2> QED  BY <2>1, <2>2, Zenon DEF Opened
<1>8. \A m : ~(m \in J!Opening /\ m \in J!Closing)
  BY DEF J!Opening, J!Closing
<1> HIDE DEF O, C
<1>9. Level(t, 1) = 0
  <2>1. 1 \in 1..(Len(t) + 1)
    BY <1>1
  <2>2. Cardinality(O(1)) = 0 /\ Cardinality(C(1)) = 0
    BY <1>6, FS_EmptySet
  <2>3. Level(t, 1) = Cardinality(O(1)) - Cardinality(C(1))
    BY <1>2, <2>1
  <2> QED  BY <2>2, <2>3
<1>10. \A i \in 1..(Len(t) + 1) : Level(t, i) \in Int
  BY <1>2, <1>5
<1>11. ASSUME NEW i \in 1..Len(t)
       PROVE  /\ t[i].mark \in J!Opening => Level(t, i + 1) = Level(t, i) + 1
              /\ t[i].mark \in J!Closing => Level(t, i + 1) = Level(t, i) - 1
              /\ t[i].mark \notin J!Opening \cup J!Closing => Level(t, i + 1) = Level(t, i)
  <2>1. i \in 1..(Len(t) + 1) /\ i + 1 \in 1..(Len(t) + 1)
    BY <1>1
  <2>2. /\ Cardinality(O(i) \cup {i}) = Cardinality(O(i)) + 1
        /\ Cardinality(C(i) \cup {i}) = Cardinality(C(i)) + 1
    BY <1>5, <1>7, <2>1, FS_AddElement
  <2>3. /\ Level(t, i) = Cardinality(O(i)) - Cardinality(C(i))
        /\ Level(t, i + 1) = Cardinality(O(i + 1)) - Cardinality(C(i + 1))
        /\ Cardinality(O(i)) \in Nat /\ Cardinality(C(i)) \in Nat
    BY <1>2, <1>5, <2>1
  <2>4. CASE t[i].mark \in J!Opening
    <3>1. Cardinality(O(i + 1)) = Cardinality(O(i)) + 1 /\ C(i + 1) = C(i)
      BY <1>7, <1>8, <2>2, <2>4
    <3> QED  BY <1>8, <2>3, <2>4, <3>1
  <2>5. CASE t[i].mark \in J!Closing
    <3>1. Cardinality(C(i + 1)) = Cardinality(C(i)) + 1 /\ O(i + 1) = O(i)
      BY <1>7, <1>8, <2>2, <2>5
    <3> QED  BY <1>8, <2>3, <2>5, <3>1
  <2>6. CASE t[i].mark \notin J!Opening /\ t[i].mark \notin J!Closing
    <3>1. O(i + 1) = O(i) /\ C(i + 1) = C(i)
      BY <1>7, <2>6
    <3> QED  BY <2>3, <2>6, <3>1
  <2> QED  BY <2>4, <2>5, <2>6
<1> QED  BY <1>9, <1>10, <1>11

\* The one that is open at a depth.
LEMMA HeadIs ==
    ASSUME NEW t, TokenText(t), NEW n \in 0..Len(t), NEW k, Heads(t, n, k) # {}
    PROVE  /\ HeadAt(t, n, k) \in Heads(t, n, k) /\ HeadAt(t, n, k) \in 1..n
           /\ HeadAt(t, n, k) \in DOMAIN t
           /\ \A j \in Heads(t, n, k) : j <= HeadAt(t, n, k)
           /\ t[HeadAt(t, n, k)].mark \in J!Opening /\ Level(t, HeadAt(t, n, k)) = k - 1
<1>1. n \in Nat /\ (n + 1) - 1 = n /\ 1..n \subseteq DOMAIN t
  BY DEF TokenText
<1>2. Heads(t, n, k) \in SUBSET (1..n)
  BY <1>1 DEF Heads, Opened
<1>3. PICK i \in Heads(t, n, k) : \A j \in Heads(t, n, k) : j <= i
  BY <1>1, <1>2, GreatestExists
<1>4. /\ HeadAt(t, n, k) \in Heads(t, n, k)
      /\ \A j \in Heads(t, n, k) : j <= HeadAt(t, n, k)
  BY <1>3 DEF HeadAt
<1> QED  BY <1>1, <1>2, <1>4 DEF Heads, Opened

\* A value is held by the innermost object or array that is open.
LEMMA HolderIs ==
    ASSUME NEW t, TokenText(t), NEW i \in 1..Len(t)
    PROVE  /\ Holder(t, i) \in 0..(i - 1)
           /\ Level(t, i) = 0 => Holder(t, i) = 0
           /\ Level(t, i) # 0 /\ Heads(t, i - 1, Level(t, i)) # {} =>
                 Holder(t, i) = HeadAt(t, i - 1, Level(t, i))
<1>1. i - 1 \in 0..Len(t) /\ (i - 1) + 1 = i /\ i - 1 \in Nat
  BY DEF TokenText
<1> DEFINE holders == {j \in Opened(t, i) : Level(t, j) = Level(t, i) - 1}
<1>2. holders = Heads(t, i - 1, Level(t, i))
  BY <1>1 DEF Heads
<1>3. Holder(t, i) = IF Level(t, i) = 0 \/ Heads(t, i - 1, Level(t, i)) = {} THEN 0
                     ELSE HeadAt(t, i - 1, Level(t, i))
  <2>1. Holder(t, i) = IF Level(t, i) = 0 \/ holders = {} THEN 0
                       ELSE CHOOSE j \in holders : \A m \in holders : m <= j
    BY Zenon DEF Holder
  <2> HIDE DEF holders
  <2> QED  BY <1>2, <2>1, Zenon DEF HeadAt
<1>4. Heads(t, i - 1, Level(t, i)) # {} => HeadAt(t, i - 1, Level(t, i)) \in 1..(i - 1)
  BY <1>1, HeadIs
<1> QED  BY <1>1, <1>3, <1>4

\* What one more token adds to an object.
LEMMA ReadMore ==
    ASSUME NEW t, TokenText(t), NEW n \in 0..Len(t), n < Len(t), NEW h
    PROVE  /\ CountRead(t, n, h) \in Nat
           /\ n + 1 \in KeysOf(t, h) <=> /\ t[n + 1].mark \notin J!Closing
                                         /\ Holder(t, n + 1) = h
                                         /\ CountRead(t, n, h) % 2 = 0
           /\ KeysRead(t, n + 1, h) = IF n + 1 \in KeysOf(t, h)
                                      THEN KeysRead(t, n, h) \cup {n + 1}
                                      ELSE KeysRead(t, n, h)
           /\ t[n + 1].mark \in J!Closing \/ Holder(t, n + 1) # h =>
                 CountRead(t, n + 1, h) = CountRead(t, n, h)
           /\ t[n + 1].mark \notin J!Closing /\ Holder(t, n + 1) = h =>
                 CountRead(t, n + 1, h) = CountRead(t, n, h) + 1
<1> DEFINE member == t[n + 1].mark \notin J!Closing /\ Holder(t, n + 1) = h
           even == CountRead(t, n, h) % 2 = 0
           M == MembersRead(t, n, h)
<1>1. n \in Nat /\ Len(t) \in Nat /\ n + 1 \in 1..Len(t) /\ DOMAIN t = 1..Len(t)
  BY DEF TokenText
<1>2. Members(t, h) \in SUBSET (1..Len(t)) /\ KeysOf(t, h) \subseteq Members(t, h)
  BY <1>1 DEF Members, KeysOf
<1>3. M \in SUBSET (1..n)
  BY <1>1, <1>2 DEF MembersRead
<1>4. IsFiniteSet(M) /\ CountRead(t, n, h) \in Nat
  <2>1. IsFiniteSet(1..n)
    BY <1>1, FS_Interval
  <2>2. IsFiniteSet(M)
    <3> HIDE DEF M
    <3> QED  BY <1>3, <2>1, FS_Subset
  <2>3. Cardinality(M) \in Nat
    BY ONLY <2>2, FS_CardinalityType
  <2> QED  BY <2>2, <2>3 DEF CountRead
<1>5. n + 1 \in Members(t, h) <=> member
  BY <1>1 DEF Members
<1>6. \A i \in Members(t, h) : i <= n + 1 <=> i <= n \/ i = n + 1
  BY <1>1, <1>2
<1>7. MembersRead(t, n + 1, h) = IF member THEN M \cup {n + 1} ELSE M
  BY <1>5, <1>6 DEF MembersRead
<1>8. n + 1 \notin M
  BY <1>1, <1>3
<1>9. CountRead(t, n + 1, h) = CountRead(t, n, h) + (IF member THEN 1 ELSE 0)
  <2> HIDE DEF member, M
  <2>1. Cardinality(M \cup {n + 1}) = Cardinality(M) + 1
    BY <1>4, <1>8, FS_AddElement
  <2> QED  BY <1>4, <1>7, <2>1 DEF CountRead, M
<1>10. {j \in Members(t, h) : j < n + 1} = M
  BY <1>1, <1>2 DEF MembersRead
<1>11. n + 1 \in KeysOf(t, h) <=> member /\ even
  BY <1>5, <1>10 DEF KeysOf, CountRead
<1>12. KeysRead(t, n + 1, h) =
          IF member /\ even THEN KeysRead(t, n, h) \cup {n + 1} ELSE KeysRead(t, n, h)
  <2> HIDE DEF member, even
  <2> QED  BY <1>2, <1>6, <1>11 DEF KeysRead
<1> QED  BY <1>4, <1>9, <1>11, <1>12

\* Nothing has been read of an object that begins with the last token.
LEMMA ReadNone ==
    ASSUME NEW t, TokenText(t), NEW n \in 1..Len(t)
    PROVE  CountRead(t, n, n) = 0 /\ KeysRead(t, n, n) = {}
<1>1. Members(t, n) \in SUBSET (1..Len(t)) /\ KeysOf(t, n) \subseteq Members(t, n)
  BY DEF Members, KeysOf, TokenText
<1>2. \A i \in Members(t, n) : ~(i <= n)
  <2> SUFFICES ASSUME NEW i \in Members(t, n) PROVE ~(i <= n)
    OBVIOUS
  <2>1. i \in 1..Len(t) /\ Holder(t, i) = n
    BY <1>1 DEF Members
  <2>2. n \in 0..(i - 1)
    BY <2>1, HolderIs
  <2> QED  BY <2>1, <2>2
<1>3. MembersRead(t, n, n) = {} /\ KeysRead(t, n, n) = {}
  BY <1>1, <1>2 DEF MembersRead, KeysRead
<1> QED  BY <1>3, FS_EmptySet DEF CountRead

\* A token leaves what is open below its own depth as it is, and what opens is the last
\* at its depth.
LEMMA HeadsKept ==
    ASSUME NEW t, TokenText(t), NEW n \in 0..Len(t), n < Len(t), NEW d \in Nat,
           Level(t, n + 1) = d
    PROVE  /\ \A k \in 1..d : /\ Heads(t, n + 1, k) = Heads(t, n, k)
                              /\ HeadAt(t, n + 1, k) = HeadAt(t, n, k)
           /\ t[n + 1].mark \in J!Opening =>
                 Heads(t, n + 1, d + 1) # {} /\ HeadAt(t, n + 1, d + 1) = n + 1
<1>1. n \in Nat /\ n + 1 \in 1..Len(t)
  BY DEF TokenText
<1>2. \A j : j \in 1..((n + 1 + 1) - 1) <=> j \in 1..((n + 1) - 1) \/ j = n + 1
  BY <1>1
<1>3. Opened(t, n + 1 + 1) = IF t[n + 1].mark \in J!Opening THEN Opened(t, n + 1) \cup {n + 1}
                             ELSE Opened(t, n + 1)
  BY <1>2, Zenon DEF Opened
<1>4. \A k \in 1..d : Heads(t, n + 1, k) = Heads(t, n, k)
  <2> SUFFICES ASSUME NEW k \in 1..d PROVE Heads(t, n + 1, k) = Heads(t, n, k)
    OBVIOUS
  <2>1. Level(t, n + 1) # k - 1
    OBVIOUS
  <2> QED  BY <1>3, <2>1 DEF Heads
<1>5. \A k \in 1..d : HeadAt(t, n + 1, k) = HeadAt(t, n, k)
  BY <1>4 DEF HeadAt
<1>6. ASSUME t[n + 1].mark \in J!Opening
      PROVE  Heads(t, n + 1, d + 1) # {} /\ HeadAt(t, n + 1, d + 1) = n + 1
  <2>1. n + 1 \in Heads(t, n + 1, d + 1)
    BY <1>3, <1>6 DEF Heads
  <2>2. n + 1 \in 0..Len(t)
    BY <1>1
  <2>3. HeadAt(t, n + 1, d + 1) \in 1..(n + 1) /\ n + 1 <= HeadAt(t, n + 1, d + 1)
    BY <2>1, <2>2, HeadIs
  <2> QED  BY <1>1, <2>1, <2>3
<1> QED  BY <1>4, <1>5, <1>6

\* A walk over tokens of some names.
Statuses == {"open", "done", "duplicate", "syntax", "trailing"}
WalkFrames(names) == [mark : J!Opening, seen : SUBSET names, key : BOOLEAN]
Walks(names) == [frames : Seq(WalkFrames(names)), status : Statuses]

\* What comes next in a frame is a key.
KeyNext(frame) == frame.key

\* The frames without the innermost.
LEMMA OuterIs ==
    ASSUME NEW names, NEW w \in Walks(names), w.frames # <<>>
    PROVE  /\ Len(w.frames) \in Nat /\ Len(w.frames) >= 1
           /\ J!Top(w) = w.frames[Len(w.frames)] /\ J!Top(w) \in WalkFrames(names)
           /\ J!Outer(w) \in Seq(WalkFrames(names))
           /\ Len(J!Outer(w)) = Len(w.frames) - 1
           /\ \A k \in 1..(Len(w.frames) - 1) : J!Outer(w)[k] = w.frames[k]
<1> DEFINE V == WalkFrames(names)
           s == w.frames
<1>1. s \in Seq(V) /\ s # <<>>
  BY DEF Walks
<1> HIDE DEF V, s
<1>2. Len(s) \in Nat /\ Len(s) >= 1 /\ s[Len(s)] \in V
  BY <1>1
<1>3. /\ SubSeq(s, 1, Len(s) - 1) \in Seq(V) /\ Len(SubSeq(s, 1, Len(s) - 1)) = Len(s) - 1
      /\ \A k \in 1..(Len(s) - 1) : SubSeq(s, 1, Len(s) - 1)[k] = s[k]
  <2> DEFINE m == Len(s) - 1
  <2>1. m \in Int /\ 1 \in Int /\ \A k \in 1..m : s[k] \in V
    BY <1>1, <1>2
  <2>2. m - 1 + 1 = m /\ (m < 1 => m = 0) /\ \A k \in 1..m : 1 + k - 1 = k
    BY <1>2
  <2> HIDE DEF m
  <2>3. /\ SubSeq(s, 1, m) \in Seq(V) /\ Len(SubSeq(s, 1, m)) = IF 1 <= m THEN m - 1 + 1 ELSE 0
        /\ \A k \in 1..(m - 1 + 1) : SubSeq(s, 1, m)[k] = s[1 + k - 1]
    BY <2>1, SubSeqProperties
  <2>4. Len(SubSeq(s, 1, m)) = m /\ \A k \in 1..m : SubSeq(s, 1, m)[k] = s[k]
    BY <2>1, <2>2, <2>3
  <2> QED  BY <2>3, <2>4 DEF m
<1> QED  BY <1>2, <1>3 DEF s, V, J!Top, J!Outer

\* A frame with another flag.
LEMMA FlagIs ==
    ASSUME NEW names, NEW f \in WalkFrames(names), NEW b \in BOOLEAN
    PROVE  /\ [f EXCEPT !.key = b] = [mark |-> f.mark, seen |-> f.seen, key |-> b]
           /\ [mark |-> f.mark, seen |-> f.seen, key |-> b] \in WalkFrames(names)
<1>1. f = [mark |-> f.mark, seen |-> f.seen, key |-> f.key]
  BY DEF WalkFrames
<1>2. PICK m, s, k : m = f.mark /\ s = f.seen /\ k = f.key
  OBVIOUS
<1>3. f = [mark |-> m, seen |-> s, key |-> k]
  BY <1>1, <1>2
<1>4. m \in J!Opening /\ s \in SUBSET names
  BY <1>2 DEF WalkFrames
<1>5. [f EXCEPT !.key = b] = [mark |-> m, seen |-> s, key |-> b]
  BY <1>3
<1> QED  BY <1>2, <1>4, <1>5 DEF WalkFrames

\* A frame with a key more.
LEMMA NamedIs ==
    ASSUME NEW names, NEW f \in WalkFrames(names), NEW x \in names
    PROVE  /\ J!Named(f, x) \in WalkFrames(names) /\ J!Named(f, x).mark = f.mark
           /\ J!Named(f, x).seen = f.seen \cup {x} /\ ~KeyNext(J!Named(f, x))
<1>1. f = [mark |-> f.mark, seen |-> f.seen, key |-> f.key]
  BY DEF WalkFrames
<1> DEFINE u == f.seen \cup {x}
           g == [mark |-> f.mark, seen |-> u, key |-> f.key]
<1>2. J!Named(f, x) = [[f EXCEPT !.seen = u] EXCEPT !.key = FALSE]
  BY <1>1 DEF J!Named
<1>3. [f EXCEPT !.seen = u] = g
  BY <1>1
<1>4. g \in WalkFrames(names) /\ g.mark = f.mark /\ g.seen = u
  BY DEF WalkFrames
<1> HIDE DEF g
<1>5. J!Named(f, x) = [mark |-> g.mark, seen |-> g.seen, key |-> FALSE]
  BY <1>2, <1>3, <1>4, FlagIs
<1>6. [mark |-> g.mark, seen |-> g.seen, key |-> FALSE] \in WalkFrames(names)
  BY <1>4, FlagIs
<1> DEFINE h == [mark |-> g.mark, seen |-> g.seen, key |-> FALSE]
<1>7. h.mark = g.mark /\ h.seen = g.seen /\ ~KeyNext(h)
  BY DEF KeyNext
<1> HIDE DEF h
<1>8. J!Named(f, x) = h /\ h \in WalkFrames(names)
  BY <1>5, <1>6 DEF h
<1> QED  BY <1>4, <1>7, <1>8

\* A value has been read to its end.
LEMMA EndedIs ==
    ASSUME NEW names, NEW w \in Walks(names), w.status = "open"
    PROVE  /\ J!Ended(w) \in Walks(names)
           /\ w.frames = <<>> => J!Ended(w).frames = <<>> /\ J!Ended(w).status = "done"
           /\ w.frames # <<>> =>
                 /\ J!Ended(w).status = "open" /\ Len(J!Ended(w).frames) = Len(w.frames)
                 /\ \A k \in 1..Len(w.frames) : k < Len(w.frames) =>
                       J!Ended(w).frames[k] = w.frames[k]
                 /\ LET f == w.frames[Len(w.frames)]
                        g == J!Ended(w).frames[Len(w.frames)]
                    IN  g.mark = f.mark /\ g.seen = f.seen /\ (KeyNext(g) <=> f.mark = Brace)
<1>1. w = [frames |-> w.frames, status |-> w.status] /\ w.frames \in Seq(WalkFrames(names))
  BY DEF Walks
<1>2. CASE w.frames = <<>>
  <2>1. J!Ended(w) = [frames |-> <<>>, status |-> "done"]
    BY <1>1, <1>2 DEF J!Ended, J!Stopped
  <2>2. <<>> \in Seq(WalkFrames(names))
    OBVIOUS
  <2> QED  BY <1>2, <2>1, <2>2 DEF Walks, Statuses
<1>3. CASE w.frames # <<>>
  <2> DEFINE d == Len(w.frames)
             f == w.frames[d]
             b == f.mark = Brace
             g == [mark |-> f.mark, seen |-> f.seen, key |-> b]
             s == [w.frames EXCEPT ![d] = g]
  <2>1. d \in Nat /\ d >= 1 /\ f \in WalkFrames(names) /\ J!Top(w) = f
    BY <1>3, OuterIs
  <2>2. J!Ended(w) = [w EXCEPT !.frames = [w.frames EXCEPT ![d] = [f EXCEPT !.key = b]]]
    BY <1>3, <2>1 DEF J!Ended, Brace
  <2>3. b \in BOOLEAN /\ (b <=> f.mark = Brace)
    OBVIOUS
  <2> HIDE DEF b
  <2>4. [f EXCEPT !.key = b] = g /\ g \in WalkFrames(names)
    BY <2>1, <2>3, FlagIs
  <2>5. J!Ended(w) = [frames |-> s, status |-> "open"]
    BY <1>1, <2>2, <2>4
  <2>6. g.mark = f.mark /\ g.seen = f.seen /\ (KeyNext(g) <=> b)
    BY DEF KeyNext
  <2> HIDE DEF g
  <2>7. s \in Seq(WalkFrames(names)) /\ Len(s) = d /\ s[d] = g
        /\ \A k \in 1..d : k < d => s[k] = w.frames[k]
    BY <1>1, <2>1, <2>4
  <2>8. Len(s) # 0
    BY <2>1, <2>7
  <2> HIDE DEF s
  <2>9. /\ J!Ended(w).frames = s /\ J!Ended(w).status = "open"
        /\ J!Ended(w) \in Walks(names)
    BY <2>5, <2>7 DEF Walks, Statuses
  <2>10. J!Ended(w).frames[d] = g
    BY <2>7, <2>9
  <2> QED  BY <1>3, <2>3, <2>7, <2>9, <2>10, <2>6
<1> QED  BY <1>2, <1>3

\* An object or array is closed.
LEMMA ClosedIs ==
    ASSUME NEW names, NEW w \in Walks(names), w.status = "open", w.frames # <<>>,
           NEW x, x = J!Closed(w), NEW d, d = Len(w.frames)
    PROVE  /\ d \in Nat /\ d >= 1 /\ x \in Walks(names) /\ Len(x.frames) = d - 1
           /\ d = 1 => x.status = "done"
           /\ d # 1 => x.status = "open"
           /\ \A k \in 1..(d - 1) :
                 /\ k < d - 1 => x.frames[k] = w.frames[k]
                 /\ k = d - 1 =>
                       /\ x.frames[k].mark = w.frames[k].mark
                       /\ x.frames[k].seen = w.frames[k].seen
                       /\ KeyNext(x.frames[k]) <=> w.frames[k].mark = Brace
<1> DEFINE y == [w EXCEPT !.frames = J!Outer(w)]
<1>1. w = [frames |-> w.frames, status |-> w.status]
  BY DEF Walks
<1>2. y = [frames |-> J!Outer(w), status |-> "open"]
  BY <1>1
<1>3. /\ d \in Nat /\ d >= 1 /\ J!Outer(w) \in Seq(WalkFrames(names))
      /\ Len(J!Outer(w)) = d - 1 /\ \A k \in 1..(d - 1) : J!Outer(w)[k] = w.frames[k]
  BY OuterIs
<1>4. J!Closed(w) = J!Ended(y)
  BY DEF J!Closed
<1>5. y \in Walks(names) /\ y.status = "open" /\ y.frames = J!Outer(w)
  BY <1>2, <1>3 DEF Walks, Statuses
<1> HIDE DEF y
<1>6. y.frames = <<>> <=> d = 1
  <2>1. \A s \in Seq(WalkFrames(names)) : s = <<>> <=> Len(s) = 0
    OBVIOUS
  <2>2. d - 1 = 0 <=> d = 1
    BY <1>3
  <2> QED  BY <1>3, <1>5, <2>1, <2>2
<1>7. CASE d = 1
  <2>1. J!Ended(y).frames = <<>> /\ J!Ended(y).status = "done" /\ J!Ended(y) \in Walks(names)
    BY <1>5, <1>6, <1>7, EndedIs
  <2> QED  BY <1>3, <1>4, <1>7, <2>1
<1>8. CASE d # 1
  <2>1. /\ J!Ended(y) \in Walks(names) /\ J!Ended(y).status = "open"
        /\ Len(J!Ended(y).frames) = Len(y.frames)
        /\ \A k \in 1..Len(y.frames) : k < Len(y.frames) => J!Ended(y).frames[k] = y.frames[k]
        /\ LET f == y.frames[Len(y.frames)]
               g == J!Ended(y).frames[Len(y.frames)]
           IN  g.mark = f.mark /\ g.seen = f.seen /\ (KeyNext(g) <=> f.mark = Brace)
    BY <1>5, <1>6, <1>8, EndedIs
  <2>2. Len(y.frames) = d - 1
    BY <1>3, <1>5
  <2> QED  BY <1>3, <1>4, <1>5, <1>8, <2>1, <2>2
<1> QED  BY <1>7, <1>8

\* A walk whose last open object or array is closed is done.
LEMMA ClosedStatus ==
    ASSUME NEW names, NEW w \in Walks(names), w.status = "open", w.frames # <<>>
    PROVE  IF Len(w.frames) = 1 THEN J!Closed(w).status = "done"
                                ELSE J!Closed(w).status = "open"
<1> DEFINE x == J!Closed(w)
           d == Len(w.frames)
<1>1. x = J!Closed(w) /\ d = Len(w.frames)
  OBVIOUS
<1> HIDE DEF x, d
<1>2. d = 1 => x.status = "done"
  BY <1>1, ClosedIs
<1>3. d # 1 => x.status = "open"
  BY <1>1, ClosedIs
<1> QED  BY ONLY <1>1, <1>2, <1>3

\* An object or array is opened.
LEMMA PushedIs ==
    ASSUME NEW names, NEW w \in Walks(names), w.status = "open", NEW token,
           token.mark \in J!Opening, NEW x, x = J!Value(w, token), NEW d, d = Len(w.frames)
    PROVE  /\ d \in Nat /\ x \in Walks(names) /\ Len(x.frames) = d + 1 /\ x.status = "open"
           /\ \A k \in 1..d : x.frames[k] = w.frames[k]
           /\ x.frames[d + 1].mark = token.mark /\ x.frames[d + 1].seen = {}
           /\ KeyNext(x.frames[d + 1]) <=> token.mark = Brace
<1> DEFINE f == J!Frame(token.mark)
           s == Append(w.frames, f)
<1>1. w = [frames |-> w.frames, status |-> "open"] /\ w.frames \in Seq(WalkFrames(names))
  BY DEF Walks
<1>2. J!Value(w, token) = [w EXCEPT !.frames = s]
  <2>1. ~(token.mark \in J!Closing)
    BY DEF J!Opening, J!Closing
  <2> QED  BY <2>1 DEF J!Value
<1>3. f.mark = token.mark /\ f.seen = {} /\ (KeyNext(f) <=> token.mark = Brace)
  BY DEF J!Frame, KeyNext, Brace
<1>4. f \in WalkFrames(names)
  BY DEF J!Frame, WalkFrames
<1> HIDE DEF f
<1>5. /\ Len(w.frames) \in Nat /\ s \in Seq(WalkFrames(names)) /\ Len(s) = Len(w.frames) + 1
      /\ \A k \in 1..Len(w.frames) : s[k] = w.frames[k]
      /\ s[Len(w.frames) + 1] = f
  BY <1>1, <1>4
<1> HIDE DEF s
<1>6. J!Value(w, token) = [frames |-> s, status |-> "open"]
  BY <1>1, <1>2
<1>7. /\ J!Value(w, token).frames = s /\ J!Value(w, token).status = "open"
      /\ J!Value(w, token) \in Walks(names)
  BY <1>5, <1>6 DEF Walks, Statuses
<1> QED  BY <1>3, <1>5, <1>7

\* A key is read.
LEMMA KeyRead ==
    ASSUME NEW names, NEW w \in Walks(names), w.status = "open", w.frames # <<>>, NEW token,
           token.mark = "string", token.name \in names, token.name \notin J!Top(w).seen,
           NEW x, x = J!Key(w, token), NEW d, d = Len(w.frames)
    PROVE  /\ d \in Nat /\ d >= 1 /\ x \in Walks(names)
           /\ Len(x.frames) = d /\ x.status = "open"
           /\ \A k \in 1..d : k < d => x.frames[k] = w.frames[k]
           /\ x.frames[d].mark = w.frames[d].mark /\ ~KeyNext(x.frames[d])
           /\ x.frames[d].seen = w.frames[d].seen \cup {token.name}
<1> DEFINE f == w.frames[d]
           g == J!Named(f, token.name)
           s == [w.frames EXCEPT ![d] = g]
<1>1. w = [frames |-> w.frames, status |-> "open"] /\ w.frames \in Seq(WalkFrames(names))
  BY DEF Walks
<1>2. d \in Nat /\ d >= 1 /\ f \in WalkFrames(names) /\ J!Top(w) = f
  BY OuterIs
<1>3. g \in WalkFrames(names) /\ g.mark = f.mark /\ g.seen = f.seen \cup {token.name}
      /\ ~KeyNext(g)
  <2>1. f \in WalkFrames(names) /\ token.name \in names
    BY <1>2
  <2> QED  BY ONLY <2>1, NamedIs
<1>4. J!Key(w, token) = [w EXCEPT !.frames = s]
  BY DEF J!Key
<1> HIDE DEF g
<1>5. s \in Seq(WalkFrames(names)) /\ Len(s) = d /\ s[d] = g
      /\ \A k \in 1..d : k < d => s[k] = w.frames[k]
  BY <1>1, <1>2, <1>3
<1> HIDE DEF s
<1>6. J!Key(w, token) = [frames |-> s, status |-> "open"]
  BY <1>1, <1>4
<1>7. /\ J!Key(w, token).frames = s /\ J!Key(w, token).status = "open"
      /\ J!Key(w, token) \in Walks(names)
  BY <1>5, <1>6 DEF Walks, Statuses
<1> QED  BY <1>2, <1>3, <1>5, <1>7

\* What a token does to a walk that is open.
Opens(w, token) == /\ token.mark \in J!Opening
                   /\ w.frames # <<>> => ~KeyNext(w.frames[Len(w.frames)])
                   /\ J!Step(w, token) = J!Value(w, token)
Closes(w, token) == /\ token.mark \in J!Closing /\ w.frames # <<>>
                    /\ J!Step(w, token) = J!Closed(w)
IsKey(w, token) == /\ token.mark = "string" /\ w.frames # <<>>
                   /\ KeyNext(w.frames[Len(w.frames)])
Repeats(w, token) == /\ IsKey(w, token) /\ token.name \in w.frames[Len(w.frames)].seen
                     /\ J!Step(w, token).status = "duplicate"
IsNamed(w, token) == /\ IsKey(w, token) /\ token.name \notin w.frames[Len(w.frames)].seen
                     /\ J!Step(w, token) = J!Key(w, token)
IsPlain(w, token) == /\ token.mark \notin J!Opening /\ token.mark \notin J!Closing
                     /\ w.frames # <<>> => ~KeyNext(w.frames[Len(w.frames)])
                     /\ J!Step(w, token) = J!Ended(w)

LEMMA StoppedIs ==
    ASSUME NEW names, NEW w \in Walks(names), NEW s \in Statuses
    PROVE  J!Stopped(w, s) \in Walks(names) /\ J!Stopped(w, s).status = s
           /\ J!Stopped(w, s).frames = w.frames
<1>1. w = [frames |-> w.frames, status |-> w.status] /\ w.frames \in Seq(WalkFrames(names))
  BY DEF Walks
<1>2. J!Stopped(w, s) = [frames |-> w.frames, status |-> s]
  BY <1>1 DEF J!Stopped
<1> QED  BY <1>1, <1>2 DEF Walks

LEMMA Outcomes ==
    ASSUME NEW names, NEW w \in Walks(names), NEW token, token.name \in names
    PROVE  /\ J!Step(w, token) \in Walks(names)
           /\ w.status = "done" => J!Step(w, token).status = "trailing"
           /\ w.status = "open" => \/ J!Step(w, token).status = "syntax"
                                   \/ Opens(w, token) \/ Closes(w, token)
                                   \/ Repeats(w, token) \/ IsNamed(w, token)
                                   \/ IsPlain(w, token)
<1> DEFINE x == J!Step(w, token)
<1>1. \A s \in {"syntax", "duplicate", "trailing"} :
         J!Stopped(w, s) \in Walks(names) /\ J!Stopped(w, s).status = s
  <2> SUFFICES ASSUME NEW s \in {"syntax", "duplicate", "trailing"}
               PROVE  J!Stopped(w, s) \in Walks(names) /\ J!Stopped(w, s).status = s
    OBVIOUS
  <2>1. s \in Statuses
    BY DEF Statuses
  <2> QED  BY <2>1, StoppedIs
<1>2. CASE w.status = "done"
  <2>1. x = J!Stopped(w, "trailing")
    BY <1>2 DEF J!Step, KeyNext
  <2> QED  BY <1>1, <1>2, <2>1
<1>3. CASE w.status \notin {"open", "done"}
  <2>1. x = w
    BY <1>3 DEF J!Step, KeyNext
  <2> QED  BY <1>3, <2>1
<1>4. CASE w.status = "open"
  <2> SUFFICES x \in Walks(names) /\ (\/ x.status = "syntax"
                                      \/ Opens(w, token) \/ Closes(w, token)
                                      \/ Repeats(w, token) \/ IsNamed(w, token)
                                      \/ IsPlain(w, token))
    BY <1>4
  <2> DEFINE f == w.frames[Len(w.frames)]
  <2>1. CASE x = J!Value(w, token) /\ (w.frames # <<>> => ~KeyNext(f))
    <3>1. CASE token.mark \in J!Opening
      <4>1. J!Value(w, token) \in Walks(names)
        BY <1>4, <3>1, PushedIs
      <4>2. Opens(w, token)
        BY <2>1, <3>1 DEF Opens
      <4> QED  BY <2>1, <4>1, <4>2
    <3>2. CASE token.mark \in J!Closing
      <4>1. token.mark \notin J!Opening
        BY <3>2 DEF J!Opening, J!Closing
      <4>2. x = J!Stopped(w, "syntax")
        BY <2>1, <3>2, <4>1 DEF J!Value
      <4> QED  BY <1>1, <4>2
    <3>3. CASE token.mark \notin J!Opening /\ token.mark \notin J!Closing
      <4>1. x = J!Ended(w)
        BY <2>1, <3>3 DEF J!Value
      <4>2. J!Ended(w) \in Walks(names)
        BY <1>4, EndedIs
      <4>3. IsPlain(w, token)
        BY <2>1, <3>3, <4>1 DEF IsPlain
      <4> QED  BY <4>1, <4>2, <4>3
    <3> QED  BY <3>1, <3>2, <3>3
  <2>2. CASE w.frames = <<>>
    <3>1. x = J!Value(w, token)
      BY <1>4, <2>2 DEF J!Step, KeyNext
    <3> QED  BY <2>1, <2>2, <3>1
  <2>3. CASE w.frames # <<>> /\ ~KeyNext(f)
    <3>1. J!Top(w) = f
      BY DEF J!Top
    <3>2. CASE f.mark = "[" /\ token.mark = "]"
      <4>1. x = J!Closed(w)
        BY <1>4, <2>3, <3>1, <3>2 DEF J!Step, KeyNext
      <4>2. token.mark \in J!Closing
        BY <3>2 DEF J!Closing
      <4>3. J!Closed(w) \in Walks(names)
        BY <1>4, <2>3, ClosedIs
      <4>4. Closes(w, token)
        BY <2>3, <4>1, <4>2 DEF Closes
      <4> QED  BY <4>1, <4>3, <4>4
    <3>3. CASE ~(f.mark = "[" /\ token.mark = "]")
      <4>1. x = J!Value(w, token)
        BY <1>4, <2>3, <3>1, <3>3 DEF J!Step, KeyNext
      <4> QED  BY <2>1, <2>3, <4>1
    <3> QED  BY <3>2, <3>3
  <2>4. CASE w.frames # <<>> /\ KeyNext(f)
    <3>1. J!Top(w) = f
      BY DEF J!Top
    <3>2. x = J!Key(w, token)
      BY <1>4, <2>4, <3>1 DEF J!Step, KeyNext
    <3>3. CASE token.mark = "}"
      <4>1. x = J!Closed(w)
        BY <3>2, <3>3 DEF J!Key
      <4>2. token.mark \in J!Closing
        BY <3>3 DEF J!Closing
      <4>3. J!Closed(w) \in Walks(names)
        BY <1>4, <2>4, ClosedIs
      <4>4. Closes(w, token)
        BY <2>4, <4>1, <4>2 DEF Closes
      <4> QED  BY <4>1, <4>3, <4>4
    <3>4. CASE token.mark = "string" /\ token.name \in f.seen
      <4>1. x = J!Stopped(w, "duplicate")
        BY <3>1, <3>2, <3>4 DEF J!Key
      <4>2. x \in Walks(names) /\ x.status = "duplicate"
        BY <1>1, <4>1
      <4>3. Repeats(w, token)
        BY <2>4, <3>4, <4>2 DEF Repeats, IsKey
      <4> QED  BY <4>2, <4>3
    <3>5. CASE token.mark = "string" /\ token.name \notin f.seen
      <4>1. J!Key(w, token) \in Walks(names)
        BY <1>4, <2>4, <3>1, <3>5, KeyRead
      <4>2. IsNamed(w, token)
        BY <2>4, <3>2, <3>5 DEF IsNamed, IsKey
      <4> QED  BY <3>2, <4>1, <4>2
    <3>6. CASE token.mark \notin {"}", "string"}
      <4>1. x = J!Stopped(w, "syntax")
        BY <3>2, <3>6 DEF J!Key
      <4> QED  BY <1>1, <4>1
    <3> QED  BY <3>3, <3>4, <3>5, <3>6
  <2> QED  BY <2>2, <2>3, <2>4
<1> QED  BY <1>2, <1>3, <1>4

\* A walk after n tokens of a text keeps what has been read of the text.
FrameFits(t, n, k, f) ==
    LET h == HeadAt(t, n, k)
    IN  /\ Heads(t, n, k) # {} /\ f.mark = t[h].mark
        /\ f.mark = Brace => /\ f.seen = {t[i].name : i \in KeysRead(t, n, h)}
                           /\ \A i \in KeysRead(t, n, h) : t[i].mark = "string"
Even(t, n, k) == CountRead(t, n, HeadAt(t, n, k)) % 2 = 0

Follows(t, n, w) ==
    LET d == Len(w.frames)
    IN  /\ w \in Walks(NamesOf(t)) /\ w.status \in {"open", "done"}
        /\ w.status = "done" => w.frames = <<>>
        /\ Level(t, n + 1) = d
        /\ \A k \in 1..d :
              /\ FrameFits(t, n, k, w.frames[k])
              /\ KeyNext(w.frames[k]) => w.frames[k].mark = Brace
              /\ k < d => ~KeyNext(w.frames[k])
              /\ w.frames[k].mark = Brace =>
                    (Even(t, n, k) <=> (k < d \/ KeyNext(w.frames[k])))
        /\ ~RepeatRead(t, n)

\* The same, with a name for the depth.
LEMMA FollowsIf ==
    ASSUME NEW t, NEW n, NEW m, m = n + 1, NEW x, NEW d, Len(x.frames) = d,
           x \in Walks(NamesOf(t)), x.status \in {"open", "done"},
           x.status = "done" => x.frames = <<>>,
           Level(t, m) = d,
           \A k \in 1..d :
              /\ FrameFits(t, n, k, x.frames[k])
              /\ KeyNext(x.frames[k]) => x.frames[k].mark = Brace
              /\ k < d => ~KeyNext(x.frames[k])
              /\ x.frames[k].mark = Brace =>
                    (Even(t, n, k) <=> (k < d \/ KeyNext(x.frames[k]))),
           ~RepeatRead(t, n)
    PROVE  Follows(t, n, x)
BY DEF Follows

\* What is open below its own depth is left alone by a token.
LEMMA BelowKept ==
    ASSUME NEW t, TokenText(t), NEW n \in 0..Len(t), n < Len(t), NEW d \in Nat,
           Level(t, n + 1) = d, d # 0, Heads(t, n, d) # {},
           NEW k \in 1..d, k < d, NEW f, FrameFits(t, n, k, f)
    PROVE  FrameFits(t, n + 1, k, f) /\ (Even(t, n + 1, k) <=> Even(t, n, k))
<1> DEFINE h == HeadAt(t, n, k)
<1>1. n + 1 \in 1..Len(t) /\ (n + 1) - 1 = n /\ d \in 1..d
  BY DEF TokenText
<1>2. Holder(t, n + 1) = HeadAt(t, n, d)
  BY <1>1, HolderIs
<1>3. Heads(t, n, k) # {} /\ f.mark = t[h].mark
  BY DEF FrameFits
<1>4. Level(t, h) = k - 1 /\ Level(t, HeadAt(t, n, d)) = d - 1
  BY <1>3, HeadIs
<1>5. h # Holder(t, n + 1)
  BY <1>2, <1>4
<1>6. Heads(t, n + 1, k) = Heads(t, n, k) /\ HeadAt(t, n + 1, k) = h
  BY HeadsKept
<1>7. /\ CountRead(t, n + 1, h) = CountRead(t, n, h)
      /\ KeysRead(t, n + 1, h) = KeysRead(t, n, h)
  BY <1>5, ReadMore
<1> QED  BY <1>6, <1>7 DEF FrameFits, Even

\* What is open at its own depth holds it.
LEMMA TopRead ==
    ASSUME NEW t, TokenText(t), NEW n \in 0..Len(t), n < Len(t), NEW d \in Nat,
           Level(t, n + 1) = d, d # 0, Heads(t, n, d) # {}, NEW h, h = HeadAt(t, n, d)
    PROVE  /\ Holder(t, n + 1) = h /\ h \in DOMAIN t /\ t[h].mark \in J!Opening
           /\ Heads(t, n + 1, d) # {} /\ HeadAt(t, n + 1, d) = h
           /\ t[n + 1].mark \in J!Closing =>
                 /\ Even(t, n + 1, d) <=> Even(t, n, d)
                 /\ KeysRead(t, n + 1, h) = KeysRead(t, n, h)
           /\ t[n + 1].mark \notin J!Closing =>
                 /\ Even(t, n + 1, d) <=> ~Even(t, n, d)
                 /\ Even(t, n, d) => KeysRead(t, n + 1, h) = KeysRead(t, n, h) \cup {n + 1}
                 /\ ~Even(t, n, d) => KeysRead(t, n + 1, h) = KeysRead(t, n, h)
           /\ \A g \in DOMAIN t : n + 1 \in KeysOf(t, g) <=>
                 t[n + 1].mark \notin J!Closing /\ g = h /\ Even(t, n, d)
<1>1. n + 1 \in 1..Len(t) /\ (n + 1) - 1 = n /\ d \in 1..d
  BY DEF TokenText
<1>2. Holder(t, n + 1) = h
  BY <1>1, HolderIs
<1>3. h \in DOMAIN t /\ t[h].mark \in J!Opening
  BY HeadIs
<1>4. Heads(t, n + 1, d) = Heads(t, n, d) /\ HeadAt(t, n + 1, d) = h
  BY <1>1, HeadsKept
<1>5. PICK c, e : c = CountRead(t, n, h) /\ e = CountRead(t, n + 1, h)
  OBVIOUS
<1>6. (Even(t, n, d) <=> c % 2 = 0) /\ (Even(t, n + 1, d) <=> e % 2 = 0)
  BY <1>4, <1>5 DEF Even
<1>7. /\ c \in Nat
      /\ n + 1 \in KeysOf(t, h) <=> t[n + 1].mark \notin J!Closing /\ c % 2 = 0
      /\ KeysRead(t, n + 1, h) = IF n + 1 \in KeysOf(t, h) THEN KeysRead(t, n, h) \cup {n + 1}
                                 ELSE KeysRead(t, n, h)
      /\ t[n + 1].mark \in J!Closing => e = c
      /\ t[n + 1].mark \notin J!Closing => e = c + 1
  BY <1>2, <1>5, ReadMore
<1>8. \A g \in DOMAIN t : n + 1 \in KeysOf(t, g) =>
         t[n + 1].mark \notin J!Closing /\ Holder(t, n + 1) = g
  BY DEF KeysOf, Members
<1>9. (c + 1) % 2 = 0 <=> ~(c % 2 = 0)
  BY <1>7
<1>10. \A g \in DOMAIN t : n + 1 \in KeysOf(t, g) <=>
          t[n + 1].mark \notin J!Closing /\ g = h /\ Even(t, n, d)
  BY <1>2, <1>3, <1>6, <1>7, <1>8
<1> QED  BY <1>2, <1>3, <1>4, <1>6, <1>7, <1>9, <1>10

\* A token that is no key repeats none.
LEMMA NoKeyMore ==
    ASSUME NEW t, TokenText(t), NEW n \in 0..Len(t), n < Len(t),
           \A h \in DOMAIN t : t[h].mark = Brace => n + 1 \notin KeysOf(t, h),
           ~RepeatRead(t, n)
    PROVE  ~RepeatRead(t, n + 1)
<1>1. ASSUME NEW h \in DOMAIN t, t[h].mark = Brace
      PROVE  KeysRead(t, n + 1, h) = KeysRead(t, n, h)
  <2>1. n + 1 \notin KeysOf(t, h)
    BY <1>1
  <2> QED  BY <2>1, ReadMore
<1> QED  BY <1>1 DEF RepeatRead

\* What a walk that follows the text says of its end.
LEMMA AtEnd ==
    ASSUME NEW t, TokenText(t), NEW n \in 0..Len(t), n < Len(t), NEW w, Follows(t, n, w)
    PROVE  /\ w \in Walks(NamesOf(t)) /\ t[n + 1].name \in NamesOf(t)
           /\ Len(w.frames) \in Nat /\ Level(t, n + 1) = Len(w.frames)
           /\ w.frames = <<>> <=> Len(w.frames) = 0
           /\ \A k \in 1..Len(w.frames) : Heads(t, n, k) # {}
<1>1. w \in Walks(NamesOf(t)) /\ Level(t, n + 1) = Len(w.frames)
  BY DEF Follows
<1>2. w.frames \in Seq(WalkFrames(NamesOf(t)))
  BY <1>1 DEF Walks
<1>3. Len(w.frames) \in Nat /\ (w.frames = <<>> <=> Len(w.frames) = 0)
  BY <1>2
<1>4. t[n + 1].name \in NamesOf(t)
  BY DEF NamesOf, TokenText
<1>5. \A k \in 1..Len(w.frames) : Heads(t, n, k) # {}
  BY DEF Follows, FrameFits
<1> QED  BY <1>1, <1>3, <1>4, <1>5

\* At the top, and where a value is read, a token is no key.
LEMMA ValueIsNoKey ==
    ASSUME NEW t, TokenText(t), NEW n \in 0..Len(t), n < Len(t), NEW w, Follows(t, n, w),
           \/ w.frames = <<>> \/ t[n + 1].mark \in J!Closing
           \/ ~KeyNext(w.frames[Len(w.frames)])
    PROVE  ~RepeatRead(t, n + 1)
<1> DEFINE d == Len(w.frames)
<1>1. d \in Nat /\ Level(t, n + 1) = d /\ (w.frames = <<>> <=> d = 0)
      /\ \A k \in 1..d : Heads(t, n, k) # {}
  BY AtEnd
<1>2. n + 1 \in 1..Len(t) /\ DOMAIN t = 1..Len(t)
  BY DEF TokenText
<1>3. \A h \in DOMAIN t : t[h].mark = Brace => n + 1 \notin KeysOf(t, h)
  <2>1. CASE d = 0
    <3>1. Holder(t, n + 1) = 0
      BY <1>1, <1>2, <2>1, HolderIs
    <3>2. \A h \in DOMAIN t : Holder(t, n + 1) # h
      BY <1>2, <3>1
    <3> QED  BY <3>2 DEF KeysOf, Members
  <2>2. CASE d # 0
    <3>1. d \in 1..d
      BY <1>1, <2>2
    <3> PICK head : head = HeadAt(t, n, d)
      OBVIOUS
    <3>2. \A g \in DOMAIN t : n + 1 \in KeysOf(t, g) <=>
             /\ t[n + 1].mark \notin J!Closing /\ g = head /\ Even(t, n, d)
      <4> HIDE DEF d
      <4> QED  BY <1>1, <2>2, <3>1, TopRead
    <3>3. /\ w.frames[d].mark = t[head].mark
          /\ w.frames[d].mark = Brace => (Even(t, n, d) <=> KeyNext(w.frames[d]))
      BY <1>1, <3>1 DEF Follows, FrameFits
    <3> QED  BY <1>1, <2>2, <3>2, <3>3
  <2> QED  BY <2>1, <2>2
<1>4. ~RepeatRead(t, n)
  BY DEF Follows
<1> QED  BY <1>3, <1>4, NoKeyMore

\* An opened object or array is the last at its depth, and nothing in it has been read.
LEMMA FollowsOpened ==
    ASSUME NEW t, TokenText(t), NEW n \in 0..Len(t), n < Len(t), NEW w, Follows(t, n, w),
           w.status = "open", Opens(w, t[n + 1]),
           NEW x, x = J!Step(w, t[n + 1]), NEW d, d = Len(w.frames),
           NEW m, m = t[n + 1].mark
    PROVE  Follows(t, n + 1, x)
<1>1. w \in Walks(NamesOf(t))
  BY AtEnd
<1>2. /\ d \in Nat /\ x \in Walks(NamesOf(t)) /\ Len(x.frames) = d + 1 /\ x.status = "open"
      /\ \A k \in 1..d : x.frames[k] = w.frames[k]
      /\ x.frames[d + 1].mark = m /\ x.frames[d + 1].seen = {}
      /\ KeyNext(x.frames[d + 1]) <=> m = Brace
  <2>1. x = J!Value(w, t[n + 1]) /\ m \in J!Opening
    BY DEF Opens
  <2>2. w \in Walks(NamesOf(t)) /\ w.status = "open" /\ d = Len(w.frames) /\ t[n + 1].mark = m
    BY <1>1
  <2>3. d \in Nat /\ x \in Walks(NamesOf(t)) /\ Len(x.frames) = d + 1 /\ x.status = "open"
    BY ONLY <2>1, <2>2, PushedIs, SMTT(30)
  <2>4. \A k \in 1..d : x.frames[k] = w.frames[k]
    BY ONLY <2>1, <2>2, PushedIs, SMTT(30)
  <2>5. x.frames[d + 1].mark = m /\ x.frames[d + 1].seen = {}
    BY ONLY <2>1, <2>2, PushedIs, SMTT(30)
  <2>6. KeyNext(x.frames[d + 1]) <=> m = Brace
    BY ONLY <2>1, <2>2, PushedIs, SMTT(30)
  <2> QED  BY ONLY <2>3, <2>4, <2>5, <2>6
<1>3. Level(t, n + 1) = d /\ (w.frames = <<>> <=> d = 0) /\ \A k \in 1..d : Heads(t, n, k) # {}
  BY AtEnd
<1>4. n + 1 \in 1..Len(t) /\ n + 1 + 1 \in 1..(Len(t) + 1) /\ n + 1 \in 0..Len(t)
  BY DEF TokenText
<1>5. m \in J!Opening /\ m \notin J!Closing
  BY DEF Opens, J!Opening, J!Closing
<1>6. Level(t, n + 1 + 1) = d + 1
  BY <1>3, <1>4, <1>5, LevelIs
<1>7. ~RepeatRead(t, n + 1)
  BY ValueIsNoKey DEF Opens
<1>8. Heads(t, n + 1, d + 1) # {} /\ HeadAt(t, n + 1, d + 1) = n + 1
  <2> QED  BY <1>2, <1>3, <1>5, HeadsKept
<1>9. /\ FrameFits(t, n + 1, d + 1, x.frames[d + 1]) /\ Even(t, n + 1, d + 1)
  <2>1. CountRead(t, n + 1, n + 1) = 0 /\ KeysRead(t, n + 1, n + 1) = {}
    BY <1>4, ReadNone
  <2> QED  BY <1>2, <1>8, <2>1 DEF FrameFits, Even
<1>10. \A k \in 1..d : FrameFits(t, n, k, w.frames[k])
  BY DEF Follows
<1>11. ASSUME NEW k \in 1..d
       PROVE  /\ FrameFits(t, n + 1, k, w.frames[k]) /\ ~KeyNext(w.frames[k])
              /\ w.frames[k].mark = Brace => Even(t, n + 1, k)
  <2>1. FrameFits(t, n, k, w.frames[k])
    BY <1>10
  <2>2. CASE k < d
    <3>1. FrameFits(t, n + 1, k, w.frames[k]) /\ (Even(t, n + 1, k) <=> Even(t, n, k))
      <4>1. d # 0 /\ Heads(t, n, d) # {}
        BY <1>2, <1>3, <2>2
      <4> QED  BY <1>2, <1>3, <2>1, <2>2, <4>1, BelowKept
    <3> QED  BY <1>2, <2>2, <3>1 DEF Follows
  <2>3. CASE k = d
    <3>1. d # 0 /\ Heads(t, n, d) # {}
      BY <1>3, <2>3
    <3> PICK head : head = HeadAt(t, n, d)
      OBVIOUS
    <3>2. /\ HeadAt(t, n + 1, d) = head /\ Heads(t, n + 1, d) # {}
          /\ Even(t, n + 1, d) <=> ~Even(t, n, d)
          /\ ~Even(t, n, d) => KeysRead(t, n + 1, head) = KeysRead(t, n, head)
      <4> QED  BY <1>2, <1>3, <1>5, <3>1, TopRead
    <3>3. ~KeyNext(w.frames[d])
      BY <1>3, <3>1 DEF Opens
    <3>4. w.frames[d].mark = Brace => ~Even(t, n, d)
      BY <1>2, <2>3, <3>3 DEF Follows
    <3>5. FrameFits(t, n + 1, d, w.frames[d])
      BY <2>1, <2>3, <3>2, <3>4 DEF FrameFits
    <3> QED  BY <2>3, <3>2, <3>3, <3>4, <3>5
  <2> QED  BY <2>2, <2>3
<1>12. ASSUME NEW k \in 1..(d + 1)
       PROVE  /\ FrameFits(t, n + 1, k, x.frames[k])
              /\ KeyNext(x.frames[k]) => x.frames[k].mark = Brace
              /\ k < d + 1 => ~KeyNext(x.frames[k])
              /\ x.frames[k].mark = Brace =>
                    (Even(t, n + 1, k) <=> (k < d + 1 \/ KeyNext(x.frames[k])))
  <2>1. CASE k = d + 1
    BY <1>2, <1>9, <2>1
  <2>2. CASE k # d + 1
    <3>1. k \in 1..d /\ k < d + 1
      BY <1>2, <2>2
    <3> QED  BY <1>2, <1>11, <3>1
  <2> QED  BY <2>1, <2>2
<1> QED  BY <1>2, <1>6, <1>7, <1>12 DEF Follows

\* A closed one leaves those it lies in as they were when it was opened.
LEMMA FollowsClosed ==
    ASSUME NEW t, TokenText(t), NEW n \in 0..Len(t), n < Len(t), NEW w, Follows(t, n, w),
           w.status = "open", Closes(w, t[n + 1]),
           NEW x, x = J!Step(w, t[n + 1]), NEW d, d = Len(w.frames),
           NEW m, m = t[n + 1].mark
    PROVE  Follows(t, n + 1, x)
<1>1. w \in Walks(NamesOf(t))
  BY AtEnd
<1>2. /\ d \in Nat /\ d >= 1 /\ x \in Walks(NamesOf(t)) /\ Len(x.frames) = d - 1
      /\ d = 1 => x.status = "done"
      /\ d # 1 => x.status = "open"
      /\ \A k \in 1..(d - 1) :
            /\ k < d - 1 => x.frames[k] = w.frames[k]
            /\ k = d - 1 =>
                  /\ x.frames[k].mark = w.frames[k].mark
                  /\ x.frames[k].seen = w.frames[k].seen
                  /\ KeyNext(x.frames[k]) <=> w.frames[k].mark = Brace
  <2>1. x = J!Closed(w) /\ w.frames # <<>>
    BY DEF Closes
  <2>2. /\ w \in Walks(NamesOf(t)) /\ w.status = "open" /\ w.frames # <<>>
        /\ x = J!Closed(w) /\ d = Len(w.frames)
    BY <1>1, <2>1
  <2>3. /\ d \in Nat /\ d >= 1 /\ x \in Walks(NamesOf(t)) /\ Len(x.frames) = d - 1
        /\ d = 1 => x.status = "done"
        /\ d # 1 => x.status = "open"
    <3>1. d \in Nat /\ d >= 1
      BY ONLY <2>2, ClosedIs, SMTT(30)
    <3>2. x \in Walks(NamesOf(t)) /\ Len(x.frames) = d - 1
      BY ONLY <2>2, ClosedIs, SMTT(30)
    <3>3. IF Len(w.frames) = 1 THEN J!Closed(w).status = "done"
                               ELSE J!Closed(w).status = "open"
      BY ONLY <2>2, ClosedStatus
    <3>4. (d = 1 => x.status = "done") /\ (d # 1 => x.status = "open")
      BY ONLY <2>2, <3>3
    <3> QED  BY ONLY <3>1, <3>2, <3>3, <3>4
  <2>4. \A k \in 1..(d - 1) : k < d - 1 => x.frames[k] = w.frames[k]
    BY ONLY <2>2, ClosedIs, SMTT(30)
  <2>5. \A k \in 1..(d - 1) : k = d - 1 => x.frames[k].mark = w.frames[k].mark
    BY ONLY <2>2, ClosedIs, SMTT(30)
  <2>6. \A k \in 1..(d - 1) : k = d - 1 => x.frames[k].seen = w.frames[k].seen
    BY ONLY <2>2, ClosedIs, SMTT(30)
  <2>7. \A k \in 1..(d - 1) : k = d - 1 => (KeyNext(x.frames[k]) <=> w.frames[k].mark = Brace)
    BY ONLY <2>2, ClosedIs, SMTT(30)
  <2> QED  BY <2>3, <2>4, <2>5, <2>6, <2>7
<1>3. Level(t, n + 1) = d /\ \A k \in 1..d : Heads(t, n, k) # {}
  BY AtEnd
<1>4. n + 1 \in 1..Len(t)
  BY DEF TokenText
<1>5. m \in J!Closing
  BY DEF Closes
<1>6. Level(t, n + 1 + 1) = d - 1
  BY <1>3, <1>4, <1>5, LevelIs
<1>7. ~RepeatRead(t, n + 1)
  BY <1>5, ValueIsNoKey
<1>8. x.frames \in Seq(WalkFrames(NamesOf(t)))
  BY <1>2 DEF Walks
<1>9. x.status = "done" => x.frames = <<>>
  <2>1. Len(x.frames) = 0 => x.frames = <<>>
    BY <1>8
  <2>2. x.status = "done" => d = 1
    BY <1>2
  <2> QED  BY <1>2, <2>1, <2>2
<1>10. ASSUME NEW k \in 1..(d - 1)
      PROVE  /\ FrameFits(t, n + 1, k, w.frames[k]) /\ ~KeyNext(w.frames[k])
             /\ w.frames[k].mark = Brace => Even(t, n + 1, k)
  <2>1. k \in 1..d /\ k < d /\ d # 0 /\ Heads(t, n, d) # {}
    BY <1>2, <1>3
  <2>2. FrameFits(t, n, k, w.frames[k]) /\ ~KeyNext(w.frames[k])
         /\ (w.frames[k].mark = Brace => Even(t, n, k))
    BY <1>2, <2>1 DEF Follows
  <2>3. FrameFits(t, n + 1, k, w.frames[k]) /\ (Even(t, n + 1, k) <=> Even(t, n, k))
    <3> QED  BY <1>2, <1>3, <2>1, <2>2, BelowKept
  <2> QED  BY <2>2, <2>3
<1>11. ASSUME NEW k \in 1..(d - 1)
       PROVE  /\ FrameFits(t, n + 1, k, x.frames[k])
              /\ KeyNext(x.frames[k]) => x.frames[k].mark = Brace
              /\ k < d - 1 => ~KeyNext(x.frames[k])
              /\ x.frames[k].mark = Brace =>
                    (Even(t, n + 1, k) <=> (k < d - 1 \/ KeyNext(x.frames[k])))
  <2>1. CASE k < d - 1
    BY <1>2, <1>10, <2>1
  <2>2. CASE k = d - 1
    <3>1. /\ x.frames[k].mark = w.frames[k].mark /\ x.frames[k].seen = w.frames[k].seen
          /\ KeyNext(x.frames[k]) <=> w.frames[k].mark = Brace
      BY <1>2, <2>2
    <3>2. FrameFits(t, n + 1, k, x.frames[k])
      BY <1>10, <3>1 DEF FrameFits
    <3> QED  BY <1>10, <2>2, <3>1, <3>2
  <2> QED  BY <2>1, <2>2
<1> QED  BY <1>2, <1>6, <1>7, <1>9, <1>11 DEF Follows

\* A key that is read is a key of the innermost object.
LEMMA IsKeyOfTop ==
    ASSUME NEW t, TokenText(t), NEW n \in 0..Len(t), n < Len(t), NEW w, Follows(t, n, w),
           IsKey(w, t[n + 1]), NEW d, d = Len(w.frames), NEW head, head = HeadAt(t, n, d)
    PROVE  /\ d \in Nat /\ d # 0 /\ head \in DOMAIN t /\ t[head].mark = Brace
           /\ w.frames[d].mark = Brace
           /\ w.frames[d].seen = {t[i].name : i \in KeysRead(t, n, head)}
           /\ \A i \in KeysRead(t, n, head) : t[i].mark = "string"
           /\ Even(t, n, d) /\ ~Even(t, n + 1, d)
           /\ Heads(t, n + 1, d) # {} /\ HeadAt(t, n + 1, d) = head
           /\ KeysRead(t, n + 1, head) = KeysRead(t, n, head) \cup {n + 1}
           /\ \A g \in DOMAIN t : n + 1 \in KeysOf(t, g) <=> g = head
<1>1. d \in Nat /\ Level(t, n + 1) = d /\ (w.frames = <<>> <=> d = 0)
      /\ \A k \in 1..d : Heads(t, n, k) # {}
  BY AtEnd
<1>2. w.frames # <<>> /\ KeyNext(w.frames[d]) /\ t[n + 1].mark \notin J!Closing
  BY DEF IsKey, J!Closing
<1>3. d # 0 /\ d \in 1..d /\ Heads(t, n, d) # {}
  BY <1>1, <1>2
<1>4. FrameFits(t, n, d, w.frames[d]) /\ w.frames[d].mark = Brace /\ Even(t, n, d)
  BY <1>1, <1>2, <1>3 DEF Follows
<1>5. /\ t[head].mark = Brace /\ w.frames[d].seen = {t[i].name : i \in KeysRead(t, n, head)}
      /\ \A i \in KeysRead(t, n, head) : t[i].mark = "string"
  BY <1>4 DEF FrameFits
<1>6. /\ head \in DOMAIN t /\ Heads(t, n + 1, d) # {} /\ HeadAt(t, n + 1, d) = head
      /\ ~Even(t, n + 1, d)
      /\ KeysRead(t, n + 1, head) = KeysRead(t, n, head) \cup {n + 1}
  BY <1>1, <1>2, <1>3, <1>4, TopRead
<1>7. \A g \in DOMAIN t : n + 1 \in KeysOf(t, g) <=>
         t[n + 1].mark \notin J!Closing /\ g = head /\ Even(t, n, d)
  BY <1>1, <1>3, TopRead
<1> QED  BY <1>1, <1>2, <1>3, <1>4, <1>5, <1>6, <1>7

\* A key with a name that was seen repeats a key.
LEMMA FollowsRepeated ==
    ASSUME NEW t, TokenText(t), NEW n \in 0..Len(t), n < Len(t), NEW w, Follows(t, n, w),
           Repeats(w, t[n + 1])
    PROVE  RepeatRead(t, n + 1)
<1> PICK d, head : d = Len(w.frames) /\ head = HeadAt(t, n, d)
  OBVIOUS
<1>1. IsKey(w, t[n + 1]) /\ t[n + 1].name \in w.frames[d].seen /\ t[n + 1].mark = "string"
  BY DEF Repeats, IsKey
<1>2. /\ head \in DOMAIN t /\ t[head].mark = Brace
      /\ w.frames[d].seen = {t[i].name : i \in KeysRead(t, n, head)}
      /\ \A i \in KeysRead(t, n, head) : t[i].mark = "string"
      /\ KeysRead(t, n + 1, head) = KeysRead(t, n, head) \cup {n + 1}
  BY <1>1, IsKeyOfTop
<1>3. PICK i \in KeysRead(t, n, head) : t[n + 1].name = t[i].name
  BY <1>1, <1>2
<1>4. i # n + 1
  <2>1. KeysOf(t, head) \subseteq 1..Len(t)
    BY DEF KeysOf, Members, TokenText
  <2>2. i <= n /\ i \in 1..Len(t)
    BY <2>1 DEF KeysRead
  <2> QED  BY <2>2
<1>5. i \in KeysRead(t, n + 1, head) /\ n + 1 \in KeysRead(t, n + 1, head)
  BY <1>2
<1> QED  BY <1>1, <1>2, <1>3, <1>4, <1>5 DEF RepeatRead

\* A key with a new name is one more of those seen.
LEMMA FollowsNamed ==
    ASSUME NEW t, TokenText(t), NEW n \in 0..Len(t), n < Len(t), NEW w, Follows(t, n, w),
           w.status = "open", IsNamed(w, t[n + 1]),
           NEW x, x = J!Step(w, t[n + 1]), NEW d, d = Len(w.frames),
           NEW head, head = HeadAt(t, n, d)
    PROVE  Follows(t, n + 1, x)
<1>1. w \in Walks(NamesOf(t)) /\ t[n + 1].name \in NamesOf(t)
  BY AtEnd
<1>2. IsKey(w, t[n + 1]) /\ t[n + 1].name \notin w.frames[d].seen /\ x = J!Key(w, t[n + 1])
      /\ t[n + 1].mark = "string" /\ w.frames # <<>>
  BY DEF IsNamed, IsKey
<1>3. /\ d \in Nat /\ d >= 1 /\ x \in Walks(NamesOf(t)) /\ Len(x.frames) = d
      /\ x.status = "open"
      /\ \A k \in 1..d : k < d => x.frames[k] = w.frames[k]
      /\ x.frames[d].mark = w.frames[d].mark /\ ~KeyNext(x.frames[d])
      /\ x.frames[d].seen = w.frames[d].seen \cup {t[n + 1].name}
  <2>1. J!Top(w) = w.frames[d]
    BY DEF J!Top
  <2> QED  BY <1>1, <1>2, <2>1, KeyRead
<1>4. /\ head \in DOMAIN t /\ t[head].mark = Brace /\ w.frames[d].mark = Brace
      /\ w.frames[d].seen = {t[i].name : i \in KeysRead(t, n, head)}
      /\ \A i \in KeysRead(t, n, head) : t[i].mark = "string"
      /\ Even(t, n, d) /\ ~Even(t, n + 1, d)
      /\ Heads(t, n + 1, d) # {} /\ HeadAt(t, n + 1, d) = head
      /\ KeysRead(t, n + 1, head) = KeysRead(t, n, head) \cup {n + 1}
  BY <1>2, IsKeyOfTop
<1>5. \A g \in DOMAIN t : n + 1 \in KeysOf(t, g) <=> g = head
  BY <1>2, IsKeyOfTop
<1>6. Level(t, n + 1) = d /\ \A k \in 1..d : Heads(t, n, k) # {}
  BY AtEnd
<1>7. n + 1 \in 1..Len(t)
  BY DEF TokenText
<1>8. Level(t, n + 1 + 1) = d
  <2>1. t[n + 1].mark \notin J!Opening \cup J!Closing
    BY <1>2 DEF J!Opening, J!Closing
  <2> QED  BY <1>6, <1>7, <2>1, LevelIs
<1>9. FrameFits(t, n + 1, d, x.frames[d])
  <2>1. {t[i].name : i \in KeysRead(t, n + 1, head)} =
           {t[i].name : i \in KeysRead(t, n, head)} \cup {t[n + 1].name}
    BY <1>4
  <2> QED  BY <1>2, <1>3, <1>4, <2>1 DEF FrameFits
<1>10. ASSUME NEW k \in 1..d, k < d
      PROVE  FrameFits(t, n + 1, k, x.frames[k]) /\ ~KeyNext(x.frames[k])
             /\ (x.frames[k].mark = Brace => Even(t, n + 1, k))
  <2>1. k \in 1..d /\ k < d /\ d # 0 /\ Heads(t, n, d) # {} /\ x.frames[k] = w.frames[k]
    BY <1>3, <1>6, <1>10
  <2>2. FrameFits(t, n, k, w.frames[k]) /\ ~KeyNext(w.frames[k])
        /\ (w.frames[k].mark = Brace => Even(t, n, k))
    BY <1>3, <2>1 DEF Follows
  <2>3. FrameFits(t, n + 1, k, w.frames[k]) /\ (Even(t, n + 1, k) <=> Even(t, n, k))
    BY <1>3, <1>6, <2>1, <2>2, BelowKept
  <2> QED  BY <2>1, <2>2, <2>3
<1>11. ASSUME NEW k \in 1..d
       PROVE  /\ FrameFits(t, n + 1, k, x.frames[k])
              /\ KeyNext(x.frames[k]) => x.frames[k].mark = Brace
              /\ k < d => ~KeyNext(x.frames[k])
              /\ x.frames[k].mark = Brace =>
                    (Even(t, n + 1, k) <=> (k < d \/ KeyNext(x.frames[k])))
  <2>1. CASE k < d
    BY <1>10, <2>1
  <2>2. CASE k = d
    <3>1. ~(k < d)
      BY <1>3, <2>2
    <3> QED  BY <1>3, <1>4, <1>9, <2>2, <3>1
  <2>3. k < d \/ k = d
    BY <1>3
  <2> QED  BY <2>1, <2>2, <2>3
<1>12. ~RepeatRead(t, n + 1)
  <2> SUFFICES ASSUME NEW g \in DOMAIN t, t[g].mark = Brace,
                      NEW i \in KeysRead(t, n + 1, g), NEW j \in KeysRead(t, n + 1, g),
                      i # j, t[i].mark = "string", t[j].mark = "string",
                      t[i].name = t[j].name
               PROVE  FALSE
    BY DEF RepeatRead
  <2>1. ~RepeatRead(t, n)
    BY DEF Follows
  <2>2. CASE g # head
    <3>1. KeysRead(t, n + 1, g) = KeysRead(t, n, g)
      <4>1. n + 1 \notin KeysOf(t, g)
        BY <1>5, <2>2
      <4> QED  BY <4>1, ReadMore
    <3> QED  BY <2>1, <3>1 DEF RepeatRead
  <2>3. CASE g = head
    <3>1. i \in KeysRead(t, n, head) /\ j \in KeysRead(t, n, head) => FALSE
      BY <2>1, <2>3 DEF RepeatRead
    <3>2. \A m \in KeysRead(t, n, head) : t[m].name # t[n + 1].name
      BY <1>2, <1>4
    <3> QED  BY <1>4, <2>3, <3>1, <3>2
  <2> QED  BY <2>2, <2>3
<1>13. /\ Len(x.frames) = d /\ x \in Walks(NamesOf(t)) /\ x.status \in {"open", "done"}
       /\ x.status = "done" => x.frames = <<>>
  BY <1>3
<1>14. \A k \in 1..d :
          /\ FrameFits(t, n + 1, k, x.frames[k])
          /\ KeyNext(x.frames[k]) => x.frames[k].mark = Brace
          /\ k < d => ~KeyNext(x.frames[k])
          /\ x.frames[k].mark = Brace =>
                (Even(t, n + 1, k) <=> (k < d \/ KeyNext(x.frames[k])))
  BY <1>11
<1> QED  BY ONLY <1>8, <1>12, <1>13, <1>14, FollowsIf

\* A value that is read to its end leaves what it lies in ready for a key.
LEMMA FollowsEnded ==
    ASSUME NEW t, TokenText(t), NEW n \in 0..Len(t), n < Len(t), NEW w, Follows(t, n, w),
           w.status = "open", IsPlain(w, t[n + 1]),
           NEW x, x = J!Step(w, t[n + 1]), NEW d, d = Len(w.frames)
    PROVE  Follows(t, n + 1, x)
<1>1. w \in Walks(NamesOf(t)) /\ x = J!Ended(w)
  BY AtEnd DEF IsPlain
<1>2. d \in Nat /\ Level(t, n + 1) = d /\ (w.frames = <<>> <=> d = 0)
      /\ \A k \in 1..d : Heads(t, n, k) # {}
  BY AtEnd
<1>3. n + 1 \in 1..Len(t)
  BY DEF TokenText
<1>4. t[n + 1].mark \notin J!Opening \cup J!Closing
      /\ (w.frames # <<>> => ~KeyNext(w.frames[d]))
  BY DEF IsPlain
<1>5. Level(t, n + 1 + 1) = d
  BY <1>2, <1>3, <1>4, LevelIs
<1>6. ~RepeatRead(t, n + 1)
  BY <1>4, ValueIsNoKey
<1>7. CASE d = 0
  <2>1. x \in Walks(NamesOf(t)) /\ x.frames = <<>> /\ x.status = "done"
    BY <1>1, <1>2, <1>7, EndedIs
  <2>2. Len(x.frames) = 0
    BY <2>1
  <2> QED  BY <1>5, <1>6, <1>7, <2>1, <2>2 DEF Follows
<1>8. CASE d # 0
  <2>1. /\ x \in Walks(NamesOf(t)) /\ x.status = "open" /\ Len(x.frames) = d
        /\ \A k \in 1..d : k < d => x.frames[k] = w.frames[k]
        /\ x.frames[d].mark = w.frames[d].mark /\ x.frames[d].seen = w.frames[d].seen
        /\ KeyNext(x.frames[d]) <=> w.frames[d].mark = Brace
    <3>1. w.frames # <<>>
      BY <1>2, <1>8
    <3> QED  BY <1>1, <3>1, EndedIs
  <2> PICK head : head = HeadAt(t, n, d)
    OBVIOUS
  <2>2. d \in 1..d /\ Heads(t, n, d) # {} /\ ~KeyNext(w.frames[d])
    BY <1>2, <1>4, <1>8
  <2>3. /\ HeadAt(t, n + 1, d) = head /\ Heads(t, n + 1, d) # {}
        /\ Even(t, n + 1, d) <=> ~Even(t, n, d)
        /\ ~Even(t, n, d) => KeysRead(t, n + 1, head) = KeysRead(t, n, head)
    BY <1>2, <1>4, <1>8, <2>2, TopRead
  <2>4. FrameFits(t, n, d, w.frames[d]) /\ (w.frames[d].mark = Brace => ~Even(t, n, d))
    BY <1>2, <2>2 DEF Follows
  <2>5. FrameFits(t, n + 1, d, x.frames[d])
    BY <2>1, <2>3, <2>4 DEF FrameFits
  <2>6. ASSUME NEW k \in 1..d, k < d
        PROVE  FrameFits(t, n + 1, k, x.frames[k]) /\ ~KeyNext(x.frames[k])
               /\ (x.frames[k].mark = Brace => Even(t, n + 1, k))
    <3>1. x.frames[k] = w.frames[k] /\ FrameFits(t, n, k, w.frames[k]) /\ ~KeyNext(w.frames[k])
          /\ (w.frames[k].mark = Brace => Even(t, n, k))
      BY <1>2, <2>1, <2>6 DEF Follows
    <3>2. FrameFits(t, n + 1, k, w.frames[k]) /\ (Even(t, n + 1, k) <=> Even(t, n, k))
      BY <1>2, <1>8, <2>2, <2>6, <3>1, BelowKept
    <3> QED  BY <3>1, <3>2
  <2>7. ASSUME NEW k \in 1..d
        PROVE  /\ FrameFits(t, n + 1, k, x.frames[k])
               /\ KeyNext(x.frames[k]) => x.frames[k].mark = Brace
               /\ k < d => ~KeyNext(x.frames[k])
               /\ x.frames[k].mark = Brace =>
                     (Even(t, n + 1, k) <=> (k < d \/ KeyNext(x.frames[k])))
    <3>1. CASE k < d
      BY <2>6, <3>1
    <3>2. CASE k = d
      BY <2>1, <2>3, <2>4, <2>5, <3>2
    <3>3. k < d \/ k = d
      BY <1>2
    <3> QED  BY <3>1, <3>2, <3>3
  <2> QED  BY <1>5, <1>6, <2>1, <2>7 DEF Follows
<1> QED  BY <1>7, <1>8

\* One token more.
LEMMA StepFollows ==
    ASSUME NEW t, TokenText(t), NEW n \in 0..Len(t), n < Len(t), NEW w, Follows(t, n, w),
           NEW x, x = J!Step(w, t[n + 1])
    PROVE  /\ x.status \in {"open", "done"} => Follows(t, n + 1, x)
           /\ x.status = "duplicate" => RepeatRead(t, n + 1)
           /\ x.status = "trailing" => ~RepeatRead(t, n + 1)
<1>1. w \in Walks(NamesOf(t)) /\ t[n + 1].name \in NamesOf(t)
  BY AtEnd
<1>2. CASE w.status = "done"
  <2>1. x.status = "trailing" /\ w.frames = <<>>
    BY <1>1, <1>2, Outcomes DEF Follows
  <2> QED  BY <2>1, ValueIsNoKey
<1>3. CASE w.status = "open"
  <2>1. \/ x.status = "syntax"
        \/ Opens(w, t[n + 1]) \/ Closes(w, t[n + 1])
        \/ Repeats(w, t[n + 1]) \/ IsNamed(w, t[n + 1]) \/ IsPlain(w, t[n + 1])
    BY <1>1, <1>3, Outcomes
  <2>2. CASE \/ Opens(w, t[n + 1]) \/ Closes(w, t[n + 1])
             \/ IsNamed(w, t[n + 1]) \/ IsPlain(w, t[n + 1])
    <3>1. Follows(t, n + 1, x)
      BY <1>3, <2>2, FollowsOpened, FollowsClosed, FollowsNamed, FollowsEnded
    <3> QED  BY <3>1 DEF Follows
  <2>3. CASE Repeats(w, t[n + 1])
    <3>1. x.status = "duplicate"
      BY <2>3 DEF Repeats
    <3> QED  BY <2>3, <3>1, FollowsRepeated
  <2> QED  BY <2>1, <2>2, <2>3
<1> QED  BY <1>2, <1>3 DEF Follows

\* The recursion of Walk.
IsWalking(f, t) ==
    f = [n \in 0..Len(t) |-> IF n = 0 THEN J!Start ELSE J!Step(f[n - 1], t[n])]

\* A walk exists, and Walk is what it comes to.
LEMMA WalkExists ==
    ASSUME NEW t, TokenText(t)
    PROVE  /\ J!Start \in Walks(NamesOf(t)) /\ J!Start.status = "open" /\ J!Start.frames = <<>>
           /\ \E f : /\ IsWalking(f, t) /\ J!Walk(t) = f[Len(t)]
                     /\ f \in [0..Len(t) -> Walks(NamesOf(t))]
<1> DEFINE N == Len(t)
           V == Walks(NamesOf(t))
           g == [p \in (1..N) \X V |-> J!Step(p[2], t[p[1]])]
           a == J!Start
           h == CHOOSE h : IsWalking(h, t)
<1>1. N \in Nat /\ \A n \in 1..N : t[n].name \in NamesOf(t)
  BY DEF TokenText, NamesOf
<1>2. a \in V /\ a.status = "open" /\ a.frames = <<>>
  <2>1. a = [frames |-> <<>>, status |-> "open"]
    BY DEF J!Start
  <2>2. <<>> \in Seq(WalkFrames(NamesOf(t)))
    OBVIOUS
  <2> QED  BY <2>1, <2>2 DEF Walks, Statuses
<1> HIDE DEF a
<1>3. \A n \in 1..N : \A v \in V : g[<<n, v>>] = J!Step(v, t[n])
  OBVIOUS
<1> HIDE DEF g
<1>4. Steps(g, N, V)
  <2> SUFFICES ASSUME NEW n \in 1..N, NEW v \in V PROVE g[<<n, v>>] \in V
    BY DEF Steps
  <2> QED  BY <1>1, <1>3, Outcomes
<1>5. PICK f : Iterated(f, g, N, V, a)
  BY <1>1, <1>2, <1>4, Iterates
<1>6. f \in [0..N -> V] /\ f[0] = a /\ \A n \in 1..N : f[n] = g[<<n, f[n - 1]>>]
  BY <1>5 DEF Iterated
<1>7. \A n \in 1..N : n - 1 \in 0..N /\ f[n - 1] \in V
  <2> HIDE DEF N, V
  <2>1. \A n \in 1..N : n - 1 \in 0..N
    BY <1>1
  <2> QED  BY <1>6, <2>1
<1>8. \A n \in 1..N : f[n] = J!Step(f[n - 1], t[n])
  <2> HIDE DEF N, V
  <2> QED  BY <1>3, <1>6, <1>7
<1>9. \A n \in 0..N : n = 0 \/ n \in 1..N
  BY <1>1
<1>10. IsWalking(f, t)
  <2> DEFINE w == [n \in 0..N |-> IF n = 0 THEN J!Start ELSE J!Step(f[n - 1], t[n])]
  <2>1. ASSUME NEW n \in 0..N PROVE f[n] = w[n]
    <3>1. CASE n = 0
      BY <1>6, <3>1 DEF a
    <3>2. CASE n # 0
      BY <1>8, <1>9, <3>2
    <3> QED  BY <3>1, <3>2
  <2>2. f = [n \in 0..N |-> f[n]] /\ w = [n \in 0..N |-> w[n]]
    BY <1>6
  <2>3. f = w
    <3> HIDE DEF w
    <3> QED  BY <2>1, <2>2
  <2> QED  BY <2>3 DEF IsWalking
<1>11. IsWalking(h, t)
  BY <1>10
<1>12. J!Walk(t) = h[N]
  BY DEF J!Walk, IsWalking
<1> HIDE DEF h
<1>13. h = [n \in 0..N |-> IF n = 0 THEN J!Start ELSE J!Step(h[n - 1], t[n])]
  BY <1>11, Zenon DEF IsWalking
<1>14. h[0] = a
  <2>1. 0 \in 0..N
    BY <1>1
  <2> QED  BY <1>13, <2>1 DEF a
<1>15. \A n \in 1..N : h[n] = J!Step(h[n - 1], t[n])
  <2> SUFFICES ASSUME NEW n \in 1..N PROVE h[n] = J!Step(h[n - 1], t[n])
    OBVIOUS
  <2>1. n \in 0..N /\ n # 0
    BY <1>1
  <2> QED  BY <1>13, <2>1
<1> DEFINE S == {k \in 0..N : h[k] \in V}
<1>16. 0 \in S
  BY <1>1, <1>2, <1>14
<1>17. \A k \in 0..N : k < N /\ k \in S => k + 1 \in S
  <2> SUFFICES ASSUME NEW k \in 0..N, k < N, k \in S PROVE k + 1 \in S
    OBVIOUS
  <2>1. k + 1 \in 1..N /\ (k + 1) - 1 = k /\ k + 1 \in 0..N
    BY <1>1
  <2>2. h[k + 1] = J!Step(h[k], t[k + 1]) /\ h[k] \in V /\ t[k + 1].name \in NamesOf(t)
    BY <1>1, <1>15, <2>1
  <2>3. h[k + 1] \in V
    BY <2>2, Outcomes
  <2> QED  BY <2>1, <2>3
<1> HIDE DEF S
<1>18. \A k \in 0..N : k \in S
  BY <1>1, <1>16, <1>17, Climb
<1>19. h \in [0..N -> V]
  <2>1. \A k \in 0..N : h[k] \in V
    BY <1>18 DEF S
  <2>2. h = [k \in 0..N |-> h[k]]
    BY <1>13
  <2> HIDE DEF N, V
  <2> QED  BY <2>1, <2>2
<1> QED  BY <1>2, <1>11, <1>12, <1>19 DEF a

\* What a walk is at its beginning and from one token to the next.
LEMMA WalkingIs ==
    ASSUME NEW t, TokenText(t), NEW f, IsWalking(f, t)
    PROVE  f[0] = J!Start /\ \A n \in 1..Len(t) : f[n] = J!Step(f[n - 1], t[n])
<1>1. f = [n \in 0..Len(t) |-> IF n = 0 THEN J!Start ELSE J!Step(f[n - 1], t[n])]
  BY Zenon DEF IsWalking
<1>2. Len(t) \in Nat /\ 0 \in 0..Len(t)
  BY DEF TokenText
<1>3. f[0] = J!Start
  BY <1>1, <1>2
<1>4. ASSUME NEW n \in 1..Len(t) PROVE f[n] = J!Step(f[n - 1], t[n])
  <2>1. n \in 0..Len(t) /\ n # 0
    BY <1>2
  <2> QED  BY <1>1, <2>1
<1> QED  BY <1>3, <1>4

\* A walk that goes on has followed the text up to every token.
LEMMA WalkFollows ==
    ASSUME NEW t, TokenText(t), NEW f, IsWalking(f, t), f \in [0..Len(t) -> Walks(NamesOf(t))]
    PROVE  \A n \in 0..Len(t) : f[n].status \in {"open", "done"} => Follows(t, n, f[n])
<1> DEFINE N == Len(t)
           S == {n \in 0..N : f[n].status \in {"open", "done"} => Follows(t, n, f[n])}
<1>1. N \in Nat /\ 0 \in 0..N /\ \A n \in 1..N : t[n].name \in NamesOf(t)
  BY DEF TokenText, NamesOf
<1>2. f[0] = J!Start /\ \A n \in 1..N : f[n] = J!Step(f[n - 1], t[n])
  BY WalkingIs
<1>3. 0 \in S
  <2> PICK w : w = J!Start
    OBVIOUS
  <2>1. w \in Walks(NamesOf(t)) /\ w.status = "open" /\ w.frames = <<>>
    BY WalkExists
  <2>2. Len(w.frames) = 0 /\ Level(t, 0 + 1) = 0
    BY <2>1, LevelIs
  <2>3. ~RepeatRead(t, 0)
    <3>1. \A h : KeysRead(t, 0, h) = {}
      <4>1. \A h : KeysOf(t, h) \subseteq 1..N
        BY DEF KeysOf, Members, TokenText
      <4>2. \A i \in 1..N : ~(i <= 0)
        BY <1>1
      <4> QED  BY <4>1, <4>2 DEF KeysRead
    <3> QED  BY <3>1 DEF RepeatRead
  <2>4. Follows(t, 0, w)
    BY <2>1, <2>2, <2>3 DEF Follows
  <2> QED  BY <1>1, <1>2, <2>4
<1>4. \A k \in 0..N : k < N /\ k \in S => k + 1 \in S
  <2> SUFFICES ASSUME NEW k \in 0..N, k < N, k \in S, f[k + 1].status \in {"open", "done"}
               PROVE  k + 1 \in 0..N /\ Follows(t, k + 1, f[k + 1])
    BY <1>1
  <2>1. k + 1 \in 1..N /\ (k + 1) - 1 = k /\ k + 1 \in 0..N
    BY <1>1
  <2>2. f[k + 1] = J!Step(f[k], t[k + 1]) /\ f[k] \in Walks(NamesOf(t))
    BY <1>2, <2>1
  <2>3. f[k].status \in {"open", "done"}
    <3> SUFFICES ASSUME f[k].status \notin {"open", "done"} PROVE FALSE
      OBVIOUS
    <3>1. J!Step(f[k], t[k + 1]) = f[k]
      BY DEF J!Step
    <3> QED  BY <2>2, <3>1
  <2>4. Follows(t, k, f[k])
    BY <2>3
  <2> QED  BY <2>1, <2>2, <2>4, StepFollows
<1> HIDE DEF S
<1>5. \A k \in 0..N : k \in S
  BY <1>1, <1>3, <1>4, Climb
<1> QED  BY <1>5 DEF S

\* One more token takes the walk of a text one step further.
LEMMA WalkMore ==
    ASSUME NEW T, NEW t \in Seq(T), NEW token \in T, NEW u, u = t \o <<token>>
    PROVE  /\ TokenText(t) /\ TokenText(u) /\ Len(u) = Len(t) + 1 /\ u[Len(t) + 1] = token
           /\ \A f : IsWalking(f, u) => f[Len(t)] = J!Walk(t)
<1> DEFINE N == Len(t)
<1>1. TokenText(t) /\ TokenText(u) /\ Len(u) = N + 1 /\ N \in Nat
      /\ (\A i \in 1..N : u[i] = t[i]) /\ u[N + 1] = token
  BY DEF TokenText
<1>2. PICK g : IsWalking(g, t) /\ J!Walk(t) = g[N]
  BY <1>1, WalkExists
<1>3. ASSUME NEW f, IsWalking(f, u) PROVE f[N] = J!Walk(t)
  <2> DEFINE S == {n \in 0..N : f[n] = g[n]}
  <2>1. g[0] = J!Start /\ \A n \in 1..N : g[n] = J!Step(g[n - 1], t[n])
    BY <1>1, <1>2, WalkingIs
  <2>2. f[0] = J!Start /\ \A n \in 1..Len(u) : f[n] = J!Step(f[n - 1], u[n])
    BY <1>1, <1>3, WalkingIs
  <2>3. 0 \in S
    BY <1>1, <2>1, <2>2
  <2>4. \A k \in 0..N : k < N /\ k \in S => k + 1 \in S
    <3> SUFFICES ASSUME NEW k \in 0..N, k < N, k \in S PROVE k + 1 \in S
      OBVIOUS
    <3>1. k + 1 \in 1..N /\ k + 1 \in 1..Len(u) /\ (k + 1) - 1 = k /\ k + 1 \in 0..N
      BY <1>1
    <3> QED  BY <1>1, <2>1, <2>2, <3>1
  <2> HIDE DEF S
  <2>5. \A k \in 0..N : k \in S
    BY <1>1, <2>3, <2>4, Climb
  <2>6. N \in 0..N
    BY <1>1
  <2> QED  BY <1>2, <2>5, <2>6 DEF S
<1> QED  BY <1>1, <1>3

\* A text with nothing in it repeats nothing.
LEMMA WalkNothing == J!Walk(<<>>).status = "open" /\ ~KeyRepeated(<<>>)
<1>1. TokenText(<<>>) /\ Len(<<>>) = 0
  BY DEF TokenText
<1>2. PICK f : IsWalking(f, <<>>) /\ J!Walk(<<>>) = f[Len(<<>>)]
  BY <1>1, WalkExists
<1>3. f[0] = J!Start
  BY <1>1, <1>2, WalkingIs
<1>4. J!Walk(<<>>).status = "open"
  BY <1>1, <1>2, <1>3, WalkExists
<1>5. ~KeyRepeated(<<>>)
  BY <1>1 DEF KeyRepeated, TokenText
<1> QED  BY <1>4, <1>5

\* Strict decoding, for every text: a text that may go on is refused at its next token for
\* a repeated key exactly if one object of it then has two keys of one name
\* (schema.go:3422).
THEOREM RepeatedKeyIsFound ==
    ASSUME NEW T, NEW t \in Seq(T), NEW token \in T, NEW u, u = t \o <<token>>,
           J!Walk(t).status \in {"open", "done"}
    PROVE  /\ J!Walk(u).status = "duplicate" => KeyRepeated(u)
           /\ J!Walk(u).status \in {"open", "done", "trailing"} => ~KeyRepeated(u)
<1> DEFINE N == Len(t)
<1>1. TokenText(u) /\ Len(u) = N + 1 /\ N \in Nat
      /\ \A g : IsWalking(g, u) => g[N] = J!Walk(t)
  <2>1. N \in Nat
    OBVIOUS
  <2>2. TokenText(u) /\ Len(u) = N + 1
    BY WalkMore
  <2>3. \A g : IsWalking(g, u) => g[N] = J!Walk(t)
    BY WalkMore
  <2> QED  BY ONLY <2>1, <2>2, <2>3
<1>2. PICK f : /\ IsWalking(f, u) /\ J!Walk(u) = f[Len(u)]
               /\ f \in [0..Len(u) -> Walks(NamesOf(u))]
  BY <1>1, WalkExists
<1>3. f[N] = J!Walk(t)
  BY ONLY <1>1, <1>2
<1>4. N \in 0..Len(u) /\ N < Len(u) /\ N + 1 \in 1..Len(u) /\ (N + 1) - 1 = N
      /\ N + 1 \in 0..Len(u)
  BY ONLY <1>1
<1>5. Follows(u, N, f[N])
  BY <1>1, <1>2, <1>3, <1>4, WalkFollows
<1>6. f[N + 1] = J!Step(f[N], u[N + 1])
  BY <1>1, <1>2, <1>4, WalkingIs
<1>7. /\ f[N + 1].status \in {"open", "done"} => Follows(u, N + 1, f[N + 1])
      /\ f[N + 1].status = "duplicate" => RepeatRead(u, N + 1)
      /\ f[N + 1].status = "trailing" => ~RepeatRead(u, N + 1)
  BY <1>1, <1>4, <1>5, <1>6, StepFollows
<1>8. RepeatRead(u, N + 1) <=> KeyRepeated(u)
  <2>1. \A h : KeysRead(u, N + 1, h) = KeysOf(u, h)
    <3>1. \A h : KeysOf(u, h) \subseteq 1..(N + 1)
      BY <1>1 DEF KeysOf, Members, TokenText
    <3>2. \A i \in 1..(N + 1) : i <= N + 1
      BY <1>1
    <3> QED  BY <3>1, <3>2 DEF KeysRead
  <2> HIDE DEF N
  <2>2. RepeatRead(u, N + 1) => KeyRepeated(u)
    <3> SUFFICES ASSUME RepeatRead(u, N + 1) PROVE KeyRepeated(u)
      OBVIOUS
    <3>1. PICK h \in {j \in DOMAIN u : u[j].mark = Brace} :
             \E i, k \in KeysRead(u, N + 1, h) :
                /\ i # k /\ u[i].mark = "string" /\ u[k].mark = "string"
                /\ u[i].name = u[k].name
      BY DEF RepeatRead
    <3>2. \E i, k \in KeysOf(u, h) :
             /\ i # k /\ u[i].mark = "string" /\ u[k].mark = "string"
             /\ u[i].name = u[k].name
      <4>1. KeysRead(u, N + 1, h) = KeysOf(u, h)
        BY <2>1
      <4>2. PICK i, k \in KeysRead(u, N + 1, h) :
               /\ i # k /\ u[i].mark = "string" /\ u[k].mark = "string"
               /\ u[i].name = u[k].name
        BY <3>1
      <4> QED  BY <4>1, <4>2
    <3>3. h \in {j \in DOMAIN u : u[j].mark = "{"}
      BY Zenon DEF Brace
    <3> QED  BY <3>2, <3>3, Zenon DEF KeyRepeated
  <2>3. KeyRepeated(u) => RepeatRead(u, N + 1)
    <3> SUFFICES ASSUME KeyRepeated(u) PROVE RepeatRead(u, N + 1)
      OBVIOUS
    <3>1. PICK h \in {j \in DOMAIN u : u[j].mark = Brace} :
             \E i, k \in KeysOf(u, h) :
                /\ i # k /\ u[i].mark = "string" /\ u[k].mark = "string"
                /\ u[i].name = u[k].name
      BY Zenon DEF KeyRepeated, Brace
    <3>2. \E i, k \in KeysRead(u, N + 1, h) :
             /\ i # k /\ u[i].mark = "string" /\ u[k].mark = "string"
             /\ u[i].name = u[k].name
      <4>1. KeysRead(u, N + 1, h) = KeysOf(u, h)
        BY <2>1
      <4>2. PICK i, k \in KeysOf(u, h) :
               /\ i # k /\ u[i].mark = "string" /\ u[k].mark = "string"
               /\ u[i].name = u[k].name
        BY <3>1
      <4> QED  BY <4>1, <4>2
    <3> QED  BY <3>1, <3>2 DEF RepeatRead
  <2> QED  BY <2>2, <2>3
<1>9. Follows(u, N + 1, f[N + 1]) => ~RepeatRead(u, N + 1)
  BY DEF Follows
<1> QED  BY <1>1, <1>2, <1>7, <1>8, <1>9
----------------------------------------------------------------------------
(***************************************************************************)
(* Case tables: the loop over the cases of a file, for every table and     *)
(* every file.                                                             *)
(***************************************************************************)

(***************************************************************************)
(* The inductive invariant: what the loop knows of the prefix it has       *)
(* scanned.  In a closed discipline every name taken was a required one    *)
(* and was taken once, so "seen" counts the cases scanned; that count is   *)
(* all the counted discipline has in place of a pass for missing names.    *)
(***************************************************************************)
Closed == mode \in {"counted", "required"}

Scanned == 1..(next - 1)

PrefixSeen == seen = {cases[k].name : k \in Scanned}

PrefixFits == \A k \in Scanned : cases[k].row \in Fits[cases[k].name]

PrefixDistinct == mode # "bare" =>
    \A j, k \in Scanned : cases[j].name = cases[k].name => j = k

PrefixCounted == Closed => /\ seen \subseteq Required
                           /\ next > 0 => Cardinality(seen) = next - 1

GatePassed == next > 0 =>
    IF mode = "counted" THEN Len(cases) = Cardinality(Required)
                        ELSE Len(cases) # 0

Judged == /\ verdict = "accept" => Promise!Acceptable
          /\ verdict = "reject" => ~Promise!Acceptable

\* Before the gate nothing has been scanned; an accepting run scanned it all.
Progress == /\ next = 0 => seen = {}
            /\ verdict = "accept" => next = Len(cases) + 1

IInv == /\ TypeOK
        /\ PrefixSeen
        /\ PrefixFits
        /\ PrefixDistinct
        /\ PrefixCounted
        /\ GatePassed
        /\ Progress
        /\ Judged

----------------------------------------------------------------------------
\* A document is a finite sequence of cases.
LEMMA DocumentType ==
    ASSUME NEW d \in Documents
    PROVE  /\ d \in Seq(Case)
           /\ Len(d) \in Nat
           /\ \A k \in 1..Len(d) : d[k] \in Case /\ d[k].name \in Names
<1>1. d \in Seq(Case)
  BY DocumentsAssumption
<1>2. Len(d) \in Nat
  BY <1>1
<1>3. \A k \in 1..Len(d) : d[k] \in Case
  BY <1>1
<1> QED
  BY <1>1, <1>2, <1>3 DEF Case

(***************************************************************************)
(* A list of distinct names that is exactly the required set is as long as *)
(* that set: what makes the length gate of the counted discipline safe to  *)
(* apply before anything has been read.                                    *)
(***************************************************************************)
LEMMA ExactCoverLength ==
    ASSUME NEW d \in Documents,
           {d[k].name : k \in 1..Len(d)} = Required,
           \A j, k \in 1..Len(d) : d[j].name = d[k].name => j = k
    PROVE  Len(d) = Cardinality(Required)
<1> DEFINE f == [k \in 1..Len(d) |-> d[k].name]
<1>1. Len(d) \in Nat
  BY DocumentType
<1>2. f \in [1..Len(d) -> Required]
  OBVIOUS
<1>3. \A j, k \in 1..Len(d) : f[j] = f[k] => j = k
  OBVIOUS
<1>4. \A n \in Required : \E k \in 1..Len(d) : f[k] = n
  OBVIOUS
<1>5. f \in Bijection(1..Len(d), Required)
  BY <1>2, <1>3, <1>4 DEF Bijection, Injection, IsInjective, Surjection
<1>6. ExistsBijection(1..Len(d), Required)
  BY <1>5 DEF ExistsBijection
<1> QED
  BY <1>1, <1>6, FS_CountingElements

----------------------------------------------------------------------------
\* IInv holds before the loop starts ...
LEMMA InitInv == Init => IInv
<1> SUFFICES ASSUME Init PROVE IInv
  OBVIOUS
<1> USE DEF Init
<1>1. Len(cases) \in Nat
  BY DocumentType
<1>2. TypeOK
  BY <1>1 DEF TypeOK
<1>3. Scanned = {}
  BY DEF Scanned
<1> QED
  BY <1>2, <1>3
     DEF IInv, PrefixSeen, PrefixFits, PrefixDistinct, PrefixCounted,
         GatePassed, Progress, Judged

(***************************************************************************)
(* The gate refuses only what is not acceptable: in the counted discipline *)
(* by ExactCoverLength, in the others because an empty list is never       *)
(* acceptable.                                                             *)
(***************************************************************************)
LEMMA GateIsSound ==
    ASSUME TypeOK, LengthRefused
    PROVE  ~Promise!Acceptable
<1> SUFFICES ASSUME Promise!Acceptable PROVE FALSE
  OBVIOUS
<1>1. CASE mode = "counted"
  <2>1. Promise!Named = Required /\ Promise!Distinct
    BY <1>1 DEF Promise!Acceptable
  <2>2. Len(cases) = Cardinality(Required)
    BY <2>1, ExactCoverLength DEF TypeOK, Promise!Named, Promise!Distinct
  <2> QED
    BY <1>1, <2>2 DEF LengthRefused
<1>2. CASE mode # "counted"
  <2>1. cases # <<>> /\ Len(cases) = 0
    BY <1>2 DEF Promise!Acceptable, LengthRefused
  <2>2. cases \in Seq(Case)
    BY DocumentType DEF TypeOK
  <2> QED
    BY <2>1, <2>2
<1> QED
  BY <1>1, <1>2

\* A case the loop refuses spoils the whole document.
LEMMA RefusalIsSound ==
    ASSUME IInv, Scanning, Refused(cases[next])
    PROVE  ~Promise!Acceptable
<1> SUFFICES ASSUME Promise!Acceptable PROVE FALSE
  OBVIOUS
<1> DEFINE c == cases[next]
<1>1. next \in 1..Len(cases) /\ Len(cases) \in Nat
  BY DocumentType DEF Scanning, IInv, TypeOK
<1>2. CASE Unknown(c)
  <2>1. c.name \in Promise!Named /\ Promise!Named = Required
    BY <1>1, <1>2 DEF Promise!Acceptable, Promise!Named, Unknown
  <2> QED
    BY <1>2, <2>1 DEF Unknown
<1>3. CASE Duplicate(c)
  <2>1. PICK k \in Scanned : cases[k].name = c.name
    BY <1>3 DEF Duplicate, IInv, PrefixSeen
  <2>2. k \in 1..Len(cases) /\ k # next
    BY <1>1, <2>1 DEF Scanned
  <2>3. mode # "bare" /\ mode \in {"counted", "required", "unique", "bare"}
    BY <1>3, ModesAssumption DEF Duplicate, IInv, TypeOK
  <2>4. Promise!Distinct
    BY <2>3 DEF Promise!Acceptable
  <2> QED
    BY <1>1, <2>1, <2>2, <2>4 DEF Promise!Distinct
<1>4. CASE Drifted(c)
  BY <1>1, <1>4 DEF Drifted, Promise!Acceptable, Promise!RowsFit
<1> QED
  BY <1>2, <1>3, <1>4 DEF Refused

(***************************************************************************)
(* At the end of the loop "seen" is the set of all names; its size and the *)
(* gate (counted) or the last pass (required) make it the required set.    *)
(***************************************************************************)
LEMMA FinishIsExact ==
    ASSUME IInv, next = Len(cases) + 1
    PROVE  Promise!Acceptable <=> ~Incomplete
<1>1. Len(cases) \in Nat /\ cases \in Seq(Case)
      /\ mode \in {"counted", "required", "unique", "bare"}
  BY DocumentType, ModesAssumption DEF IInv, TypeOK
<1>2. Scanned = 1..Len(cases)
  BY <1>1 DEF Scanned
<1>3. Promise!RowsFit /\ Promise!Named = seen
  BY <1>2 DEF IInv, PrefixFits, PrefixSeen, Promise!RowsFit, Promise!Named
<1>4. mode # "bare" => Promise!Distinct
  BY <1>2 DEF IInv, PrefixDistinct, Promise!Distinct
<1>5. mode # "counted" => cases # <<>>
  BY <1>1 DEF IInv, GatePassed
<1>6. CASE mode = "counted"
  <2>1. seen \subseteq Required /\ Cardinality(seen) = Cardinality(Required)
    BY <1>1, <1>6 DEF IInv, PrefixCounted, Closed, GatePassed
  <2>2. seen = Required
    BY <2>1, RequiredAssumption, FS_Subset
  <2> QED
    BY <1>3, <1>4, <1>6, <2>2 DEF Promise!Acceptable, Incomplete
<1>7. CASE mode = "required"
  <2>1. seen \subseteq Required
    BY <1>7 DEF IInv, PrefixCounted, Closed
  <2>2. Promise!Acceptable <=> seen = Required
    BY <1>3, <1>4, <1>5, <1>7 DEF Promise!Acceptable
  <2> QED
    BY <1>7, <2>1, <2>2 DEF Incomplete
<1>8. CASE mode \in {"unique", "bare"}
  BY <1>3, <1>4, <1>5, <1>8 DEF Promise!Acceptable, Incomplete
<1> QED
  BY <1>1, <1>6, <1>7, <1>8
----------------------------------------------------------------------------
\* Taking one more case keeps what is known of the prefix.
LEMMA TakeCaseInv ==
    ASSUME IInv, TakeCase
    PROVE  IInv'
<1> USE DEF TakeCase, Scanning
<1> DEFINE c == cases[next]
<1>1. /\ Len(cases) \in Nat /\ next \in 1..Len(cases)
      /\ c.name \in Names /\ ~Unknown(c) /\ ~Duplicate(c) /\ ~Drifted(c)
      /\ IsFiniteSet(Required)
  BY DocumentType, RequiredAssumption DEF IInv, TypeOK, Refused
<1>2. Scanned' = Scanned \cup {next} /\ next \notin Scanned
  BY <1>1 DEF Scanned
<1>3. TypeOK'
  BY <1>1 DEF IInv, TypeOK
<1>4. PrefixSeen'
  BY <1>2 DEF IInv, PrefixSeen
<1>5. PrefixFits'
  BY <1>1, <1>2 DEF IInv, PrefixFits, Drifted
<1>6. PrefixDistinct'
  <2>1. mode # "bare" => \A k \in Scanned : cases[k].name # c.name
    BY <1>1 DEF IInv, PrefixSeen, Duplicate
  <2> QED
    BY <1>2, <2>1 DEF IInv, PrefixDistinct
<1>7. PrefixCounted'
  <2> SUFFICES ASSUME Closed
                PROVE  /\ seen' \subseteq Required
                       /\ Cardinality(seen') = next' - 1
    BY DEF PrefixCounted, Closed
  <2>1. c.name \in Required /\ c.name \notin seen
    BY <1>1 DEF Closed, Unknown, Duplicate
  <2>2. seen \subseteq Required /\ Cardinality(seen) = next - 1
    BY <1>1 DEF IInv, PrefixCounted
  <2>3. Cardinality(seen') = Cardinality(seen) + 1
    BY <1>1, <2>1, <2>2, FS_Subset, FS_AddElement
  <2> QED
    BY <1>1, <2>1, <2>2, <2>3
<1>8. GatePassed'
  BY <1>1 DEF IInv, GatePassed
<1>9. Progress'
  BY <1>1 DEF IInv, Progress
<1>10. Judged'
  BY DEF IInv, Judged
<1> QED
  BY <1>3, <1>4, <1>5, <1>6, <1>7, <1>8, <1>9, <1>10 DEF IInv

(***************************************************************************)
(* A step that only writes the verdict keeps the prefix facts.             *)
(***************************************************************************)
LEMMA VerdictInv ==
    ASSUME IInv, UNCHANGED <<mode, cases, next, seen>>,
           verdict' \in {"accept", "reject"},
           verdict' = "accept" => next = Len(cases) + 1 /\ Promise!Acceptable,
           verdict' = "reject" => ~Promise!Acceptable
    PROVE  IInv'
<1>1. TypeOK'
  BY DEF IInv, TypeOK
<1>2. Scanned' = Scanned /\ (Promise!Acceptable)' = Promise!Acceptable
  BY DEF Scanned, Promise!Acceptable, Promise!RowsFit, Promise!Named,
         Promise!Distinct
<1>3. PrefixSeen' /\ PrefixFits' /\ PrefixDistinct'
  BY <1>2 DEF IInv, PrefixSeen, PrefixFits, PrefixDistinct
<1>4. PrefixCounted' /\ GatePassed' /\ Progress'
  BY DEF IInv, PrefixCounted, Closed, GatePassed, Progress
<1>5. Judged'
  BY <1>2 DEF Judged
<1> QED
  BY <1>1, <1>3, <1>4, <1>5 DEF IInv

\* ... and every step of it keeps IInv.
LEMMA StepInv == IInv /\ [Next]_vars => IInv'
<1> SUFFICES ASSUME IInv, [Next]_vars PROVE IInv'
  OBVIOUS
<1>1. CASE RejectLength
  BY <1>1, GateIsSound, VerdictInv DEF RejectLength, IInv
<1>2. CASE EnterLoop
  <2> USE <1>2 DEF EnterLoop
  <2>1. Len(cases) \in Nat /\ IsFiniteSet({}) /\ Cardinality({}) = 0
    BY DocumentType, FS_EmptySet DEF IInv, TypeOK
  <2>2. Scanned = {} /\ Scanned' = {} /\ seen = {}
    BY DEF Scanned, IInv, Progress
  <2>3. TypeOK' /\ PrefixSeen' /\ PrefixFits' /\ PrefixDistinct'
    BY <2>1, <2>2 DEF IInv, TypeOK, PrefixSeen, PrefixFits, PrefixDistinct
  <2>4. PrefixCounted' /\ GatePassed' /\ Progress' /\ Judged'
    BY <2>1, <2>2 DEF PrefixCounted, Closed, GatePassed, LengthRefused,
                      Progress, Judged
  <2> QED
    BY <2>3, <2>4 DEF IInv
<1>3. CASE RejectCase
  BY <1>3, RefusalIsSound, VerdictInv DEF RejectCase
<1>4. CASE TakeCase
  BY <1>4, TakeCaseInv
<1>5. CASE Finish
  BY <1>5, FinishIsExact, VerdictInv DEF Finish
<1>6. CASE UNCHANGED vars
  <2>1. Scanned' = Scanned /\ (Promise!Acceptable)' = Promise!Acceptable
    BY <1>6 DEF vars, Scanned, Promise!Acceptable, Promise!RowsFit,
                Promise!Named, Promise!Distinct
  <2>2. TypeOK' /\ PrefixSeen' /\ PrefixFits' /\ PrefixDistinct'
    BY <1>6, <2>1 DEF vars, IInv, TypeOK, PrefixSeen, PrefixFits,
                      PrefixDistinct
  <2>3. PrefixCounted' /\ GatePassed' /\ Progress' /\ Judged'
    BY <1>6, <2>1 DEF vars, IInv, PrefixCounted, Closed, GatePassed,
                      Progress, Judged
  <2> QED
    BY <2>2, <2>3 DEF IInv
<1> QED
  BY <1>1, <1>2, <1>3, <1>4, <1>5, <1>6 DEF Next

\* IInv holds in every reachable state.
THEOREM Invariance == Spec => []IInv
BY InitInv, StepInv, PTL DEF Spec

\* The loop's variables keep their types: the index never leaves the list.
THEOREM TypeCorrect == Spec => []TypeOK
<1>1. IInv => TypeOK
  BY DEF IInv
<1> QED
  BY <1>1, Invariance, PTL

\* An accepted document of a closed table is an exact cover of its names.
THEOREM ExactCover == Spec => []AcceptedIsExactCover
<1>1. IInv => AcceptedIsExactCover
  <2> SUFFICES ASSUME IInv, verdict = "accept",
                       mode \in {"counted", "required"}
                PROVE  /\ Named = Required
                       /\ Len(cases) = Cardinality(Required)
                       /\ \A k \in 1..Len(cases) :
                             cases[k].row \in Fits[cases[k].name]
    BY DEF AcceptedIsExactCover
  <2>1. Promise!Acceptable
    BY DEF IInv, Judged
  <2>2. Named = Required /\ Promise!Distinct /\ Promise!RowsFit
    BY <2>1 DEF Promise!Acceptable, Promise!Named, Named
  <2>3. Len(cases) = Cardinality(Required)
    BY <2>2, ExactCoverLength DEF IInv, TypeOK, Named, Promise!Distinct
  <2> QED
    BY <2>2, <2>3 DEF Promise!RowsFit
<1> QED
  BY <1>1, Invariance, PTL

(***************************************************************************)
(* The scan implements the atomic verdict: it starts undecided and each of *)
(* its steps either decides as CaseVerdict does or is invisible to it.     *)
(***************************************************************************)
THEOREM Refinement == Spec => Promise!Init /\ [][Promise!Next]_(Promise!vars)
<1>1. Init => Promise!Init
  BY DEF Init, Promise!Init
<1>2. IInv /\ IInv' /\ [Next]_vars => [Promise!Next]_(Promise!vars)
  <2> SUFFICES ASSUME IInv, IInv', [Next]_vars
                PROVE  [Promise!Next]_(Promise!vars)
    OBVIOUS
  <2> USE DEF Promise!Next, Promise!Decide, Promise!vars
  <2>1. CASE EnterLoop \/ TakeCase
    BY <2>1 DEF EnterLoop, TakeCase
  <2>2. CASE RejectLength
    BY <2>2, GateIsSound DEF RejectLength, IInv
  <2>3. CASE RejectCase
    BY <2>3, RefusalIsSound DEF RejectCase, Scanning
  <2>4. CASE Finish
    BY <2>4, FinishIsExact DEF Finish
  <2>5. CASE UNCHANGED vars
    BY <2>5 DEF vars
  <2> QED
    BY <2>1, <2>2, <2>3, <2>4, <2>5 DEF Next
<1> QED
  BY <1>1, <1>2, Invariance, PTL DEF Spec
----------------------------------------------------------------------------
(***************************************************************************)
(* What CI guarantees of the main branch, for any number of generations.   *)
(*                                                                         *)
(* The invariant needs no fact about the working tree other than its type: *)
(* the commands may leave it in any state.  It remembers what CI has found *)
(* out about the pushed commit.  The type says that there is one absent    *)
(* content, so that a file absent from vectors/ and from a mirror is the   *)
(* same in both although check-sync.sh never compares the two.             *)
(***************************************************************************)

TypedTrees == /\ tree \in Tree /\ pushed \in Tree /\ main \in Tree
              /\ fresh \in 0..MaxGen

\* MainIsOneContract, of any commit.
OneContract(t) ==
    /\ \A p \in Packages : t.mirror[p] = t.vectors
    /\ \A f \in Files : t.vectors[f] # Torn
    /\ \A f \in {"sig", "qv2", "link"} : t.vectors[f].gen = t.vectors["sig"].gen
    /\ Replaceable(t.vectors["qv2"])

Learned == /\ check = "comparing" => TestsPass(pushed)
           /\ check = "green" => TestsPass(pushed) /\ InSync(pushed)

PipelineIInv == TypedTrees /\ Learned /\ OneContract(main)

\* The contents a file may have.
LEMMA WholeIsContent == ASSUME NEW g \in 0..MaxGen PROVE Whole(g) \in FileContent
  BY DEF Whole, FileContent

\* A file may be missing.
LEMMA NoFileIsContent == NoFile \in FileContent
  BY DEF FileContent

\* Or half written.
LEMMA TornIsContent == Torn \in FileContent
  BY DEF FileContent

\* A kind tells the contents apart: only Torn is torn, only NoFile is absent.
LEMMA Kinds == /\ Torn.kind = "torn"
               /\ \A c \in FileContent : c.kind = "absent" => c = NoFile
               /\ \A c \in FileContent : c.kind = "ok" => c.gen \in 0..MaxGen
  BY DEF Torn, NoFile, FileContent

(***************************************************************************)
(* The two jobs of CI are enough: a commit that passes the tests and       *)
(* check-sync.sh is one contract in three languages.                       *)
(***************************************************************************)
THEOREM GreenIsOneContract ==
    ASSUME NEW t \in Tree, TestsPass(t), InSync(t)
    PROVE  OneContract(t)
<1>1. t.vectors \in [Files -> FileContent] /\ t.mirror \in [Packages -> [Files -> FileContent]]
  BY DEF Tree
<1>2. ASSUME NEW p \in Packages, NEW f \in Files
      PROVE  t.mirror[p][f] = t.vectors[f]
  <2>1. CASE f \in Present(t)
    BY <2>1 DEF InSync, Drift
  <2>2. CASE f \notin Present(t)
    <3>1. t.vectors[f].kind = "absent"
      BY <2>2 DEF Present
    <3>2. t.mirror[p][f].kind = "absent"
      BY <2>2 DEF InSync, Orphan
    <3>3. t.vectors[f] \in FileContent /\ t.mirror[p][f] \in FileContent
      BY <1>1
    <3> QED
      BY <3>1, <3>2, <3>3, Kinds
  <2> QED
    BY <2>1, <2>2
<1>3. \A p \in Packages : t.mirror[p] = t.vectors
  BY <1>1, <1>2
<1>4. \A f \in Files : t.vectors[f] # Torn
  BY Kinds DEF TestsPass
<1>5. \A f \in {"sig", "qv2", "link"} : t.vectors[f].gen = t.vectors["sig"].gen
  BY DEF TestsPass
<1>6. Replaceable(t.vectors["qv2"])
  BY DEF TestsPass, Replaceable
<1> QED
  BY <1>3, <1>4, <1>5, <1>6 DEF OneContract

----------------------------------------------------------------------------
\* The published tree is a tree.
LEMMA PublishedIsTree == Published \in Tree
  BY MaxGenAssumption, WholeIsContent DEF Published, Tree

\* And one contract.
LEMMA PublishedIsOneContract == OneContract(Published)
<1>1. Whole(0).kind # Torn.kind
  BY DEF Whole, Torn
<1>2. Whole(0) # Torn
  BY <1>1
<1>3. Replaceable(Whole(0))
  BY DEF Replaceable, Whole
<1> QED
  BY <1>2, <1>3 DEF OneContract, Published, Files

\* Everything begins with the published tree.
LEMMA InitIInv == PipelineInit => PipelineIInv
  BY PublishedIsTree, PublishedIsOneContract, MaxGenAssumption
  DEF PipelineInit, PipelineIInv, TypedTrees, Learned

\* One write to the tree keeps its type.
LEMMA WritesTyped ==
    ASSUME tree \in Tree, NEW f \in Files, NEW content \in FileContent, Writes(f, content)
    PROVE  tree' \in Tree
  BY DEF Writes, Tree

\* A copy keeps the type of the tree.
LEMMA CopyToTyped ==
    ASSUME tree \in Tree, NEW content,
           Current[2] \in Files => content \in FileContent,
           CopyTo(content)
    PROVE  tree' \in Tree
<1> DEFINE p0 == Current[1]
           f0 == Current[2]
<1>1. tree' = [tree EXCEPT !.mirror[p0][f0] = content]
  BY DEF CopyTo
<1> HIDE DEF p0, f0
<1>2. f0 \in Files => content \in FileContent
  BY DEF f0
<1>3. tree.mirror \in [Packages -> [Files -> FileContent]]
  BY DEF Tree
<1>4. tree'.vectors = tree.vectors
       /\ tree' \in [vectors : {tree.vectors}, mirror : {tree'.mirror}]
  BY <1>1 DEF Tree
<1>5. tree'.mirror = [p \in Packages |->
                        IF p = p0 THEN [tree.mirror[p] EXCEPT ![f0] = content]
                                  ELSE tree.mirror[p]]
  BY <1>1, <1>3 DEF Tree
<1>6. \A p \in Packages : [tree.mirror[p] EXCEPT ![f0] = content] \in [Files -> FileContent]
  BY <1>2, <1>3
<1>7. tree'.mirror \in [Packages -> [Files -> FileContent]]
  BY <1>3, <1>5, <1>6
<1> QED
  BY <1>4, <1>7 DEF Tree

\* So does emptying the packages.
LEMMA EmptiedTyped == Emptied \in [Packages -> [Files -> FileContent]]
  BY NoFileIsContent DEF Emptied

\* What the commands and the editors do to the tree: CI and main are as before.
LEMMA EditsTyped ==
    ASSUME TypedTrees,
           Generator \/ Sync \/ Dies \/ Repoint \/ GiveUp \/ TakeUp \/ Unanchor \/ Restore
    PROVE  TypedTrees' /\ UNCHANGED <<check, pushed, main>>
<1> USE DEF TypedTrees
<1>1. tree.vectors \in [Files -> FileContent]
  BY DEF Tree
<1>2. CASE Generator
  <2>1. CASE Sign
    BY <2>1, MaxGenAssumption DEF Sign, Step
  <2>2. CASE OpenSig
    BY <2>2, WritesTyped, TornIsContent DEF OpenSig, Step, Files
  <2>3. CASE WriteSig
    BY <2>3, WritesTyped, WholeIsContent DEF WriteSig, Step, Files
  <2>4. CASE Refuse
    BY <2>4 DEF Refuse, Ends, Step
  <2>5. CASE OpenQv2
    BY <2>5, WritesTyped, TornIsContent DEF OpenQv2, Step, Files
  <2>6. CASE WriteQv2
    BY <2>6, WritesTyped, WholeIsContent DEF WriteQv2, Ends, Step, Files
  <2> QED
    BY <1>2, <2>1, <2>2, <2>3, <2>4, <2>5, <2>6 DEF Generator
<1>3. CASE StartSync
  <2>1. tree' = [tree EXCEPT !.mirror = Emptied]
    BY <1>3 DEF StartSync
  <2>2. tree' \in Tree
    BY <2>1, EmptiedTyped DEF Tree
  <2> QED
    BY <1>3, <2>2 DEF StartSync
<1>4. CASE Copy
  <2>1. CopyTo(tree.vectors[Current[2]])
    BY <1>4 DEF Copy
  <2>2. tree' \in Tree
    BY <1>1, <2>1, CopyToTyped
  <2> QED
    BY <1>4, <2>2 DEF Copy
<1>5. CASE Dies
  BY <1>5, CopyToTyped, TornIsContent DEF Dies
<1>6. CASE Repoint
  <2>1. Whole(tree.vectors["qv2"].gen) \in FileContent
    BY <1>1, <1>6, Kinds, WholeIsContent DEF Repoint, Files
  <2> QED
    BY <1>6, <2>1, WritesTyped DEF Repoint, FileEdited, Files
<1>7. CASE GiveUp
  BY <1>7, WritesTyped, NoFileIsContent DEF GiveUp, FileEdited, Files
<1>8. CASE TakeUp
  BY <1>8, WritesTyped, WholeIsContent, MaxGenAssumption DEF TakeUp, FileEdited, Files
<1>9. CASE Unanchor
  <2>1. [tree.vectors["qv2"] EXCEPT !.anchored = FALSE] \in FileContent
    <3>1. /\ tree.vectors["qv2"] \in FileContent
          /\ tree.vectors["qv2"].kind = "ok"
      BY <1>1, <1>9 DEF Unanchor, Files
    <3>2. tree.vectors["qv2"] \in [kind : {"ok"}, gen : 0..MaxGen, anchored : BOOLEAN]
      BY <3>1 DEF FileContent, Torn, NoFile
    <3> QED
      BY <3>2 DEF FileContent
  <2> QED
    BY <1>9, <2>1, WritesTyped DEF Unanchor, FileEdited, Files
<1>10. CASE Restore
  BY <1>10 DEF Restore
<1> QED
  BY <1>2, <1>3, <1>4, <1>5, <1>6, <1>7, <1>8, <1>9, <1>10 DEF Sync

\* What is pushed is the tree without what was forgotten.
LEMMA PushTyped == ASSUME TypedTrees, Push PROVE pushed' \in Tree
  BY DEF TypedTrees, Push, Tree, Packages

\* Every step keeps the invariant.
LEMMA NextIInv == PipelineIInv /\ [PipelineNext]_pipelineVars => PipelineIInv'
<1> SUFFICES ASSUME PipelineIInv, [PipelineNext]_pipelineVars PROVE PipelineIInv'
  OBVIOUS
<1> USE DEF PipelineIInv
<1>1. CASE Generator \/ Sync \/ Dies \/ Repoint \/ GiveUp \/ TakeUp \/ Unanchor \/ Restore
  <2>1. TypedTrees' /\ UNCHANGED <<check, pushed, main>>
    BY <1>1, EditsTyped
  <2> QED
    BY <2>1 DEF Learned
<1>2. CASE Push
  <2>1. TypedTrees'
    BY <1>2, PushTyped DEF TypedTrees, Push, editVars
  <2>2. check' = "testing" /\ UNCHANGED main
    BY <1>2 DEF Push
  <2> QED
    BY <2>1, <2>2 DEF Learned
<1>3. CASE Merge
  <2>1. OneContract(pushed)
    BY <1>3, GreenIsOneContract DEF Merge, TypedTrees, Learned
  <2>2. main' = pushed /\ check' = "idle" /\ UNCHANGED <<editVars, pushed>>
    BY <1>3 DEF Merge
  <2>3. TypedTrees'
    BY <2>2 DEF TypedTrees, editVars
  <2>4. OneContract(main)'
    BY <2>1, <2>2
  <2> QED
    BY <2>2, <2>3, <2>4 DEF Learned
<1>4. CASE Test
  <2>1. \/ check' = "comparing" /\ UNCHANGED pushed /\ TestsPass(pushed)
        \/ check' = "idle" /\ pushed' = main
    BY <1>4 DEF Test, Concludes
  <2>2. UNCHANGED <<editVars, main>>
    BY <1>4 DEF Test, Concludes
  <2>3. TypedTrees'
    BY <2>1, <2>2 DEF TypedTrees, editVars
  <2> QED
    BY <2>1, <2>2, <2>3 DEF Learned
<1>5. CASE Compare
  <2>1. \/ check' = "green" /\ UNCHANGED pushed /\ TestsPass(pushed) /\ InSync(pushed)
        \/ check' = "idle" /\ pushed' = main
    BY <1>5 DEF Compare, Concludes, Learned
  <2>2. UNCHANGED <<editVars, main>>
    BY <1>5 DEF Compare, Concludes
  <2>3. TypedTrees'
    BY <2>1, <2>2 DEF TypedTrees, editVars
  <2> QED
    BY <2>1, <2>2, <2>3 DEF Learned
<1>6. CASE UNCHANGED pipelineVars
  BY <1>6 DEF pipelineVars, editVars, TypedTrees, Learned
<1> QED
  BY <1>1, <1>2, <1>3, <1>4, <1>5, <1>6 DEF PipelineNext, People, CI

(***************************************************************************)
(* The invariant of the pipeline: CI remembers truthfully what it has      *)
(* found out about the commit it looks at.                                 *)
(***************************************************************************)
THEOREM PipelineInvariance == PipelineSpec => []PipelineIInv
  BY InitIInv, NextIInv, PTL DEF PipelineSpec

(***************************************************************************)
(* Whatever commands died and whatever a commit left out, main holds one   *)
(* contract: the same files in three languages, none torn, of one          *)
(* generation.                                                             *)
(***************************************************************************)
THEOREM OneContractOnMain == PipelineSpec => []MainIsOneContract
<1>1. PipelineIInv => MainIsOneContract
  BY DEF PipelineIInv, OneContract, MainIsOneContract
<1> QED
  BY <1>1, PipelineInvariance, PTL

----------------------------------------------------------------------------
\* The types of the rest: the copies of a running sync are pairs of a package and a
\* file, and there are some left exactly while it runs.

\* The files there are form a sequence, and not the empty one if there is one.
LEMMA GlobTyped ==
    ASSUME NEW t
    PROVE  /\ Glob(t) \in Seq(Files)
           /\ Present(t) # {} => Len(Glob(t)) > 0
<1>1. \A f \in Files : /\ IfPresent(t, f) \in Seq(Files)
                       /\ Len(IfPresent(t, f)) = IF f \in Present(t) THEN 1 ELSE 0
  BY DEF IfPresent
<1>2. PICK a \in Seq(Files), b \in Seq(Files), c \in Seq(Files), d \in Seq(Files) :
         /\ Len(a) = (IF "link" \in Present(t) THEN 1 ELSE 0)
         /\ Len(b) = (IF "extra" \in Present(t) THEN 1 ELSE 0)
         /\ Len(c) = (IF "sig" \in Present(t) THEN 1 ELSE 0)
         /\ Len(d) = (IF "qv2" \in Present(t) THEN 1 ELSE 0)
         /\ Glob(t) = a \o b \o c \o d
  BY <1>1 DEF Glob, Files
<1>3. /\ Glob(t) \in Seq(Files)
      /\ Len(Glob(t)) = Len(a) + Len(b) + Len(c) + Len(d)
  <2>1. PICK e : e = a \o b
    OBVIOUS
  <2>2. e \in Seq(Files) /\ Len(e) = Len(a) + Len(b)
    BY <2>1, ConcatProperties
  <2>3. PICK g : g = e \o c
    OBVIOUS
  <2>4. g \in Seq(Files) /\ Len(g) = Len(e) + Len(c)
    BY <2>2, <2>3, ConcatProperties
  <2>5. g \o d \in Seq(Files) /\ Len(g \o d) = Len(g) + Len(d)
    BY <2>4, ConcatProperties
  <2>6. Glob(t) = g \o d
    BY <1>2, <2>1, <2>3
  <2> QED
    BY <2>2, <2>4, <2>5, <2>6
<1>4. Present(t) # {} => \E f \in {"link", "extra", "sig", "qv2"} : f \in Present(t)
  BY DEF Present, Files
<1> QED
  BY <1>2, <1>3, <1>4

\* Two copies of each file make a sequence, which is not empty either.
LEMMA CopiesTyped ==
    ASSUME NEW fs \in Seq(Files), Len(fs) > 0
    PROVE  Copies(fs) \in Seq(Packages \X Files) /\ Copies(fs) # <<>>
<1>1. Len(fs) \in Nat /\ 2 * Len(fs) \in Nat /\ 2 * Len(fs) # 0
  OBVIOUS
<1>2. ASSUME NEW k \in 1..(2 * Len(fs))
      PROVE  /\ (k + 1) \div 2 \in 1..Len(fs)
             /\ fs[(k + 1) \div 2] \in Files
  <2>1. (k + 1) \div 2 \in 1..Len(fs)
    BY <1>1
  <2> QED
    BY <2>1
<1>3. Copies(fs) \in [1..(2 * Len(fs)) -> Packages \X Files]
  BY <1>2 DEF Copies, Packages
<1>4. Copies(fs) \in Seq(Packages \X Files) /\ Len(Copies(fs)) = 2 * Len(fs)
  BY <1>1, <1>3
<1> QED
  BY <1>1, <1>4

\* What is left of the type beside that of the trees.
Ongoing ==
    /\ command \in {"none", "signed", "sigOpen", "sigWritten", "qv2Open", "copying"}
    /\ todo \in Seq(Packages \X Files)
    /\ todo # <<>> <=> command = "copying"
    /\ exit \in {"none", "died", "gen ok", "gen failed", "sync ok"}
    /\ before \in [Files -> FileContent]
    /\ check \in {"idle", "testing", "comparing", "green"}

\* One sequence is empty, and a tail is one shorter.
LEMMA Shorter ==
    ASSUME NEW S, NEW s \in Seq(S)
    PROVE  /\ <<>> \in Seq(S)
           /\ Len(s) \in Nat /\ (s = <<>> <=> Len(s) = 0)
           /\ s # <<>> => Tail(s) \in Seq(S) /\ Len(Tail(s)) = Len(s) - 1
                          /\ (Tail(s) = <<>> <=> Len(s) = 1)
<1>1. <<>> \in Seq(S) /\ \A q \in Seq(S) : q = <<>> <=> Len(q) = 0
  BY EmptySeq
<1>2. Len(s) \in Nat
  BY LenProperties
<1>3. CASE s # <<>>
  <2>1. Tail(s) \in Seq(S) /\ Len(Tail(s)) = Len(s) - 1
    BY <1>3, HeadTailProperties
  <2>2. Tail(s) = <<>> <=> Len(Tail(s)) = 0
    BY <1>1, <2>1, Zenon
  <2>3. Len(Tail(s)) = 0 <=> Len(s) = 1
    BY <1>2, <2>1
  <2>4. <<>> \in Seq(S) /\ (s = <<>> <=> Len(s) = 0)
    BY <1>1, Zenon
  <2> QED
    BY <1>2, <1>3, <2>1, <2>2, <2>3, <2>4, Zenon
<1>4. CASE s = <<>>
  BY <1>1, <1>2, <1>4, Zenon
<1> QED
  BY <1>3, <1>4, Zenon

\* Nothing that runs leaves the types, whether it ends or dies.
LEMMA OngoingStep == TypedTrees /\ TypedTrees' /\ Ongoing /\ [PipelineNext]_pipelineVars =>
   Ongoing'
<1> SUFFICES ASSUME TypedTrees, TypedTrees', Ongoing,
    [PipelineNext]_pipelineVars PROVE Ongoing'
  OBVIOUS
<1> USE DEF Ongoing
<1>1. /\ tree.vectors \in [Files -> FileContent] /\ tree'.vectors \in [Files -> FileContent]
      /\ main.vectors \in [Files -> FileContent]
  BY DEF TypedTrees, Tree
<1>2. CASE Generator
  <2>1. /\ command # "copying" /\ command' # "copying" /\ UNCHANGED <<check, todo>>
        /\ command' \in {"none", "signed", "sigOpen", "sigWritten", "qv2Open"}
        /\ exit' \in {exit, "none", "gen ok", "gen failed"}
        /\ before' \in {before, tree.vectors}
    BY <1>2 DEF Free, Generator, Sign, OpenSig, WriteSig, Refuse, OpenQv2, WriteQv2, Step, Ends
  <2> QED
    BY <1>1, <2>1
<1>3. CASE StartSync
  <2>1. /\ todo' = Copies(Glob(tree)) /\ before' = tree.vectors
        /\ command' = "copying" /\ exit' = "none" /\ UNCHANGED check
        /\ Present(tree) # {}
    BY <1>3 DEF StartSync
  <2>2. todo' \in Seq(Packages \X Files) /\ todo' # <<>>
    BY <2>1, GlobTyped, CopiesTyped
  <2> QED
    BY <1>1, <2>1, <2>2
<1>4. CASE Copy
  <2>1. /\ command = "copying" /\ todo' = Tail(todo) /\ UNCHANGED <<before, check>>
        /\ \/ Len(todo) = 1 /\ command' = "none" /\ exit' = "sync ok"
           \/ Len(todo) # 1 /\ UNCHANGED <<command, exit>>
    BY <1>4 DEF Copy, LastCopy
  <2>2. Tail(todo) \in Seq(Packages \X Files) /\ (Tail(todo) = <<>> <=> Len(todo) = 1)
    BY <2>1, Shorter
  <2> QED
    BY <2>1, <2>2
<1>5. CASE Dies
  <2>1. /\ command' = "none" /\ todo' = <<>> /\ exit' = "died"
        /\ before' = tree.vectors /\ UNCHANGED check
    BY <1>5 DEF Dies
  <2>2. <<>> \in Seq(Packages \X Files)
    BY Shorter
  <2>3. todo' # <<>> <=> command' = "copying"
    BY <2>1
  <2> QED
    BY <1>1, <2>1, <2>2, <2>3
<1>6. CASE Repoint \/ GiveUp \/ TakeUp \/ Unanchor \/ Restore
  BY <1>1, <1>6 DEF Repoint, GiveUp, TakeUp, Unanchor, Restore, FileEdited
<1>7. CASE Push
  BY <1>7 DEF Push, editVars
<1>8. CASE Merge
  BY <1>8 DEF Merge, editVars
<1>9. CASE CI
  BY <1>9 DEF CI, Test, Compare, Concludes, editVars
<1>10. CASE UNCHANGED pipelineVars
  BY <1>10 DEF pipelineVars, editVars
<1> QED
  BY <1>2, <1>3, <1>4, <1>5, <1>6, <1>7, <1>8, <1>9, <1>10 DEF PipelineNext, People, Sync

\* The pipeline keeps its types: a sync has copies left exactly while it runs,
\* whatever dies.
THEOREM PipelineTypeCorrect == PipelineSpec => []PipelineTypeOK
<1>1. PipelineInit => Ongoing
  <2>1. SUFFICES ASSUME PipelineInit PROVE Ongoing
    OBVIOUS
  <2>2. Published.vectors \in [Files -> FileContent]
    BY PublishedIsTree DEF Tree
  <2> QED
    BY <2>1, <2>2 DEF PipelineInit, Ongoing
<1>2. PipelineIInv /\ PipelineIInv' /\ Ongoing /\ [PipelineNext]_pipelineVars => Ongoing'
  BY OngoingStep DEF PipelineIInv
<1>3. PipelineIInv /\ Ongoing => PipelineTypeOK
  BY DEF PipelineIInv, TypedTrees, Ongoing, PipelineTypeOK
<1> QED
  BY <1>1, <1>2, <1>3, PipelineInvariance, PTL DEF PipelineSpec

----------------------------------------------------------------------------
(***************************************************************************)
(* What an exit status promises.  A command that runs has not exited; what *)
(* the generator has written so far is fresh, and a mirror differs from    *)
(* vectors/ only where a copy is still to be made, in vectors/ that nobody *)
(* touches meanwhile.                                                      *)
(***************************************************************************)
Waiting(p, f) == \E k \in 1..Len(todo) : todo[k] = <<p, f>>

Halfway ==
    /\ command # "none" => exit = "none"
    /\ command \in {"sigWritten", "qv2Open"} => tree.vectors["sig"] = Whole(fresh)
    /\ command = "copying" =>
          /\ tree.vectors = before
          /\ \A p \in Packages, f \in Files :
                Waiting(p, f) \/ tree.mirror[p][f] = tree.vectors[f]

\* What is in one of two sequences is in the two of them together.
In(s, x) == \E k \in 1..Len(s) : s[k] = x

\* A list holds what either of its halves holds.
LEMMA InEither ==
    ASSUME NEW S, NEW s \in Seq(S), NEW t \in Seq(S), NEW x, In(s, x) \/ In(t, x)
    PROVE  In(s \o t, x)
<1> USE DEF In
<1>1. /\ s \o t \in Seq(S) /\ Len(s \o t) = Len(s) + Len(t)
      /\ Len(s) \in Nat /\ Len(t) \in Nat
      /\ \A i \in 1..(Len(s) + Len(t)) :
            (s \o t)[i] = IF i <= Len(s) THEN s[i] ELSE t[i - Len(s)]
  BY ConcatProperties, LenProperties
<1>2. CASE \E k \in 1..Len(s) : s[k] = x
  <2>1. PICK k \in 1..Len(s) : s[k] = x
    BY <1>2
  <2>2. k \in 1..(Len(s) + Len(t)) /\ k <= Len(s)
    BY <1>1
  <2> QED
    BY <1>1, <2>1, <2>2
<1>3. CASE \E k \in 1..Len(t) : t[k] = x
  <2>1. PICK k \in 1..Len(t) : t[k] = x
    BY <1>3
  <2>2. /\ k + Len(s) \in 1..(Len(s) + Len(t)) /\ ~(k + Len(s) <= Len(s))
        /\ (k + Len(s)) - Len(s) = k
    BY <1>1
  <2>3. (s \o t)[k + Len(s)] = x
    BY <1>1, <2>1, <2>2
  <2> QED
    BY <1>1, <2>2, <2>3
<1> QED
  BY <1>1, <1>2, <1>3

\* The sync sees every file there is.
LEMMA GlobComplete ==
    ASSUME NEW t, NEW f \in Present(t)
    PROVE  \E k \in 1..Len(Glob(t)) : Glob(t)[k] = f
<1>1. \A g \in Files : /\ IfPresent(t, g) \in Seq(Files)
                       /\ g \in Present(t) =>
                             \E k \in 1..Len(IfPresent(t, g)) : IfPresent(t, g)[k] = g
  <2> SUFFICES ASSUME NEW g \in Files
                PROVE  /\ IfPresent(t, g) \in Seq(Files)
                       /\ g \in Present(t) =>
                             \E k \in 1..Len(IfPresent(t, g)) : IfPresent(t, g)[k] = g
    OBVIOUS
  <2>1. CASE g \in Present(t)
    <3>1. IfPresent(t, g) = <<g>>
      BY <2>1 DEF IfPresent
    <3>2. Len(<<g>>) = 1 /\ <<g>>[1] = g /\ <<g>> \in Seq(Files) /\ 1 \in 1..1
      OBVIOUS
    <3> QED
      BY <3>1, <3>2
  <2>2. CASE g \notin Present(t)
    BY <2>2 DEF IfPresent
  <2> QED
    BY <2>1, <2>2
<1>2. f \in {"link", "extra", "sig", "qv2"} /\ f \in Files
  BY DEF Present, Files
<1>3. PICK a \in Seq(Files), b \in Seq(Files), c \in Seq(Files), d \in Seq(Files) :
         /\ f = "link" => \E k \in 1..Len(a) : a[k] = f
         /\ f = "extra" => \E k \in 1..Len(b) : b[k] = f
         /\ f = "sig" => \E k \in 1..Len(c) : c[k] = f
         /\ f = "qv2" => \E k \in 1..Len(d) : d[k] = f
         /\ Glob(t) = a \o b \o c \o d
  BY <1>1 DEF Glob, Files
<1>4. PICK e : e = a \o b
  OBVIOUS
<1>5. e \in Seq(Files) /\ (In(a, f) \/ In(b, f) => In(e, f))
  <2>1. e \in Seq(Files)
    BY <1>4, ConcatProperties
  <2>2. In(a, f) \/ In(b, f) => In(a \o b, f)
    BY InEither
  <2> QED
    BY <1>4, <2>1, <2>2
<1>6. PICK g : g = e \o c
  OBVIOUS
<1>7. g \in Seq(Files) /\ (In(e, f) \/ In(c, f) => In(g, f))
  <2>1. g \in Seq(Files)
    BY <1>5, <1>6, ConcatProperties
  <2>2. In(e, f) \/ In(c, f) => In(e \o c, f)
    BY <1>5, InEither
  <2> QED
    BY <1>6, <2>1, <2>2
<1>8. In(g, f) \/ In(d, f) => In(g \o d, f)
  BY <1>7, InEither
<1>9. Glob(t) = g \o d
  BY <1>3, <1>4, <1>6
<1> QED
  BY <1>2, <1>3, <1>5, <1>7, <1>8, <1>9 DEF In

\* It copies each of them to both packages.
LEMMA CopiesComplete ==
    ASSUME NEW fs \in Seq(Files), NEW p \in Packages, NEW j \in 1..Len(fs)
    PROVE  \E k \in 1..Len(Copies(fs)) : Copies(fs)[k] = <<p, fs[j]>>
<1>1. Len(fs) \in Nat /\ Len(Copies(fs)) = 2 * Len(fs)
  BY DEF Copies
<1>2. CASE p = "npm"
  <2>1. 2 * j - 1 \in 1..(2 * Len(fs)) /\ (2 * j - 1) % 2 = 1 /\ (2 * j - 1 + 1) \div 2 = j
    BY <1>1
  <2>2. Copies(fs)[2 * j - 1] = <<p, fs[j]>>
    BY <1>2, <2>1 DEF Copies
  <2> QED
    BY <1>1, <2>1, <2>2
<1>3. CASE p = "python"
  <2>1. 2 * j \in 1..(2 * Len(fs)) /\ (2 * j) % 2 # 1 /\ (2 * j + 1) \div 2 = j
    BY <1>1
  <2>2. Copies(fs)[2 * j] = <<p, fs[j]>>
    BY <1>3, <2>1 DEF Copies
  <2> QED
    BY <1>1, <2>1, <2>2
<1> QED
  BY <1>2, <1>3 DEF Packages

\* A sync starts with a copy to make for every file, and nothing in the mirrors.
LEMMA SyncStarts ==
    ASSUME TypedTrees, StartSync, NEW p \in Packages, NEW f \in Files
    PROVE  Waiting(p, f)' \/ tree'.mirror[p][f] = tree'.vectors[f]
<1>1. /\ todo' = Copies(Glob(tree)) /\ tree' = [tree EXCEPT !.mirror = Emptied]
      /\ tree.vectors \in [Files -> FileContent] /\ tree \in Tree
  BY DEF StartSync, TypedTrees, Tree
<1>2. CASE f \in Present(tree)
  <2>1. PICK j \in 1..Len(Glob(tree)) : Glob(tree)[j] = f
    BY <1>2, GlobComplete
  <2>2. Glob(tree) \in Seq(Files)
    BY GlobTyped
  <2>3. \E k \in 1..Len(Copies(Glob(tree))) : Copies(Glob(tree))[k] = <<p, f>>
    BY <2>1, <2>2, CopiesComplete
  <2> QED
    BY <1>1, <2>3 DEF Waiting
<1>3. CASE f \notin Present(tree)
  <2>1. tree.vectors[f] = NoFile
    BY <1>1, <1>3, Kinds DEF Present
  <2>2. tree'.mirror[p][f] = NoFile /\ tree'.vectors[f] = tree.vectors[f]
    BY <1>1 DEF Tree, Emptied
  <2> QED
    BY <2>1, <2>2
<1> QED
  BY <1>2, <1>3

\* A copy makes good for the first that was waiting, and leaves the others as they were.
LEMMA CopyMakesGood ==
    ASSUME TypedTrees, Ongoing, Halfway, Copy, NEW p \in Packages, NEW f \in Files
    PROVE  /\ tree'.vectors = tree.vectors
           /\ Waiting(p, f)' \/ tree'.mirror[p][f] = tree'.vectors[f]
<1> DEFINE p0 == Current[1]
            f0 == Current[2]
<1>1. /\ command = "copying" /\ todo' = Tail(todo) /\ todo # <<>>
      /\ todo \in Seq(Packages \X Files)
      /\ tree' = [tree EXCEPT !.mirror[p0][f0] = tree.vectors[f0]]
  BY DEF Copy, CopyTo, Ongoing
<1>2. /\ Len(todo) \in Nat /\ Len(todo) > 0 /\ todo[1] = Current
      /\ Len(Tail(todo)) = Len(todo) - 1
      /\ \A i \in 1..(Len(todo) - 1) : Tail(todo)[i] = todo[i + 1]
  BY <1>1, HeadTailProperties, EmptySeq, LenProperties DEF Current
<1>3. Current \in Packages \X Files
  BY <1>1, <1>2
<1>4. p0 \in Packages /\ f0 \in Files /\ Current = <<p0, f0>>
  BY <1>3
<1>5. tree'.vectors = tree.vectors
  BY <1>1 DEF TypedTrees, Tree
<1>6. tree'.mirror[p][f] = IF p = p0 /\ f = f0 THEN tree.vectors[f] ELSE tree.mirror[p][f]
  <2>1. tree.mirror \in [Packages -> [Files -> FileContent]] /\ tree \in Tree
    BY DEF TypedTrees, Tree
  <2>2. tree'.mirror = [tree.mirror EXCEPT ![p0][f0] = tree.vectors[f0]]
    BY <1>1, <2>1 DEF Tree
  <2> HIDE DEF p0, f0
  <2> QED
    BY <1>4, <2>1, <2>2
<1>7. CASE p = p0 /\ f = f0
  BY <1>5, <1>6, <1>7
<1>8. CASE ~(p = p0 /\ f = f0)
  <2>1. CASE Waiting(p, f)
    <3>1. PICK k \in 1..Len(todo) : todo[k] = <<p, f>>
      BY <2>1 DEF Waiting
    <3>2. k # 1
      BY <1>2, <1>4, <1>8, <3>1
    <3>3. k - 1 \in 1..(Len(todo) - 1) /\ (k - 1) + 1 = k
      BY <1>2, <3>2
    <3>4. Tail(todo)[k - 1] = <<p, f>>
      BY <1>2, <3>1, <3>3
    <3> QED
      BY <1>1, <1>2, <1>5, <3>3, <3>4 DEF Waiting
  <2>2. CASE tree.mirror[p][f] = tree.vectors[f]
    BY <1>5, <1>6, <1>8, <2>2
  <2> QED
    BY <1>1, <1>5, <2>1, <2>2 DEF Halfway
<1> QED
  BY <1>5, <1>7, <1>8

\* Nothing differs any more when nothing waits.
LEMMA NothingWaits ==
    ASSUME NEW t, \A p \in Packages, f \in Files : t.mirror[p][f] = t.vectors[f]
    PROVE  InSync(t)
BY DEF InSync, Missing, Drift, Orphan, Present

\* A copy is done or still waiting after every step.
LEMMA HalfwayStep ==
    ASSUME TypedTrees, Ongoing, Halfway, ExitMeansDone, [PipelineNext]_pipelineVars
    PROVE  Halfway' /\ ExitMeansDone'
<1> USE DEF Step, Ends, Free, Files
<1>1. tree \in Tree /\ tree.vectors \in [Files -> FileContent]
  BY DEF TypedTrees, Tree
<1>2. CASE Sign \/ OpenSig
  BY <1>2 DEF Sign, OpenSig, Halfway, ExitMeansDone
<1>3. CASE WriteSig
  BY <1>1, <1>3 DEF WriteSig, Writes, Halfway, ExitMeansDone, Tree
<1>4. CASE Refuse
  BY <1>4 DEF Refuse, Halfway, ExitMeansDone
<1>5. CASE OpenQv2
  BY <1>1, <1>5 DEF OpenQv2, Writes, Halfway, ExitMeansDone, Tree
<1>6. CASE WriteQv2
  BY <1>1, <1>6 DEF WriteQv2, Writes, Halfway, ExitMeansDone, Tree
<1>7. CASE StartSync
  <2>1. /\ command' = "copying" /\ exit' = "none" /\ before' = tree.vectors
        /\ tree'.vectors = tree.vectors
    BY <1>1, <1>7 DEF StartSync, Tree
  <2> QED
    BY <1>7, <2>1, SyncStarts DEF Halfway, ExitMeansDone
<1>8. CASE Copy
  <2>1. /\ command = "copying" /\ exit = "none" /\ before' = before /\ todo' = Tail(todo)
        /\ tree.vectors = before
        /\ \/ Len(todo) = 1 /\ command' = "none" /\ exit' = "sync ok"
           \/ Len(todo) # 1 /\ UNCHANGED <<command, exit>>
    BY <1>8 DEF Copy, LastCopy, Halfway
  <2>2. tree'.vectors = before'
    BY <1>8, <2>1, CopyMakesGood DEF Packages
  <2>3. ASSUME NEW p \in Packages, NEW f \in Files
        PROVE  Waiting(p, f)' \/ tree'.mirror[p][f] = tree'.vectors[f]
    BY <1>8, CopyMakesGood
  <2>4. CASE Len(todo) = 1
    <3>1. Len(todo') = 0
      BY <2>1, <2>4, Shorter, EmptySeq DEF Ongoing
    <3>2. \A p \in Packages, f \in Files : tree'.mirror[p][f] = tree'.vectors[f]
      BY <2>3, <3>1 DEF Waiting
    <3>3. InSync(tree')
      BY <3>2, NothingWaits
    <3> QED
      BY <2>1, <2>2, <2>4, <3>3
         DEF Halfway, ExitMeansDone, InSync, Missing, Drift, Orphan, Present
  <2>5. CASE Len(todo) # 1
    BY <2>1, <2>2, <2>3, <2>5 DEF Halfway, ExitMeansDone
  <2> QED
    BY <2>4, <2>5
<1>9. CASE Dies
  BY <1>9 DEF Dies, Halfway, ExitMeansDone
<1>10. CASE Repoint \/ GiveUp \/ TakeUp \/ Unanchor \/ Restore
  <2>1. command = "none" /\ command' = "none" /\ exit' = "none"
    BY <1>10 DEF Repoint, GiveUp, TakeUp, Unanchor, Restore, FileEdited
  <2> QED
    BY <2>1 DEF Halfway, ExitMeansDone
<1>11. CASE Push \/ Merge \/ CI \/ UNCHANGED pipelineVars
  <2>1. UNCHANGED <<tree, command, fresh, todo, exit, before>>
    BY <1>11 DEF Push, Merge, CI, Test, Compare, Concludes, pipelineVars, editVars
  <2> QED
    BY <2>1 DEF Halfway, ExitMeansDone, Waiting, InSync, Missing, Drift, Orphan, Present
<1> QED
  BY <1>2, <1>3, <1>4, <1>5, <1>6, <1>7, <1>8, <1>9, <1>10, <1>11
  DEF PipelineNext, Generator, Sync, People

\* Exit status 0 means done, whatever died before and whatever is in the tree.
THEOREM DoneWhenItSaysSo == PipelineSpec => []ExitMeansDone
<1>1. PipelineInit => Halfway /\ ExitMeansDone
  BY DEF PipelineInit, Halfway, ExitMeansDone
<1>2. PipelineTypeOK => Ongoing
  BY DEF PipelineTypeOK, Ongoing
<1>3. PipelineIInv /\ Ongoing /\ Halfway /\ ExitMeansDone /\ [PipelineNext]_pipelineVars
        => Halfway' /\ ExitMeansDone'
  BY HalfwayStep DEF PipelineIInv
<1> QED
  BY <1>1, <1>2, <1>3, PipelineInvariance, PipelineTypeCorrect, PTL DEF PipelineSpec
=============================================================================
