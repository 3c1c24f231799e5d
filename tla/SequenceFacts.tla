---------------------------- MODULE SequenceFacts ----------------------------
(***************************************************************************)
(* Facts about sequences and finite sets.  Induction is stated for sets,   *)
(* and recursion for functions: what is to be shown of every number or     *)
(* subset is given as the set of those of which it holds, and what a       *)
(* recursive function does in one step as a function.                      *)
(*                                                                         *)
(* A sequence here is any function that is one, of whatever elements.      *)
(***************************************************************************)
EXTENDS SequenceParts, FiniteSets, SequenceTheorems, FiniteSetTheorems,
        NaturalsInduction, WellFoundedInduction, TLAPS

----------------------------------------------------------------------------
(* Induction and recursion.                                                *)

\* What holds of 0, and of n + 1 where it holds of n, holds of all numbers.
LEMMA NatSetInduction ==
  ASSUME NEW S, 0 \in S, \A n \in Nat : n \in S => n + 1 \in S
  PROVE  Nat \subseteq S
<1> SUFFICES ASSUME ~(Nat \subseteq S) PROVE FALSE
  OBVIOUS
<1> DEFINE T == {n \in Nat : n \notin S}
<1>1. T # {} /\ T \subseteq Nat
  OBVIOUS
<1> HIDE DEF T
<1>2. PICK x \in T : \A y \in T : ~ (<<y, x>> \in OpToRel(<, Nat))
  BY <1>1, NatLessThanWellFounded, WFMin
<1>3. \A y \in T : ~(y < x)
  BY <1>1, <1>2 DEF OpToRel
<1>4. x \in Nat /\ x \notin S /\ x # 0
  BY <1>2 DEF T
<1>5. x - 1 \in Nat /\ x - 1 < x /\ (x - 1) + 1 = x
  BY <1>4
<1>6. x - 1 \in S
  BY <1>3, <1>5 DEF T
<1> QED
  BY <1>4, <1>5, <1>6

\* The same up to a bound.
LEMMA UpToInduction ==
  ASSUME NEW n \in Nat, NEW S, 0 \in S, \A i \in 1 .. n : i - 1 \in S => i \in S
  PROVE  0 .. n \subseteq S
<1> DEFINE T == {i \in Nat : i <= n => i \in S}
<1>1. ASSUME NEW i \in Nat, i \in T PROVE i + 1 \in T
  <2> SUFFICES ASSUME i + 1 <= n PROVE i + 1 \in S
    OBVIOUS
  <2>1. i \in S /\ i + 1 \in 1 .. n /\ (i + 1) - 1 = i
    BY <1>1
  <2> QED
    BY <2>1
<1>2. 0 \in T
  OBVIOUS
<1> HIDE DEF T
<1>3. Nat \subseteq T
  BY <1>1, <1>2, NatSetInduction
<1> QED
  BY <1>3 DEF T

(* A function may be defined by what it is on a smaller set.               *)
Shrinks(D, Z, c) == \A S \in SUBSET D : S \notin Z => c[S] \in S
StepsDown(D, Z, h, A) == \A S \in SUBSET D : \A a \in A : S \notin Z => h[S][a] \in A
Solved(f, D, Z, b, c, h) ==
  \A S \in SUBSET D : f[S] = IF S \in Z THEN b ELSE h[S][f[S \ {c[S]}]]
Solvable(D, A, Z, b, c, h) == \E f \in [SUBSET D -> A] : Solved(f, D, Z, b, c, h)

LEMMA SubsetRecursion ==
  ASSUME NEW D, IsFiniteSet(D), NEW A, NEW Z, NEW b \in A, NEW c, NEW h,
         Shrinks(D, Z, c), StepsDown(D, Z, h, A)
  PROVE  Solvable(D, A, Z, b, c, h)
<1> DEFINE Small(m) == {S \in SUBSET D : Cardinality(S) < m}
           Solves(f, m) ==
             \A S \in Small(m) : f[S] = IF S \in Z THEN b ELSE h[S][f[S \ {c[S]}]]
           T == {m \in Nat : \E f \in [Small(m) -> A] : Solves(f, m)}
<1>0. \A S \in SUBSET D : IsFiniteSet(S) /\ Cardinality(S) \in Nat /\ Cardinality(S) <= Cardinality(D)
  BY FS_Subset, FS_CardinalityType
<1>1. 0 \in T
  <2>1. Small(0) = {}
    BY <1>0
  <2>2. [S \in Small(0) |-> {}] \in [Small(0) -> A]
    BY <2>1
  <2> QED
    BY <2>1, <2>2
<1>2. ASSUME NEW m \in Nat, m \in T PROVE m + 1 \in T
  <2>1. PICK f \in [Small(m) -> A] : Solves(f, m)
    BY <1>2
  <2> DEFINE g == [S \in Small(m + 1) |->
                     IF S \in Z THEN b ELSE h[S][f[S \ {c[S]}]]]
  <2>2. ASSUME NEW S \in Small(m + 1), S \notin Z
        PROVE  S \ {c[S]} \in Small(m)
    <3>1. S \in SUBSET D /\ c[S] \in S /\ Cardinality(S) < m + 1
      BY <2>2 DEF Shrinks
    <3>2. Cardinality(S \ {c[S]}) = Cardinality(S) - 1
      BY <1>0, <3>1, FS_RemoveElement
    <3> QED
      BY <1>0, <3>1, <3>2
  <2>3. g \in [Small(m + 1) -> A]
    <3>1. ASSUME NEW S \in Small(m + 1) PROVE g[S] \in A
      <4>1. CASE S \in Z
        BY <4>1
      <4>2. CASE S \notin Z
        BY <2>1, <2>2, <4>2 DEF StepsDown
      <4> QED
        BY <4>1, <4>2
    <3> QED
      BY <3>1
  <2>4. ASSUME NEW S \in Small(m) PROVE S \in Small(m + 1) /\ g[S] = f[S]
    <3>1. S \in Small(m + 1)
      BY <1>0
    <3> QED
      BY <2>1, <3>1
  <2>5. Solves(g, m + 1)
    <3>1. ASSUME NEW S \in Small(m + 1), S \notin Z
          PROVE  g[S] = h[S][g[S \ {c[S]}]]
      BY <2>2, <2>4, <3>1
    <3> QED
      BY <3>1
  <2> HIDE DEF g, Solves, Small
  <2>6. \E k \in [Small(m + 1) -> A] : Solves(k, m + 1)
    BY <2>3, <2>5
  <2> QED
    BY <2>6
<1> HIDE DEF T
<1>3. Cardinality(D) + 1 \in T
  <2>1. Nat \subseteq T
    BY <1>1, <1>2, NatSetInduction
  <2> QED
    BY <1>0, <2>1
<1>4. SUBSET D = Small(Cardinality(D) + 1)
  BY <1>0
<1> QED
  BY <1>3, <1>4 DEF T, Solved, Solvable

(* A sequence may be defined step by step.                                 *)
StepsIn(h, n, A) == \A i \in 1 .. n : \A a \in A : h[i][a] \in A
Recurs(f, b, h, n) == f[0] = b /\ \A i \in 1 .. n : f[i] = h[i][f[i - 1]]

LEMMA UpToRecursion ==
  ASSUME NEW n \in Nat, NEW A, NEW b \in A, NEW h, StepsIn(h, n, A)
  PROVE  \E f \in [0 .. n -> A] : Recurs(f, b, h, n)
<1> DEFINE S == {m \in 0 .. n : \E f \in [0 .. m -> A] : Recurs(f, b, h, m)}
<1>1. 0 \in S
  <2> DEFINE g == [i \in 0 .. 0 |-> b]
  <2>1. g \in [0 .. 0 -> A] /\ Recurs(g, b, h, 0)
    BY DEF Recurs
  <2> HIDE DEF g
  <2> QED
    BY <2>1
<1>2. ASSUME NEW m \in 1 .. n, m - 1 \in S PROVE m \in S
  <2>1. PICK f \in [0 .. m - 1 -> A] : Recurs(f, b, h, m - 1)
    BY <1>2
  <2> DEFINE g == [i \in 0 .. m |-> IF i = m THEN h[m][f[m - 1]] ELSE f[i]]
  <2>2. f[m - 1] \in A /\ h[m][f[m - 1]] \in A
    BY <2>1 DEF StepsIn
  <2>3. g \in [0 .. m -> A]
    BY <2>1, <2>2
  <2>4. Recurs(g, b, h, m)
    <3>1. g[0] = b /\ g[m] = h[m][g[m - 1]]
      BY <2>1 DEF Recurs
    <3>2. ASSUME NEW i \in 1 .. m - 1 PROVE g[i] = h[i][g[i - 1]]
      BY <2>1 DEF Recurs
    <3> HIDE DEF g
    <3> QED
      BY <3>1, <3>2 DEF Recurs
  <2> HIDE DEF g
  <2>5. \E k \in [0 .. m -> A] : Recurs(k, b, h, m)
    BY <2>3, <2>4
  <2> QED
    BY <2>5
<1> HIDE DEF S
<1>3. n \in S
  BY <1>1, <1>2, UpToInduction
<1> QED
  BY <1>3 DEF S

----------------------------------------------------------------------------
(* The concatenations of ever more sequences, the last of which is what    *)
(* flattening yields.                                                      *)
Joins(r, ss, n) ==
  /\ r[0] = <<>> /\ r[n] = FlattenSeq(ss)
  /\ \A i \in 1 .. n : r[i] = r[i - 1] \o ss[i]

LEMMA FlattenSteps ==
  ASSUME NEW E, NEW n \in Nat, NEW ss \in [1 .. n -> Seq(E)]
  PROVE  \E r \in [0 .. n -> Seq(E)] : Joins(r, ss, n)
<1>0. Len(ss) = n /\ ss \in Seq(Seq(E)) /\ <<>> \in Seq(E)
  OBVIOUS
<1> DEFINE h == [i \in 1 .. n |-> [a \in Seq(E) |-> a \o ss[i]]]
<1>1. PICK r \in [0 .. n -> Seq(E)] : Recurs(r, <<>>, h, n)
  <2>1. \A i \in 1 .. n : \A a \in Seq(E) : h[i][a] = a \o ss[i] /\ h[i][a] \in Seq(E)
    OBVIOUS
  <2> HIDE DEF h
  <2>2. StepsIn(h, n, Seq(E))
    BY <2>1 DEF StepsIn
  <2> QED
    BY <1>0, <2>2, UpToRecursion
<1>a. r[0] = <<>>
  BY <1>1 DEF Recurs
<1>b. ASSUME NEW i \in 1 .. n PROVE r[i - 1] \in Seq(E) /\ r[i] \in Seq(E) /\ r[i] = r[i - 1] \o ss[i]
  <2>1. i - 1 \in 0 .. n /\ i \in 0 .. n
    OBVIOUS
  <2>2. r[i - 1] \in Seq(E) /\ r[i] \in Seq(E)
    BY <1>1, <2>1
  <2>3. r[i] = h[i][r[i - 1]]
    BY <1>1 DEF Recurs
  <2> QED
    BY <2>2, <2>3
<1> HIDE DEF h
<1>2. r[n] = FlattenSeq(ss)
  <2>1. CASE n = 0
    BY <1>0, <1>a, <2>1 DEF FlattenSeq
  <2>2. CASE n # 0
    <3> DEFINE Step(g) == g = [i \in 1 .. Len(ss) |-> IF i = 1 THEN ss[i] ELSE g[i - 1] \o ss[i]]
               flatten == CHOOSE g : Step(g)
               first == [i \in 1 .. n |-> r[i]]
               S == {i \in 0 .. n : i > 0 => flatten[i] = r[i]}
    <3>1. r[1] = ss[1]
      <4>1. 1 \in 1 .. n
        BY <2>2
      <4>2. r[1] = r[1 - 1] \o ss[1] /\ ss[1] \in Seq(E)
        BY <1>b, <4>1
      <4>3. <<>> \o ss[1] = ss[1]
        BY <4>2, ConcatEmptySeq
      <4>4. 1 - 1 = 0
        OBVIOUS
      <4> QED
        BY <1>a, <4>2, <4>3, <4>4
    <3>2. Step(first)
      <4>1. ASSUME NEW i \in 1 .. n
            PROVE  first[i] = IF i = 1 THEN ss[i] ELSE first[i - 1] \o ss[i]
        <5>1. CASE i = 1
          BY <3>1, <5>1
        <5>2. CASE i # 1
          <6>1. i - 1 \in 1 .. n
            BY <5>2
          <6>2. r[i] = r[i - 1] \o ss[i]
            BY <1>b
          <6> QED
            BY <5>2, <6>1, <6>2
        <5> QED
          BY <5>1, <5>2
      <4>2. first = [i \in 1 .. n |-> first[i]]
        OBVIOUS
      <4> HIDE DEF first
      <4> QED
        BY <1>0, <4>1, <4>2
    <3> HIDE DEF first, Step
    <3>3. Step(flatten)
      BY <3>2
    <3>4. FlattenSeq(ss) = flatten[n]
      BY <1>0, <2>2 DEF FlattenSeq, Step
    <3>5. \A i \in 1 .. n : flatten[i] = IF i = 1 THEN ss[i] ELSE flatten[i - 1] \o ss[i]
      BY <1>0, <3>3 DEF Step
    <3> HIDE DEF flatten
    <3>6. 0 \in S
      OBVIOUS
    <3>7. ASSUME NEW i \in 1 .. n, i - 1 \in S PROVE i \in S
      <4>1. CASE i = 1
        BY <3>1, <3>5, <4>1
      <4>2. CASE i # 1
        <5>1. flatten[i - 1] = r[i - 1]
          BY <3>7, <4>2
        <5>2. flatten[i] = flatten[i - 1] \o ss[i]
          BY <3>5, <4>2
        <5>3. r[i] = r[i - 1] \o ss[i]
          BY <1>b
        <5>4. flatten[i] = r[i]
          BY <5>1, <5>2, <5>3
        <5> QED
          BY <5>4
      <4> QED
        BY <4>1, <4>2
    <3> HIDE DEF S
    <3>8. 0 .. n \subseteq S
      BY <3>6, <3>7, UpToInduction
    <3>9. n \in S
      BY <3>8
    <3> QED
      BY <2>2, <3>4, <3>9 DEF S
  <2> QED
    BY <2>1, <2>2
<1> QED
  BY <1>a, <1>b, <1>2 DEF Joins
----------------------------------------------------------------------------
(* What a concatenation holds is what either part holds.                   *)
LEMMA ConcatElements ==
  ASSUME NEW E, NEW s \in Seq(E), NEW t \in Seq(E)
  PROVE  ToSet(s \o t) = ToSet(s) \cup ToSet(t)
<1>1. /\ DOMAIN s = 1 .. Len(s) /\ DOMAIN t = 1 .. Len(t)
      /\ DOMAIN (s \o t) = 1 .. Len(s) + Len(t) /\ Len(s) \in Nat /\ Len(t) \in Nat
  OBVIOUS
<1>2. ToSet(s \o t) \subseteq ToSet(s) \cup ToSet(t)
  <2> SUFFICES ASSUME NEW i \in 1 .. Len(s) + Len(t) PROVE (s \o t)[i] \in ToSet(s) \cup ToSet(t)
    BY <1>1 DEF ToSet
  <2>1. CASE i <= Len(s)
    BY <1>1, <2>1 DEF ToSet
  <2>2. CASE i > Len(s)
    <3>1. i - Len(s) \in 1 .. Len(t) /\ (s \o t)[i] = t[i - Len(s)]
      BY <1>1, <2>2
    <3> QED
      BY <1>1, <3>1 DEF ToSet
  <2> QED
    BY <1>1, <2>1, <2>2
<1>3. ToSet(s) \subseteq ToSet(s \o t)
  BY <1>1 DEF ToSet
<1>4. ToSet(t) \subseteq ToSet(s \o t)
  <2> SUFFICES ASSUME NEW i \in 1 .. Len(t) PROVE t[i] \in ToSet(s \o t)
    BY <1>1 DEF ToSet
  <2>1. Len(s) + i \in 1 .. Len(s) + Len(t) /\ (s \o t)[Len(s) + i] = t[i]
    BY <1>1
  <2> QED
    BY <1>1, <2>1 DEF ToSet
<1> QED
  BY <1>2, <1>3, <1>4

(* Flattening keeps what the sequences hold, in whatever order.            *)
LEMMA FlattenElements ==
  ASSUME NEW E, NEW n \in Nat, NEW ss \in [1 .. n -> Seq(E)]
  PROVE  /\ FlattenSeq(ss) \in Seq(E)
         /\ ToSet(FlattenSeq(ss)) = UNION {ToSet(ss[i]) : i \in 1 .. n}
<1>0. PICK r \in [0 .. n -> Seq(E)] : Joins(r, ss, n)
  BY FlattenSteps
<1>1. /\ r[0] = <<>> /\ r[n] = FlattenSeq(ss)
      /\ \A i \in 1 .. n : r[i] = r[i - 1] \o ss[i]
  BY <1>0 DEF Joins
<1> DEFINE S == {i \in 0 .. n : ToSet(r[i]) = UNION {ToSet(ss[j]) : j \in 1 .. i}}
<1>2. 0 \in S
  BY <1>1 DEF ToSet
<1>3. ASSUME NEW i \in 1 .. n, i - 1 \in S PROVE i \in S
  <2>1. r[i] = r[i - 1] \o ss[i] /\ r[i - 1] \in Seq(E) /\ ss[i] \in Seq(E)
    <3>1. i - 1 \in 0 .. n
      OBVIOUS
    <3> QED
      BY <1>1, <3>1
  <2>2. ToSet(r[i]) = ToSet(r[i - 1]) \cup ToSet(ss[i])
    BY <2>1, ConcatElements
  <2>3. 1 .. i = (1 .. i - 1) \cup {i}
    OBVIOUS
  <2>4. ToSet(r[i - 1]) = UNION {ToSet(ss[j]) : j \in 1 .. i - 1}
    BY <1>3
  <2>5. ToSet(r[i]) = UNION {ToSet(ss[j]) : j \in 1 .. i}
    BY <2>2, <2>3, <2>4
  <2> QED
    BY <2>5
<1> HIDE DEF S
<1>4. 0 .. n \subseteq S
  BY <1>2, <1>3, UpToInduction
<1>5. n \in S
  BY <1>4
<1> QED
  BY <1>1, <1>5 DEF S
----------------------------------------------------------------------------
(* What is picked of a sequence stands there, at a picked place, and in    *)
(* the same order.                                                         *)
Embeds(at, part, s, places) ==
  /\ \A k \in DOMAIN part : at[k] \in DOMAIN s \cap places /\ part[k] = s[at[k]]
  /\ \A k, m \in DOMAIN part : k < m => at[k] < at[m]

\* It is a sequence, and holds what was picked.
LEMMA PickedFacts ==
  ASSUME NEW E, NEW s \in Seq(E), NEW places
  PROVE  /\ Picked(s, places) \in Seq(E)
         /\ ToSet(Picked(s, places)) = {s[i] : i \in DOMAIN s \cap places}
<1> DEFINE n == Len(s)
           ss == [i \in DOMAIN s |-> IF i \in places THEN <<s[i]>> ELSE <<>>]
<1>1. n \in Nat /\ DOMAIN s = 1 .. n
  OBVIOUS
<1>2. ss \in [1 .. n -> Seq(E)]
  BY <1>1
<1>3. \A i \in 1 .. n : ToSet(ss[i]) = IF i \in places THEN {s[i]} ELSE {}
  BY <1>1 DEF ToSet
<1>4. FlattenSeq(ss) = Picked(s, places)
  BY DEF Picked
<1> HIDE DEF ss, n
<1>5. FlattenSeq(ss) \in Seq(E) /\ ToSet(FlattenSeq(ss)) = UNION {ToSet(ss[i]) : i \in 1 .. n}
  BY <1>1, <1>2, FlattenElements
<1>6. UNION {ToSet(ss[i]) : i \in 1 .. n} = {s[i] : i \in DOMAIN s \cap places}
  BY <1>1, <1>3
<1> QED
  BY <1>4, <1>5, <1>6

\* Each of its places has one in the whole, and they are in order.
LEMMA PickedEmbeds ==
  ASSUME NEW E, NEW s \in Seq(E), NEW places
  PROVE  \E at : Embeds(at, Picked(s, places), s, places)
<1> DEFINE n == Len(s)
           ss == [i \in DOMAIN s |-> IF i \in places THEN <<s[i]>> ELSE <<>>]
<1>1. n \in Nat /\ DOMAIN s = 1 .. n
  OBVIOUS
<1>2. ss \in [1 .. n -> Seq(E)]
  BY <1>1
<1>3. FlattenSeq(ss) = Picked(s, places)
  BY DEF Picked
<1>a. \A i \in 1 .. n : ss[i] = IF i \in places THEN <<s[i]>> ELSE <<>>
  BY <1>1
<1> HIDE DEF ss, n
<1>b. PICK r \in [0 .. n -> Seq(E)] : Joins(r, ss, n)
  BY <1>1, <1>2, FlattenSteps
<1>4. /\ r[0] = <<>> /\ r[n] = FlattenSeq(ss)
      /\ \A i \in 1 .. n : r[i] = r[i - 1] \o ss[i]
  BY <1>b DEF Joins
<1> DEFINE S == {i \in 0 .. n : \E at : Embeds(at, r[i], s, places \cap (1 .. i))}
<1>5. 0 \in S
  <2>1. Embeds(<<>>, r[0], s, places \cap (1 .. 0)) /\ 0 \in 0 .. n
    BY <1>1, <1>4 DEF Embeds
  <2> QED
    BY <2>1
<1>6. ASSUME NEW i \in 1 .. n, i - 1 \in S PROVE i \in S
  <2>1. PICK at : Embeds(at, r[i - 1], s, places \cap (1 .. i - 1))
    BY <1>6
  <2>2. r[i] = r[i - 1] \o ss[i] /\ r[i - 1] \in Seq(E) /\ ss[i] \in Seq(E)
    <3>1. i - 1 \in 0 .. n
      BY <1>1
    <3> QED
      BY <1>2, <1>4, <3>1
  <2> DEFINE L == Len(r[i - 1])
             more == [k \in 1 .. L + 1 |-> IF k <= L THEN at[k] ELSE i]
  <2>3. L \in Nat /\ DOMAIN r[i - 1] = 1 .. L
    BY <2>2
  <2>a. i \in DOMAIN s /\ i \in 0 .. n /\ i \in Nat
    BY <1>1
  <2>4. CASE i \in places
    <3>1. ss[i] = <<s[i]>>
      BY <1>a, <2>4
    <3>2. DOMAIN r[i] = 1 .. L + 1 /\ r[i][L + 1] = s[i] /\ \A k \in 1 .. L : r[i][k] = r[i - 1][k]
      BY <2>2, <3>1
    <3>3. \A k \in 1 .. L : /\ at[k] \in DOMAIN s \cap (places \cap (1 .. i - 1))
                            /\ r[i - 1][k] = s[at[k]]
                            /\ at[k] \in Nat /\ at[k] < i
      <4>1. \A k \in 1 .. L : at[k] \in DOMAIN s \cap (places \cap (1 .. i - 1)) /\ r[i - 1][k] = s[at[k]]
        BY <2>1, <2>3 DEF Embeds
      <4>2. \A x \in 1 .. i - 1 : x \in Nat /\ x < i
        BY <2>a
      <4> HIDE DEF L
      <4> QED
        BY <4>1, <4>2
    <3>4. \A k, m \in 1 .. L : k < m => at[k] < at[m]
      BY <2>1, <2>3 DEF Embeds
    <3> HIDE DEF L
    <3>5. ASSUME NEW k \in 1 .. L + 1
          PROVE  more[k] \in DOMAIN s \cap (places \cap (1 .. i)) /\ r[i][k] = s[more[k]]
      <4>1. CASE k <= L
        <5>1. k \in 1 .. L /\ more[k] = at[k]
          BY <2>3, <4>1
        <5>2. 1 .. i - 1 \subseteq 1 .. i
          BY <2>a
        <5> QED
          BY <3>2, <3>3, <5>1, <5>2
      <4>2. CASE ~(k <= L)
        <5>1. k = L + 1 /\ more[k] = i /\ i \in 1 .. i
          BY <2>3, <2>a, <4>2
        <5> QED
          BY <2>4, <2>a, <3>2, <5>1
      <4> QED
        BY <4>1, <4>2
    <3>6. ASSUME NEW k \in 1 .. L + 1, NEW m \in 1 .. L + 1, k < m PROVE more[k] < more[m]
      <4>1. k \in 1 .. L /\ more[k] = at[k]
        BY <2>3, <3>6
      <4>2. CASE m <= L
        <5>1. m \in 1 .. L /\ more[m] = at[m]
          BY <2>3, <4>2
        <5> QED
          BY <3>4, <3>6, <4>1, <5>1
      <4>3. CASE ~(m <= L)
        <5>1. more[m] = i
          BY <2>3, <4>3
        <5> QED
          BY <3>3, <4>1, <5>1
      <4> QED
        BY <4>2, <4>3
    <3> HIDE DEF more
    <3>7. Embeds(more, r[i], s, places \cap (1 .. i))
      BY <3>2, <3>5, <3>6 DEF Embeds
    <3> QED
      BY <2>a, <3>7
  <2>5. CASE i \notin places
    <3>1. r[i] = r[i - 1]
      BY <1>a, <2>2, <2>5, ConcatEmptySeq
    <3>2. places \cap (1 .. i) = places \cap (1 .. i - 1)
      BY <2>5, <2>a
    <3> QED
      BY <2>1, <2>a, <3>1, <3>2
  <2> QED
    BY <2>4, <2>5
<1> HIDE DEF S
<1>7. 0 .. n \subseteq S
  BY <1>1, <1>5, <1>6, UpToInduction
<1>8. n \in S
  BY <1>1, <1>7
<1>9. PICK at : Embeds(at, r[n], s, places \cap (1 .. n))
  BY <1>8 DEF S
<1>10. Embeds(at, Picked(s, places), s, places)
  BY <1>3, <1>4, <1>9 DEF Embeds
<1> QED
  BY <1>10

\* Who picks all of a sequence has it again.
LEMMA PickedAll ==
  ASSUME NEW s, IsSequence(s), NEW places, DOMAIN s \subseteq places
  PROVE  Picked(s, places) = s
<1> DEFINE n == Len(s)
           E == ToSet(s)
           ss == [i \in DOMAIN s |-> IF i \in places THEN <<s[i]>> ELSE <<>>]
<1>1. n \in Nat /\ DOMAIN s = 1 .. n /\ s \in Seq(E) /\ s = [k \in 1 .. n |-> s[k]]
  BY DEF IsSequence
<1>2. ss \in [1 .. n -> Seq(E)] /\ \A i \in 1 .. n : ss[i] = <<s[i]>>
  <2>1. \A i \in 1 .. n : s[i] \in E
    BY <1>1
  <2> HIDE DEF E
  <2> QED
    BY <1>1, <2>1
<1>3. FlattenSeq(ss) = Picked(s, places)
  BY DEF Picked
<1> HIDE DEF ss, n, E
<1>4. PICK r \in [0 .. n -> Seq(E)] : Joins(r, ss, n)
  BY <1>1, <1>2, FlattenSteps
<1> DEFINE S == {i \in 0 .. n : r[i] = [k \in 1 .. i |-> s[k]]}
<1>5. 0 \in S
  BY <1>1, <1>4 DEF Joins
<1>6. ASSUME NEW i \in 1 .. n, i - 1 \in S PROVE i \in S
  <2>1. /\ r[i] = r[i - 1] \o <<s[i]>> /\ r[i - 1] \in Seq(E) /\ <<s[i]>> \in Seq(E)
        /\ r[i - 1] = [k \in 1 .. i - 1 |-> s[k]] /\ i \in 0 .. n /\ i - 1 \in 0 .. n
    <3>1. i \in 0 .. n /\ i - 1 \in 0 .. n
      BY <1>1
    <3>2. ss[i] = <<s[i]>> /\ ss[i] \in Seq(E) /\ r[i - 1] \in Seq(E)
      BY <1>2, <1>4, <3>1
    <3>3. r[i] = r[i - 1] \o ss[i]
      BY <1>4 DEF Joins
    <3> QED
      BY <1>6, <3>1, <3>2, <3>3
  <2>2. Len(r[i - 1]) = i - 1 /\ i \in Nat
    BY <1>1, <2>1
  <2>3. DOMAIN r[i] = 1 .. i /\ r[i] \in Seq(E)
    BY <2>1, <2>2
  <2>4. ASSUME NEW k \in 1 .. i PROVE r[i][k] = s[k]
    <3>1. CASE k = i
      BY <2>1, <2>2, <3>1
    <3>2. CASE k # i
      <4>1. k \in 1 .. i - 1
        BY <2>2, <3>2
      <4> QED
        BY <2>1, <2>2, <4>1
    <3> QED
      BY <3>1, <3>2
  <2>5. r[i] = [k \in 1 .. i |-> s[k]]
    BY <2>3, <2>4
  <2> QED
    BY <2>1, <2>5
<1> HIDE DEF S
<1>7. 0 .. n \subseteq S
  BY <1>1, <1>5, <1>6, UpToInduction
<1>8. r[n] = [k \in 1 .. n |-> s[k]]
  <2>1. n \in S
    BY <1>1, <1>7
  <2> QED
    BY <2>1 DEF S
<1> QED
  BY <1>1, <1>3, <1>4, <1>8 DEF Joins
----------------------------------------------------------------------------
(* The same of sequences whose elements are of no set in particular.       *)
LEMMA AnySequence ==
  ASSUME NEW E, NEW s \in Seq(E)
  PROVE  IsSequence(s)
BY DEF IsSequence, ToSet

\* The empty sequence, and those of one element.
LEMMA ShortSequences ==
  /\ IsSequence(<<>>) /\ ToSet(<<>>) = {}
  /\ \A x : IsSequence(<<x>>) /\ ToSet(<<x>>) = {x}
<1>1. \A x : <<x>> \in Seq({x}) /\ ToSet(<<x>>) = {x}
  BY DEF ToSet
<1>2. <<>> \in Seq({}) /\ ToSet(<<>>) = {}
  BY DEF ToSet
<1> QED
  BY <1>1, <1>2 DEF IsSequence

\* A concatenation is one, and holds what its parts hold.
LEMMA ConcatSequence ==
  ASSUME NEW s, NEW t, IsSequence(s), IsSequence(t)
  PROVE  IsSequence(s \o t) /\ ToSet(s \o t) = ToSet(s) \cup ToSet(t)
<1>1. PICK E : E = ToSet(s) \cup ToSet(t)
  OBVIOUS
<1>2. s \in Seq(E) /\ t \in Seq(E)
  BY <1>1 DEF IsSequence
<1>3. ToSet(s \o t) = E /\ s \o t \in Seq(E)
  BY <1>1, <1>2, ConcatElements
<1> QED
  BY <1>1, <1>3 DEF IsSequence

\* What flattening a sequence of sequences yields is one.
LEMMA FlattenedElements ==
  ASSUME NEW n \in Nat, NEW ss, ss = [i \in 1 .. n |-> ss[i]], \A i \in 1 .. n : IsSequence(ss[i])
  PROVE  /\ IsSequence(FlattenSeq(ss))
         /\ ToSet(FlattenSeq(ss)) = UNION {ToSet(ss[i]) : i \in 1 .. n}
<1> DEFINE E == UNION {ToSet(ss[i]) : i \in 1 .. n}
<1>1. ASSUME NEW i \in 1 .. n PROVE ss[i] \in Seq(E)
  <2>1. ss[i] \in Seq(ToSet(ss[i])) /\ ToSet(ss[i]) \subseteq E
    BY DEF IsSequence
  <2> HIDE DEF E
  <2> QED
    BY <2>1
<1> HIDE DEF E
<1>2. ss \in [1 .. n -> Seq(E)]
  BY <1>1
<1>3. /\ FlattenSeq(ss) \in Seq(E)
      /\ ToSet(FlattenSeq(ss)) = UNION {ToSet(ss[i]) : i \in 1 .. n}
  BY <1>2, FlattenElements, ZenonT(40)
<1> QED
  BY <1>3, AnySequence

\* What is picked of a sequence is one.
LEMMA PickedSequence ==
  ASSUME NEW s, IsSequence(s), NEW places
  PROVE  /\ IsSequence(Picked(s, places))
         /\ ToSet(Picked(s, places)) = {s[i] : i \in DOMAIN s \cap places}
<1>1. PICK E : s \in Seq(E)
  BY DEF IsSequence
<1> QED
  BY <1>1, PickedFacts, AnySequence
----------------------------------------------------------------------------
(* Finite sets, and sequences given place by place.                        *)

\* A set of numbers that is not empty has a least element.
LEMMA LeastElement ==
  ASSUME NEW S, S \subseteq Nat, S # {}
  PROVE  \E x \in S : \A y \in S : x <= y
<1>1. PICK x \in S : \A y \in S : ~ (<<y, x>> \in OpToRel(<, Nat))
  BY NatLessThanWellFounded, WFMin
<1>2. \A y \in S : ~(y < x)
  BY <1>1 DEF OpToRel
<1>3. \A y \in S : y \in Nat /\ x \in Nat
  OBVIOUS
<1>4. \A y \in S : x <= y
  BY <1>2, <1>3
<1> QED
  BY <1>4

\* A set of D is in T when it is without any one of its elements.
GrowsFrom(D, T) == \A R \in SUBSET D : (\A x \in R : R \ {x} \in T) => R \in T

(* What holds of a set when it holds of the set without any one of its     *)
(* elements holds of all finite sets.                                      *)
LEMMA SubsetInduction ==
  ASSUME NEW D, IsFiniteSet(D), NEW T, GrowsFrom(D, T)
  PROVE  SUBSET D \subseteq T
<1> DEFINE S == {n \in Nat : \A R \in SUBSET D : Cardinality(R) < n => R \in T}
<1>0. \A R \in SUBSET D : IsFiniteSet(R) /\ Cardinality(R) \in Nat
  BY FS_Subset, FS_CardinalityType
<1>1. 0 \in S
  BY <1>0
<1>2. ASSUME NEW n \in Nat, n \in S PROVE n + 1 \in S
  <2> SUFFICES ASSUME NEW R \in SUBSET D, Cardinality(R) < n + 1 PROVE R \in T
    OBVIOUS
  <2>1. ASSUME NEW x \in R PROVE R \ {x} \in T
    <3>1. Cardinality(R \ {x}) = Cardinality(R) - 1
      BY <1>0, FS_RemoveElement
    <3>2. Cardinality(R \ {x}) < n /\ R \ {x} \in SUBSET D
      BY <1>0, <3>1
    <3> QED
      BY <1>2, <3>2
  <2> QED
    BY <2>1 DEF GrowsFrom
<1> HIDE DEF S
<1>3. Nat \subseteq S
  BY <1>1, <1>2, NatSetInduction
<1>4. ASSUME NEW R \in SUBSET D PROVE R \in T
  <2>1. Cardinality(R) + 1 \in S /\ Cardinality(R) < Cardinality(R) + 1
    BY <1>0, <1>3
  <2> QED
    BY <2>1 DEF S
<1> QED
  BY <1>4

\* A function of the numbers up to n is a sequence.
LEMMA BuiltSequence ==
  ASSUME NEW n \in Nat, NEW s, s = [i \in 1 .. n |-> s[i]]
  PROVE  IsSequence(s) /\ Len(s) = n
<1>1. \A i \in 1 .. n : s[i] \in ToSet(s)
  BY DEF ToSet
<1>2. s \in [1 .. n -> ToSet(s)]
  BY <1>1
<1> QED
  BY <1>2 DEF IsSequence

\* How long a sequence is, and where its places are.
LEMMA LengthOf ==
  ASSUME NEW s, IsSequence(s)
  PROVE  Len(s) \in Nat /\ DOMAIN s = 1 .. Len(s)
BY DEF IsSequence

\* Every place of a concatenation is one of either part.
LEMMA ConcatPlaces ==
  ASSUME NEW E, NEW s \in Seq(E), NEW t \in Seq(E), NEW i \in DOMAIN (s \o t)
  PROVE  /\ i \in Int
         /\ IF i <= Len(s) THEN i \in DOMAIN s /\ (s \o t)[i] = s[i]
            ELSE i - Len(s) \in DOMAIN t /\ (s \o t)[i] = t[i - Len(s)]
<1>1. /\ DOMAIN s = 1 .. Len(s) /\ DOMAIN t = 1 .. Len(t)
      /\ DOMAIN (s \o t) = 1 .. Len(s) + Len(t) /\ Len(s) \in Nat /\ Len(t) \in Nat
  OBVIOUS
<1>2. CASE i <= Len(s)
  BY <1>1, <1>2
<1>3. CASE i > Len(s)
  BY <1>1, <1>3
<1> QED
  BY <1>1, <1>2, <1>3

\* A function of the numbers up to n into a set is a sequence over it.
LEMMA FunctionSequence ==
  ASSUME NEW S, NEW n \in Nat, NEW f \in [1 .. n -> S]
  PROVE  f \in Seq(S) /\ Len(f) = n
OBVIOUS

\* A concatenation is over what its parts are over, as long as both.
LEMMA ConcatIn ==
  ASSUME NEW S, NEW s \in Seq(S), NEW t \in Seq(S)
  PROVE  s \o t \in Seq(S) /\ Len(s \o t) = Len(s) + Len(t)
OBVIOUS

\* The values of a function on a finite set are finitely many.
LEMMA FiniteImage ==
  ASSUME NEW S, IsFiniteSet(S), NEW f, f = [x \in S |-> f[x]]
  PROVE  IsFiniteSet({f[x] : x \in S})
<1> DEFINE T == {f[x] : x \in S}
<1>1. f \in [S -> T]
  OBVIOUS
<1>2. \A t \in T : \E x \in S : f[x] = t
  OBVIOUS
<1>3. f \in Surjection(S, T)
  BY <1>1, <1>2 DEF Surjection
<1> HIDE DEF T
<1>4. IsFiniteSet(T)
  BY <1>3, FS_Surjection
<1> QED
  BY <1>4 DEF T

\* What is made of each place of a sequence is a sequence.
LEMMA OverSequence ==
  ASSUME NEW s, IsSequence(s), NEW t, t = [i \in DOMAIN s |-> t[i]]
  PROVE  IsSequence(t) /\ ToSet(t) = {t[i] : i \in DOMAIN s}
<1>1. PICK n \in Nat : DOMAIN s = 1 .. n
  BY LengthOf
<1>2. t = [i \in 1 .. n |-> t[i]]
  BY <1>1
<1>3. IsSequence(t)
  BY <1>2, BuiltSequence
<1>4. DOMAIN t = DOMAIN s
  OBVIOUS
<1> QED
  BY <1>3, <1>4 DEF ToSet

\* And flattened it is one, if a sequence was made of each place.
LEMMA FlattenOver ==
  ASSUME NEW s, IsSequence(s), NEW t, t = [i \in DOMAIN s |-> t[i]],
         \A i \in DOMAIN s : IsSequence(t[i])
  PROVE  IsSequence(FlattenSeq(t)) /\ ToSet(FlattenSeq(t)) = UNION {ToSet(t[i]) : i \in DOMAIN s}
<1>1. PICK n \in Nat : DOMAIN s = 1 .. n
  BY LengthOf
<1>2. t = [i \in 1 .. n |-> t[i]] /\ \A i \in 1 .. n : IsSequence(t[i])
  BY <1>1
<1>3. IsSequence(FlattenSeq(t)) /\ ToSet(FlattenSeq(t)) = UNION {ToSet(t[i]) : i \in 1 .. n}
  BY <1>2, FlattenedElements
<1> QED
  BY <1>1, <1>3

\* A finite set laid out in some order is a sequence of its elements.
LEMMA NamesInSequence ==
  ASSUME NEW S, IsFiniteSet(S)
  PROVE  IsSequence(SetToSeq(S)) /\ ToSet(SetToSeq(S)) \subseteq S
<1> DEFINE n == Cardinality(S)
           f == SetToSeq(S)
<1>1. n \in Nat
  BY FS_CardinalityType
<1>2. \E g \in [1 .. n -> S] : IsInjective(g)
  <2>1. PICK m \in Nat : ExistsBijection(1 .. m, S)
    BY FS_NatBijection
  <2>2. m = n
    BY <2>1, FS_CountingElements
  <2>3. PICK g : g \in Bijection(1 .. n, S)
    BY <2>1, <2>2 DEF ExistsBijection
  <2> QED
    BY <2>3 DEF Bijection, Injection
<1>3. f \in [1 .. n -> S]
  BY <1>2 DEF SetToSeq
<1> HIDE DEF n, f
<1>4. f \in Seq(S)
  BY <1>1, <1>3, FunctionSequence
<1> QED
  BY <1>1, <1>3, <1>4, AnySequence DEF ToSet, f

\* The greatest of finitely many numbers is one of them.
LEMMA GreatestElement ==
  ASSUME NEW n \in Nat, NEW S \in SUBSET (1 .. n), S # {}
  PROVE  Max(S) \in S /\ \A y \in S : y <= Max(S)
<1> DEFINE T == {n - y : y \in S}
<1>1. T \subseteq Nat /\ T # {}
  <2>1. \A y \in S : n - y \in Nat
    OBVIOUS
  <2> QED
    BY <2>1
<1> HIDE DEF T
<1>2. PICK t \in T : \A u \in T : t <= u
  BY <1>1, LeastElement
<1>3. PICK x \in S : t = n - x
  BY <1>2 DEF T
<1>4. \A y \in S : n - x <= n - y
  BY <1>2, <1>3 DEF T
<1>5. \A y \in S : x >= y /\ y \in Int
  BY <1>4
<1>6. Max(S) \in S /\ \A y \in S : Max(S) >= y
  BY <1>5 DEF Max
<1> QED
  BY <1>6

\* The first of a list and the rest of it.
LEMMA HeadAndTail ==
  ASSUME NEW S, NEW s \in Seq(S), s # <<>>
  PROVE  /\ Head(s) \in ToSet(s) /\ Tail(s) \in Seq(S) /\ Len(Tail(s)) = Len(s) - 1
         /\ ToSet(s) = {Head(s)} \cup ToSet(Tail(s)) /\ s = <<Head(s)>> \o Tail(s)
<1>1. s = <<Head(s)>> \o Tail(s) /\ Tail(s) \in Seq(S) /\ Head(s) \in S /\ Len(Tail(s)) = Len(s) - 1
  OBVIOUS
<1>2. IsSequence(Tail(s)) /\ IsSequence(<<Head(s)>>) /\ ToSet(<<Head(s)>>) = {Head(s)}
  BY <1>1, AnySequence, ShortSequences
<1>3. ToSet(<<Head(s)>> \o Tail(s)) = {Head(s)} \cup ToSet(Tail(s))
  BY <1>2, ConcatSequence
<1> QED
  BY <1>1, <1>3

\* The elements of a sequence are finitely many, and so are those of finitely many sets.
LEMMA FiniteElements ==
  ASSUME NEW s, IsSequence(s)
  PROVE  IsFiniteSet(ToSet(s)) /\ IsFiniteSet(DOMAIN s)
<1>1. PICK n \in Nat : DOMAIN s = 1 .. n /\ s = [i \in 1 .. n |-> s[i]]
  BY LengthOf DEF IsSequence
<1>2. IsFiniteSet(1 .. n)
  <2>1. 1 \in Int /\ n \in Int
    OBVIOUS
  <2> QED
    BY <2>1, FS_Interval
<1>3. IsFiniteSet({s[i] : i \in 1 .. n})
  BY <1>1, <1>2, FiniteImage
<1> QED
  BY <1>1, <1>2, <1>3 DEF ToSet

LEMMA FiniteUnion ==
  ASSUME NEW S, IsFiniteSet(S), NEW f, f = [x \in S |-> f[x]], \A x \in S : IsFiniteSet(f[x])
  PROVE  IsFiniteSet(UNION {f[x] : x \in S})
<1>1. IsFiniteSet({f[x] : x \in S})
  BY FiniteImage
<1>2. \A T \in {f[x] : x \in S} : IsFiniteSet(T)
  OBVIOUS
<1> QED
  BY <1>1, <1>2, FS_UNION

\* Different numbers up to n, as many as there are, are all of them.
Differ(at, n, T) ==
  /\ T \subseteq 1 .. n /\ \A k \in 1 .. n : at[k] \in T
  /\ \A k, m \in 1 .. n : at[k] = at[m] => k = m

Fills(at, n, T) == T = 1 .. n /\ \A x \in T : \E k \in 1 .. n : at[k] = x

LEMMA FillsAll ==
  ASSUME NEW n \in Nat, NEW T, NEW at, Differ(at, n, T)
  PROVE  Fills(at, n, T)
<1> USE DEF Differ
<1> DEFINE f == [k \in 1 .. n |-> at[k]]
           N == 1 .. n
<1>1. IsFiniteSet(N) /\ IsFiniteSet(T) /\ Cardinality(T) <= Cardinality(N)
      /\ (Cardinality(N) = Cardinality(T) => N = T)
  <2>1. IsFiniteSet(N)
    BY FS_Interval
  <2> HIDE DEF N
  <2>2. T \in SUBSET N
    BY DEF N
  <2> QED
    BY <2>1, <2>2, FS_Subset
<1>2. f \in Injection(N, T)
  BY DEF Injection, IsInjective
<1>3. \A x \in T : f \in Surjection(N, T) => \E k \in N : f[k] = x
  BY DEF Surjection
<1>4. \A k \in N : f[k] = at[k]
  OBVIOUS
<1> HIDE DEF f
<1>5. /\ Cardinality(N) <= Cardinality(T)
      /\ Cardinality(N) = Cardinality(T) <=> f \in Surjection(N, T)
  <2> HIDE DEF N
  <2> QED
    BY <1>1, <1>2, FS_Injection
<1>6. Cardinality(N) = Cardinality(T)
  <2> HIDE DEF N
  <2>1. Cardinality(N) \in Nat /\ Cardinality(T) \in Nat
    BY <1>1, FS_CardinalityType
  <2> QED
    BY <1>1, <1>5, <2>1
<1> QED
  BY <1>1, <1>3, <1>4, <1>5, <1>6 DEF Fills

\* Where as many are left as there were, all were picked.
LEMMA PickedWhole ==
  ASSUME NEW s, IsSequence(s), NEW places, Len(Picked(s, places)) = Len(s)
  PROVE  DOMAIN s \subseteq places
<1> DEFINE n == Len(s)
           T == DOMAIN s \cap places
<1>1. PICK at : Embeds(at, Picked(s, places), s, places)
  BY PickedEmbeds DEF IsSequence
<1>2. n \in Nat /\ DOMAIN s = 1 .. n /\ DOMAIN Picked(s, places) = 1 .. n
  <2>1. IsSequence(Picked(s, places))
    BY PickedSequence
  <2> QED
    BY <2>1 DEF IsSequence
<1> HIDE DEF n
<1>3. \A k \in 1 .. n : at[k] \in T /\ at[k] \in Nat
  BY <1>1, <1>2 DEF Embeds
<1>4. \A k, m \in 1 .. n : at[k] = at[m] => k = m
  <2> SUFFICES ASSUME NEW k \in 1 .. n, NEW m \in 1 .. n, at[k] = at[m] PROVE k = m
    OBVIOUS
  <2>1. ~(k < m) /\ ~(m < k)
    BY <1>1, <1>2, <1>3 DEF Embeds
  <2> QED
    BY <1>2, <2>1
<1>5. T \subseteq 1 .. n
  BY <1>2
<1> HIDE DEF T
<1>6. T = 1 .. n
  <2>1. Differ(at, n, T)
    BY <1>3, <1>4, <1>5 DEF Differ
  <2>2. Fills(at, n, T)
    BY <1>2, <2>1, FillsAll
  <2> QED
    BY <2>2 DEF Fills
<1> QED
  BY <1>2, <1>6 DEF T
==============================================================================
