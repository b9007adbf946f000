---------------------------- MODULE Lists_proofs ----------------------------
(***************************************************************************)
(* Induction over the naturals, and what it says of the lists of module    *)
(* Lists, for the proofs of the components that keep some.                 *)
(***************************************************************************)
EXTENDS Lists, SequencesExt, SequenceTheorems, FiniteSetTheorems, WellFoundedInduction, TLAPS

\* The order of the naturals is a well-founded relation; as a set of pairs, since
\* an operator cannot be handed to a lemma.
LEMMA LessWellFounded ==
    \E R : /\ IsWellFoundedOn(R, Nat)
           /\ \A a, b \in Nat : <<a, b>> \in R <=> a < b
<1>1. \A a, b \in Nat : <<a, b>> \in OpToRel(<, Nat) <=> a < b
  BY Zenon DEF OpToRel
<1> QED  BY <1>1, NatLessThanWellFounded, Zenon

\* A set of naturals that is not empty has a least member.
LEMMA LeastNumber ==
    ASSUME NEW T, T \subseteq Nat, T # {}
    PROVE  \E m \in T : \A n \in T : m <= n
<1>1. PICK R : /\ IsWellFoundedOn(R, Nat)
               /\ \A a, b \in Nat : <<a, b>> \in R <=> a < b
  BY LessWellFounded, Zenon
<1>2. PICK m \in T : \A n \in T : <<n, m>> \notin R
  <2>1. IsWellFoundedOn(R, Nat)  BY <1>1
  <2> QED  BY <2>1, WFMin
<1>3. ASSUME NEW n \in T PROVE m <= n
  <2>1. n \in Nat /\ m \in Nat  OBVIOUS
  <2>2. ~ (n < m)  BY <2>1, <1>1, <1>2
  <2> QED  BY <2>1, <2>2
<1> QED  BY <1>3

\* Induction over the naturals, for a property given as the set of the numbers
\* that have it: what the lemmas about lists rest on.
LEMMA NaturalsBySteps ==
    ASSUME NEW T, 0 \in T, \A n \in Nat : n \in T => n + 1 \in T
    PROVE  Nat \subseteq T
<1> SUFFICES ASSUME Nat \ T # {} PROVE FALSE  OBVIOUS
<1>1. PICK m \in Nat \ T : \A n \in Nat \ T : m <= n  BY LeastNumber
<1>2. m # 0 /\ m - 1 \in Nat /\ m - 1 < m  BY <1>1
<1>3. m - 1 \in T  BY <1>1, <1>2
<1> QED  BY <1>1, <1>2, <1>3

-----------------------------------------------------------------------------
\* Append adds one member (what the lists of sessions, hits and names grow by).
LEMMA ToSetOfAppend ==
    ASSUME NEW S, NEW l \in Seq(S), NEW e \in S
    PROVE  ToSet(Append(l, e)) = ToSet(l) \cup {e}
<1> DEFINE m == Append(l, e)
<1>1. /\ m \in Seq(S) /\ Len(m) = Len(l) + 1
      /\ \A i \in 1 .. Len(l) : m[i] = l[i]
      /\ m[Len(l) + 1] = e
  BY AppendProperties
<1>2. DOMAIN m = 1 .. Len(l) + 1 /\ DOMAIN l = 1 .. Len(l) /\ Len(l) \in Nat
  BY <1>1, LenProperties
<1>3. 1 .. Len(l) + 1 = (1 .. Len(l)) \cup {Len(l) + 1}  BY <1>2
<1> HIDE DEF m
<1> QED  BY <1>1, <1>2, <1>3 DEF ToSet

\* The head of a list is one of its members.
LEMMA HeadIsMember ==
    ASSUME NEW S, NEW l \in Seq(S), l # <<>>
    PROVE  Head(l) \in ToSet(l)
<1>1. DOMAIN l = 1 .. Len(l) /\ Len(l) \in Nat \ {0}  BY LenProperties, EmptySeq
<1>2. Head(l) = l[1] BY HeadTailProperties
<1> QED  BY <1>1, <1>2 DEF ToSet

\* One step of the recursion of Omit, on the function g it defines.
KeptStep(g, l, gone, n) ==
    IF n = 0 THEN <<>> ELSE IF l[n] \in gone THEN g[n - 1] ELSE Append(g[n - 1], l[n])

\* The recursive function of Omit exists, for a list of any length.
LEMMA KeptExists ==
    ASSUME NEW l, NEW gone, NEW m \in Nat
    PROVE  \E g : g = [n \in 0 .. m |-> KeptStep(g, l, gone, n)]
<1> DEFINE T == {k \in Nat : \E g : g = [n \in 0 .. k |-> KeptStep(g, l, gone, n)]}
<1>1. 0 \in T
  <2> DEFINE g == [n \in 0 .. 0 |-> <<>>]
  <2>1. g = [n \in 0 .. 0 |-> KeptStep(g, l, gone, n)]  BY DEF KeptStep
  <2> QED  BY <2>1
<1>2. ASSUME NEW k \in Nat, k \in T PROVE k + 1 \in T
  <2>1. PICK g : g = [n \in 0 .. k |-> KeptStep(g, l, gone, n)]  BY <1>2
  <2> DEFINE h == [n \in 0 .. k + 1 |-> KeptStep(g, l, gone, n)]
  <2>2. \A n \in 0 .. k : h[n] = g[n]  BY <2>1
  <2>5. h = [n \in 0 .. k + 1 |-> KeptStep(g, l, gone, n)]  OBVIOUS
  <2> HIDE DEF h
  <2>3. \A n \in 0 .. k + 1 : KeptStep(h, l, gone, n) = KeptStep(g, l, gone, n)
    <3> SUFFICES ASSUME NEW n \in 0 .. k + 1, n # 0
                 PROVE  h[n - 1] = g[n - 1]
      BY DEF KeptStep
    <3>1. n - 1 \in 0 .. k  OBVIOUS
    <3> QED  BY <3>1, <2>2
  <2>4. h = [n \in 0 .. k + 1 |-> KeptStep(h, l, gone, n)]  BY <2>3, <2>5
  <2> QED  BY <2>4
<1> HIDE DEF T
<1>3. m \in T  BY <1>1, <1>2, NaturalsBySteps
<1> QED  BY <1>3 DEF T

\* Omit, by the steps of its recursion.
LEMMA OmitSteps ==
    ASSUME NEW S, NEW l \in Seq(S), NEW gone
    PROVE  \E kept : /\ kept = [n \in 0 .. Len(l) |-> KeptStep(kept, l, gone, n)]
                     /\ Omit(l, gone) = kept[Len(l)]
<1> DEFINE kept == CHOOSE g : g = [n \in 0 .. Len(l) |-> KeptStep(g, l, gone, n)]
<1>1. kept = [n \in 0 .. Len(l) |-> KeptStep(kept, l, gone, n)]
  BY KeptExists, LenProperties
<1>2. Omit(l, gone) = kept[Len(l)]
  BY DEF Omit, KeptStep
<1> HIDE DEF kept
<1> QED  BY <1>1, <1>2

\* Omit keeps exactly the members that are not in gone, in a list no longer than
\* before, and a shorter one when there was something to take out.
LEMMA OmitProperties ==
    ASSUME NEW S, NEW l \in Seq(S), NEW gone
    PROVE  /\ Omit(l, gone) \in Seq(S)
           /\ ToSet(Omit(l, gone)) = ToSet(l) \ gone
           /\ Len(Omit(l, gone)) <= Len(l)
           /\ ToSet(l) \cap gone # {} => Len(Omit(l, gone)) < Len(l)
<1>1. Len(l) \in Nat /\ DOMAIN l = 1 .. Len(l) /\ l \in [1 .. Len(l) -> S]  BY LenProperties
<1>0. PICK kept : /\ kept = [n \in 0 .. Len(l) |-> KeptStep(kept, l, gone, n)]
                /\ Omit(l, gone) = kept[Len(l)]
  BY OmitSteps
<1>2. kept = [n \in 0 .. Len(l) |-> KeptStep(kept, l, gone, n)]  BY <1>0
<1>3. Omit(l, gone) = kept[Len(l)]  BY <1>0
<1> DEFINE Up(n) == {l[i] : i \in 1 .. n}
           Right(n) == /\ kept[n] \in Seq(S) /\ ToSet(kept[n]) = Up(n) \ gone
                       /\ Len(kept[n]) <= n
                       /\ Up(n) \cap gone # {} => Len(kept[n]) < n
           T == {n \in Nat : n <= Len(l) => Right(n)}
<1>4. Right(0)
  <2>1. kept[0] = <<>>  BY <1>1, <1>2 DEF KeptStep
  <2>2. ToSet(<<>>) = {} /\ <<>> \in Seq(S) /\ Len(<<>>) = 0 BY DEF ToSet
  <2>3. Up(0) = {} OBVIOUS
  <2> HIDE DEF Up
  <2> QED  BY <2>1, <2>2, <2>3
<1>5. ASSUME NEW n \in Nat, n \in T, n + 1 <= Len(l) PROVE Right(n + 1)
  <2>1. Right(n)  BY <1>1, <1>5
  <2>2. n + 1 \in 1 .. Len(l) /\ l[n + 1] \in S  BY <1>1, <1>5
  <2>3. Up(n + 1) = Up(n) \cup {l[n + 1]}
    <3>1. 1 .. n + 1 = (1 .. n) \cup {n + 1} OBVIOUS
    <3> QED BY <3>1
  <2>4. kept[n + 1] = IF l[n + 1] \in gone THEN kept[n] ELSE Append(kept[n], l[n + 1])
    <3>1. n + 1 \in 0 .. Len(l) /\ n + 1 # 0 /\ (n + 1) - 1 = n  BY <1>1, <1>5
    <3> QED BY <3>1, <1>2 DEF KeptStep
  <2>5. Len(kept[n]) \in Nat BY <2>1, LenProperties
  <2> HIDE DEF Up
  <2>6. CASE l[n + 1] \in gone
    BY <2>1, <2>3, <2>4, <2>5, <2>6
  <2>7. CASE l[n + 1] \notin gone
    <3>1. /\ kept[n + 1] \in Seq(S) /\ Len(kept[n + 1]) = Len(kept[n]) + 1
      BY <2>1, <2>2, <2>4, <2>7, AppendProperties
    <3>2. ToSet(kept[n + 1]) = ToSet(kept[n]) \cup {l[n + 1]}
      BY <2>1, <2>2, <2>4, <2>7, ToSetOfAppend
    <3> QED  BY <2>1, <2>3, <2>5, <2>7, <3>1, <3>2
  <2> QED  BY <2>6, <2>7
<1>6. Len(l) \in T
  <2>2. 0 \in T  BY <1>1, <1>4
  <2>1. \A n \in Nat : n \in T => n + 1 \in T
    <3> HIDE DEF Right
    <3> QED BY <1>5
  <2> HIDE DEF T
  <2> QED  BY <1>1, <2>1, <2>2, NaturalsBySteps
<1>7. Right(Len(l))  BY <1>1, <1>6
<1>8. Up(Len(l)) = ToSet(l)  BY <1>1 DEF ToSet
<1> HIDE DEF Up
<1> QED  BY <1>3, <1>7, <1>8

\* Nothing is left of an empty list.
LEMMA OmitEmpty == \A gone : Omit(<<>>, gone) = <<>>
<1> SUFFICES ASSUME NEW gone PROVE Omit(<<>>, gone) = <<>>  OBVIOUS
<1>1. <<>> \in Seq({}) /\ Len(<<>>) = 0  OBVIOUS
<1>2. PICK none : /\ none = [n \in 0 .. Len(<<>>) |-> KeptStep(none, <<>>, gone, n)]
                  /\ Omit(<<>>, gone) = none[Len(<<>>)]
  BY <1>1, OmitSteps
<1> QED  BY <1>1, <1>2 DEF KeptStep

\* What Omit does to a list that has grown by one.
LEMMA OmitAppend ==
    ASSUME NEW S, NEW l \in Seq(S), NEW e \in S, NEW gone
    PROVE  Omit(Append(l, e), gone) = IF e \in gone THEN Omit(l, gone) ELSE Append(Omit(l, gone), e)
<1> DEFINE m == Append(l, e)
<1>1. /\ Len(l) \in Nat /\ m \in Seq(S) /\ Len(m) = Len(l) + 1 /\ m[Len(l) + 1] = e
      /\ \A i \in 1 .. Len(l) : m[i] = l[i]
  BY LenProperties, AppendProperties
<1> HIDE DEF m
<1>2. PICK few : /\ few = [n \in 0 .. Len(l) |-> KeptStep(few, l, gone, n)]
                 /\ Omit(l, gone) = few[Len(l)]
  BY OmitSteps
<1>3. PICK more : /\ more = [n \in 0 .. Len(m) |-> KeptStep(more, m, gone, n)]
                  /\ Omit(m, gone) = more[Len(m)]
  BY <1>1, OmitSteps
<1> DEFINE Same == {n \in Nat : n <= Len(l) => more[n] = few[n]}
<1>4. 0 \in Same
  BY <1>1, <1>2, <1>3 DEF KeptStep
<1>5. ASSUME NEW n \in Nat, n \in Same PROVE n + 1 \in Same
  <2> SUFFICES ASSUME n + 1 <= Len(l) PROVE more[n + 1] = few[n + 1]  OBVIOUS
  <2>1. /\ more[n] = few[n] /\ m[n + 1] = l[n + 1]
        /\ n + 1 \in 0 .. Len(l) /\ n + 1 \in 0 .. Len(m) /\ n + 1 # 0 /\ (n + 1) - 1 = n
    BY <1>1, <1>5
  <2>2. few[n + 1] = KeptStep(few, l, gone, n + 1)  BY <1>2, <2>1
  <2>3. more[n + 1] = KeptStep(more, m, gone, n + 1)  BY <1>3, <2>1
  <2> QED  BY <2>1, <2>2, <2>3 DEF KeptStep
<1> HIDE DEF Same
<1>6. Len(l) \in Same  BY <1>1, <1>4, <1>5, NaturalsBySteps
<1>7. more[Len(l)] = few[Len(l)]  BY <1>1, <1>6 DEF Same
<1>8. /\ Len(m) \in 0 .. Len(m) /\ Len(m) # 0 /\ Len(m) - 1 = Len(l)  BY <1>1
<1>9. more[Len(m)] = KeptStep(more, m, gone, Len(m))  BY <1>3, <1>8
<1>10. Omit(m, gone) = IF e \in gone THEN Omit(l, gone) ELSE Append(Omit(l, gone), e)
  BY <1>1, <1>2, <1>3, <1>7, <1>8, <1>9 DEF KeptStep
<1> QED  BY <1>10 DEF m

-----------------------------------------------------------------------------
\* How many members of a list are in T.
Count(l, T) == Cardinality({i \in DOMAIN l : l[i] \in T})

\* A list counts no more members than it has, all of them where all are in T.
LEMMA CountBound ==
    ASSUME NEW S, NEW l \in Seq(S), NEW T
    PROVE  /\ Count(l, T) \in Nat /\ Count(l, T) <= Len(l)
           /\ ToSet(l) \subseteq T => Count(l, T) = Len(l)
<1>1. DOMAIN l = 1 .. Len(l) /\ Len(l) \in Nat  BY LenProperties
<1>2. IsFiniteSet(1 .. Len(l)) /\ Cardinality(1 .. Len(l)) = Len(l)
  <2>1. ASSUME NEW n \in Nat PROVE IsFiniteSet(1 .. n) /\ Cardinality(1 .. n) = n
    <3>1. IsFiniteSet(1 .. n) /\ Cardinality(1 .. n) = IF 1 > n THEN 0 ELSE n - 1 + 1  BY FS_Interval
    <3>2. (IF 1 > n THEN 0 ELSE n - 1 + 1) = n  OBVIOUS
    <3> QED  BY <3>1, <3>2
  <2> QED  BY <1>1, <2>1
<1>3. {i \in DOMAIN l : l[i] \in T} \subseteq 1 .. Len(l)  BY <1>1
<1>4. ToSet(l) \subseteq T => {i \in DOMAIN l : l[i] \in T} = 1 .. Len(l)  BY <1>1 DEF ToSet
<1> QED  BY <1>2, <1>3, <1>4, FS_Subset, FS_CardinalityType DEF Count

\* An empty list counts nothing.
LEMMA CountEmpty == \A T : Count(<<>>, T) = 0
<1> SUFFICES ASSUME NEW T PROVE Count(<<>>, T) = 0  OBVIOUS
<1>1. {i \in DOMAIN <<>> : <<>>[i] \in T} = {}  OBVIOUS
<1> QED  BY <1>1, FS_EmptySet DEF Count

\* Append counts one more member if it is in T.
LEMMA CountAppend ==
    ASSUME NEW S, NEW l \in Seq(S), NEW e \in S, NEW T
    PROVE  Count(Append(l, e), T) = Count(l, T) + (IF e \in T THEN 1 ELSE 0)
<1> DEFINE m == Append(l, e)
           A(k) == {i \in DOMAIN k : k[i] \in T}
<1>1. DOMAIN l = 1 .. Len(l) /\ Len(l) \in Nat  BY LenProperties
<1>2. /\ DOMAIN m = 1 .. Len(l) + 1 /\ m[Len(l) + 1] = e
      /\ \A i \in 1 .. Len(l) : m[i] = l[i]
  BY AppendProperties, LenProperties
<1> HIDE DEF m
<1>3. IsFiniteSet(A(l)) /\ Len(l) + 1 \notin A(l)
  <2>1. IsFiniteSet(1 .. Len(l)) /\ A(l) \subseteq 1 .. Len(l)  BY <1>1, FS_Interval
  <2>2. IsFiniteSet(A(l))  BY <2>1, FS_Subset
  <2> QED  BY <1>1, <2>2
<1>4. A(m) = IF e \in T THEN A(l) \cup {Len(l) + 1} ELSE A(l)
  <2>1. 1 .. Len(l) + 1 = (1 .. Len(l)) \cup {Len(l) + 1}  BY <1>1
  <2> QED  BY <1>1, <1>2, <2>1
<1>5. Count(m, T) = Cardinality(A(m)) /\ Count(l, T) = Cardinality(A(l))
  BY DEF Count
<1> HIDE DEF A
<1>6. Count(l, T) \in Nat  BY <1>3, <1>5, FS_CardinalityType
<1>7. CASE e \in T
  <2>1. Cardinality(A(m)) = Cardinality(A(l)) + 1  BY <1>3, <1>4, <1>7, FS_AddElement
  <2> QED  BY <1>5, <1>7, <2>1 DEF m
<1>8. CASE e \notin T
  BY <1>4, <1>5, <1>6, <1>8 DEF m
<1> QED  BY <1>7, <1>8

\* What Omit does not take out it counts as before.
LEMMA CountOmit ==
    ASSUME NEW S, NEW l \in Seq(S), NEW gone, NEW T, gone \cap T = {}
    PROVE  Count(Omit(l, gone), T) = Count(l, T)
<1>1. Len(l) \in Nat /\ DOMAIN l = 1 .. Len(l) /\ l \in [1 .. Len(l) -> S]  BY LenProperties
<1>0. PICK kept : /\ kept = [n \in 0 .. Len(l) |-> KeptStep(kept, l, gone, n)]
                /\ Omit(l, gone) = kept[Len(l)]
  BY OmitSteps
<1>2. kept = [n \in 0 .. Len(l) |-> KeptStep(kept, l, gone, n)]  BY <1>0
<1> DEFINE Up(n) == {i \in 1 .. n : l[i] \in T}
           Right(n) == kept[n] \in Seq(S) /\ Count(kept[n], T) = Cardinality(Up(n))
           Good == {n \in Nat : n <= Len(l) => Right(n)}
<1>3. Right(0)
  <2>1. kept[0] = <<>>  BY <1>1, <1>2 DEF KeptStep
  <2>2. Up(0) = {}  OBVIOUS
  <2>3. Count(<<>>, T) = 0 /\ <<>> \in Seq(S)  BY CountEmpty
  <2> HIDE DEF Up
  <2> QED  BY <2>1, <2>2, <2>3, FS_EmptySet
<1>4. ASSUME NEW n \in Nat, n \in Good, n + 1 <= Len(l) PROVE Right(n + 1)
  <2>1. Right(n)  BY <1>1, <1>4
  <2>2. n + 1 \in 1 .. Len(l) /\ l[n + 1] \in S  BY <1>1, <1>4
  <2>3. Up(n + 1) = IF l[n + 1] \in T THEN Up(n) \cup {n + 1} ELSE Up(n)
    <3>1. 1 .. n + 1 = (1 .. n) \cup {n + 1} OBVIOUS
    <3> QED BY <3>1
  <2>4. kept[n + 1] = IF l[n + 1] \in gone THEN kept[n] ELSE Append(kept[n], l[n + 1])
    <3>1. n + 1 \in 0 .. Len(l) /\ n + 1 # 0 /\ (n + 1) - 1 = n  BY <1>1, <1>4
    <3> QED BY <3>1, <1>2 DEF KeptStep
  <2>5. IsFiniteSet(Up(n)) /\ n + 1 \notin Up(n)
    <3>1. IsFiniteSet(1 .. n) /\ Up(n) \subseteq 1 .. n  BY FS_Interval
    <3>2. IsFiniteSet(Up(n))  BY <3>1, FS_Subset
    <3> QED  BY <3>2
  <2> HIDE DEF Up
  <2>6. Cardinality(Up(n + 1)) = Cardinality(Up(n)) + (IF l[n + 1] \in T THEN 1 ELSE 0)
    BY <2>3, <2>5, FS_AddElement, FS_CardinalityType
  <2>7. CASE l[n + 1] \in gone
    BY <2>1, <2>4, <2>5, <2>6, <2>7, FS_CardinalityType
  <2>8. CASE l[n + 1] \notin gone
    <3>1. kept[n + 1] \in Seq(S)  BY <2>1, <2>2, <2>4, <2>8, AppendProperties
    <3>2. Count(kept[n + 1], T) = Count(kept[n], T) + (IF l[n + 1] \in T THEN 1 ELSE 0)
      BY <2>1, <2>2, <2>4, <2>8, CountAppend
    <3> QED  BY <2>1, <2>6, <3>1, <3>2
  <2> QED  BY <2>7, <2>8
<1>5. Len(l) \in Good
  <2>1. \A n \in Nat : n \in Good => n + 1 \in Good
    <3> HIDE DEF Right
    <3> QED BY <1>4
  <2>2. 0 \in Good  BY <1>1, <1>3
  <2> HIDE DEF Good
  <2> QED  BY <1>1, <2>1, <2>2, NaturalsBySteps
<1> QED  BY <1>0, <1>1, <1>5 DEF Count

\* Omit leaves a list alone that has none of the members to take out.
LEMMA OmitNothing ==
    ASSUME NEW S, NEW l \in Seq(S), NEW gone, ToSet(l) \cap gone = {}
    PROVE  Omit(l, gone) = l
<1>1. Len(l) \in Nat /\ DOMAIN l = 1 .. Len(l) /\ l \in [1 .. Len(l) -> S]  BY LenProperties
<1>0. PICK kept : /\ kept = [n \in 0 .. Len(l) |-> KeptStep(kept, l, gone, n)]
                  /\ Omit(l, gone) = kept[Len(l)]
  BY OmitSteps
<1>2. kept = [n \in 0 .. Len(l) |-> KeptStep(kept, l, gone, n)]  BY <1>0
<1> DEFINE Right(n) == /\ kept[n] \in Seq(S) /\ Len(kept[n]) = n
                       /\ \A i \in 1 .. n : kept[n][i] = l[i]
           Good == {n \in Nat : n <= Len(l) => Right(n)}
<1>3. Right(0)
  <2>1. kept[0] = <<>>  BY <1>1, <1>2 DEF KeptStep
  <2> QED  BY <2>1
<1>4. ASSUME NEW n \in Nat, n \in Good, n + 1 <= Len(l) PROVE Right(n + 1)
  <2>1. Right(n)  BY <1>1, <1>4
  <2>2. n + 1 \in 1 .. Len(l) /\ l[n + 1] \in S /\ l[n + 1] \notin gone  BY <1>1, <1>4 DEF ToSet
  <2>3. kept[n + 1] = Append(kept[n], l[n + 1])
    <3>1. n + 1 \in 0 .. Len(l) /\ n + 1 # 0 /\ (n + 1) - 1 = n  BY <1>1, <1>4
    <3> QED BY <2>2, <3>1, <1>2 DEF KeptStep
  <2>4. /\ kept[n + 1] \in Seq(S) /\ Len(kept[n + 1]) = n + 1
        /\ \A i \in 1 .. n : kept[n + 1][i] = kept[n][i]
        /\ kept[n + 1][n + 1] = l[n + 1]
    BY <2>1, <2>2, <2>3, AppendProperties
  <2>5. \A i \in 1 .. n + 1 : i \in 1 .. n \/ i = n + 1  OBVIOUS
  <2> QED  BY <2>1, <2>4, <2>5
<1>5. Len(l) \in Good
  <2>1. \A n \in Nat : n \in Good => n + 1 \in Good
    <3> HIDE DEF Right
    <3> QED BY <1>4
  <2>2. 0 \in Good  BY <1>1, <1>3
  <2> HIDE DEF Good
  <2> QED  BY <1>1, <2>1, <2>2, NaturalsBySteps
<1>6. Right(Len(l))  BY <1>1, <1>5
<1> HIDE DEF Good
<1> QED  BY <1>0, <1>1, <1>6, SeqEqual

\* SetToSeq lists the members of a finite set, each once.
LEMMA SetToSeqProperties ==
    ASSUME NEW S, IsFiniteSet(S)
    PROVE  /\ SetToSeq(S) \in Seq(S) /\ Len(SetToSeq(S)) = Cardinality(S)
           /\ ToSet(SetToSeq(S)) = S
           /\ \A i, j \in 1 .. Cardinality(S) : SetToSeq(S)[i] = SetToSeq(S)[j] => i = j
<1> DEFINE many == Cardinality(S)
           list == SetToSeq(S)
<1>1. many \in Nat /\ ExistsBijection(1 .. many, S)  BY FS_CardinalityType
<1>2. \E f \in [1 .. many -> S] : IsInjective(f)
  BY <1>1 DEF ExistsBijection, Bijection, Injection
<1>3. list \in [1 .. many -> S] /\ IsInjective(list)  BY <1>2 DEF SetToSeq
<1>4. list \in Injection(1 .. many, S)  BY <1>3 DEF Injection
<1>5. list \in Surjection(1 .. many, S)
  <2>1. IsFiniteSet(1 .. many) /\ Cardinality(1 .. many) = many  BY <1>1, FS_Interval
  <2> HIDE DEF list
  <2> QED  BY <1>4, <2>1, FS_Injection
<1> HIDE DEF list, many
<1>6. list \in Seq(S) /\ Len(list) = many  BY <1>1, <1>3
<1>7. ToSet(list) = S  BY <1>3, <1>5 DEF Surjection, ToSet
<1>8. \A i, j \in 1 .. many : list[i] = list[j] => i = j  BY <1>3 DEF IsInjective
<1> QED  BY <1>6, <1>7, <1>8 DEF list, many
\* A list that names nothing twice does not when some of it is left out.
LEMMA OmitDistinct ==
    ASSUME NEW S, NEW l \in Seq(S), NEW gone, \A i, j \in 1 .. Len(l) : i # j => l[i] # l[j]
    PROVE  \A i, j \in 1 .. Len(Omit(l, gone)) : i # j => Omit(l, gone)[i] # Omit(l, gone)[j]
<1> DEFINE m == Omit(l, gone)
<1>1. m \in Seq(S) /\ ToSet(m) = ToSet(l) \ gone  BY OmitProperties
<1>2. /\ Len(l) \in Nat /\ DOMAIN l = 1 .. Len(l) /\ Len(m) \in Nat /\ DOMAIN m = 1 .. Len(m)
  BY <1>1, LenProperties
<1> HIDE DEF m
<1> SUFFICES ASSUME NEW i \in 1 .. Len(m), NEW j \in 1 .. Len(m), i # j, m[i] = m[j] PROVE FALSE
  BY DEF m
<1> DEFINE x == m[i]
           A == {k \in DOMAIN m : m[k] \in {x}}
           B == {k \in DOMAIN l : l[k] \in {x}}
<1>3. x \in ToSet(m)  BY <1>2 DEF ToSet
<1>4. Count(m, {x}) = Count(l, {x})
  <2>1. gone \cap {x} = {}  BY <1>1, <1>3
  <2> QED  BY <2>1, CountOmit DEF m
<1>5. Cardinality(A) = Cardinality(B)  BY <1>4 DEF Count
<1>6. PICK k \in 1 .. Len(l) : l[k] = x  BY <1>1, <1>2, <1>3 DEF ToSet
<1>7. B = {k}  BY <1>2, <1>6
<1>8. Cardinality(B) = 1  BY <1>7, FS_Singleton
<1>9. {i, j} \subseteq A  BY <1>2
<1>10. IsFiniteSet(A)
  <2>1. IsFiniteSet(1 .. Len(m))  BY <1>2, FS_Interval
  <2>2. A \subseteq 1 .. Len(m)  BY <1>2
  <2> QED  BY <2>1, <2>2, FS_Subset
<1>11. Cardinality({i, j}) = 2
  <2>1. IsFiniteSet({i}) /\ Cardinality({i}) = 1  BY FS_Singleton
  <2>2. j \notin {i}  OBVIOUS
  <2>3. Cardinality({i} \cup {j}) = Cardinality({i}) + 1  BY <2>1, <2>2, FS_AddElement
  <2>4. {i} \cup {j} = {i, j}  OBVIOUS
  <2>5. Cardinality({i, j}) = Cardinality({i}) + 1  BY <2>3, <2>4, Zenon
  <2> QED  BY <2>1, <2>5
<1>12. Cardinality({i, j}) <= Cardinality(A)  BY <1>9, <1>10, FS_Subset
<1> QED  BY <1>5, <1>8, <1>11, <1>12
=============================================================================
