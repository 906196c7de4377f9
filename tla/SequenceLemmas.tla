--------------------------- MODULE SequenceLemmas ---------------------------
(***************************************************************************)
(* Facts about naturals and sequences that the proofs of several modules   *)
(* need.                                                                   *)
(*                                                                         *)
(* The library states induction with an operator for the property, which   *)
(* cannot be instantiated here.  LeastNatural takes its place: a property  *)
(* that fails somewhere has a least number for which it fails.  What the   *)
(* operators of the community modules compute by recursion is reached in   *)
(* this way, too: FlattenSeq, whose function is shown to exist first.      *)
(***************************************************************************)
EXTENDS SequencesExt, SequenceTheorems, FiniteSetTheorems, WellFoundedInduction, TLAPS

\* The order of the naturals, as the relation that the library speaks of.
LessThan == {p \in Nat \X Nat : p[1] < p[2]}

\* A set of naturals that is not empty has a least element.
LEMMA LeastNatural ==
  ASSUME NEW T \in SUBSET Nat, T # {}
  PROVE  \E m \in T : \A k \in T : m <= k
<1>1. OpToRel(<, Nat) = LessThan
  BY Zenon DEF OpToRel, LessThan
<1>2. IsWellFoundedOn(LessThan, Nat)
  BY NatLessThanWellFounded, <1>1, Zenon
<1>3. PICK m \in T : \A k \in T : ~(<<k, m>> \in LessThan)
  BY <1>2, WFMin, Zenon
<1>4. ASSUME NEW k \in T PROVE m <= k
  <2>1. <<k, m>> \notin LessThan
    BY <1>3, Zenon
  <2>2. k \in Nat /\ m \in Nat
    BY Zenon
  <2>3. k < m => <<k, m>> \in LessThan
    BY <2>2, SMT DEF LessThan
  <2> QED BY <2>1, <2>2, <2>3, SMT
<1> QED BY <1>4

\* Induction, with a set in place of the property: the library states it with an
\* operator.
LEMMA Induction ==
  ASSUME NEW T \in SUBSET Nat, 0 \in T, \A k \in T : k + 1 \in T
  PROVE  T = Nat
<1> DEFINE R == Nat \ T
<1>1. ASSUME R # {} PROVE FALSE
  <2>1. PICK m \in R : \A k \in R : m <= k
    BY <1>1, LeastNatural, Zenon
  <2>2. m \in Nat /\ m # 0 /\ m \notin T
    BY Zenon
  <2>3. m - 1 \in Nat /\ ~(m <= m - 1) /\ (m - 1) + 1 = m
    BY <2>2, SMT
  <2>4. m - 1 \in T
    BY <2>1, <2>3, Zenon
  <2> QED BY <2>2, <2>3, <2>4, Zenon
<1> QED BY <1>1, Zenon

\* Of naturals up to a bound there is a greatest, which is Max.
LEMMA GreatestNatural ==
  ASSUME NEW n \in Nat, NEW T \in SUBSET (0..n), T # {}
  PROVE  Max(T) \in T /\ \A k \in T : Max(T) >= k
<1> DEFINE R == {n - k : k \in T}
<1>1. R \in SUBSET Nat /\ R # {}
  <2>1. \A k \in T : n - k \in Nat
    BY SMT
  <2> QED BY <2>1, Zenon
<1>2. PICK m \in R : \A k \in R : m <= k
  BY <1>1, LeastNatural, Zenon
<1>3. PICK x \in T : m = n - x
  OBVIOUS
<1>4. \A k \in T : x >= k
  BY <1>2, <1>3
<1> QED BY <1>4, Zenon DEF Max

-----------------------------------------------------------------------------

\* The function that FlattenSeq chooses.
Flattens(f, s) == f = [i \in 1..Len(s) |-> IF i = 1 THEN s[i] ELSE f[i - 1] \o s[i]]

\* There is one, by induction on the number of sequences,
LEMMA FlattenExists ==
  ASSUME NEW s, Len(s) \in Nat
  PROVE  \E g : Flattens(g, s)
<1> DEFINE Step(f, i) == IF i = 1 THEN s[i] ELSE f[i - 1] \o s[i]
           Good(m) == \E g : g = [i \in 1..m |-> Step(g, i)]
           T == {m \in Nat : Good(m)}
<1>1. 0 \in T
  <2>1. <<>> = [i \in 1..0 |-> Step(<<>>, i)]
    BY SMT
  <2> QED BY <2>1
<1>2. ASSUME NEW k \in T PROVE k + 1 \in T
  <2> DEFINE m == k + 1
  <2>1. k \in Nat /\ m \in Nat
    BY SMT
  <2>2. PICK g : g = [i \in 1..k |-> Step(g, i)]
    BY Zenon
  <2> DEFINE h == [i \in 1..m |-> IF i = m THEN Step(g, m) ELSE g[i]]
  <2>3. \A i \in 1..m : h[i] = Step(h, i)
    <3> TAKE i \in 1..m
    <3>1. i # m => i \in 1..k
      BY <2>1, SMT
    <3>2. i # m => h[i] = g[i] /\ g[i] = Step(g, i)
      BY <2>2, <3>1, Zenon
    <3>3. i # 1 => i - 1 \in 1..m /\ i - 1 # m
      BY <2>1, SMT
    <3>4. i # 1 => h[i - 1] = g[i - 1]
      BY <3>3, Zenon
    <3>5. i = m => h[i] = Step(g, i)
      BY Zenon
    <3> QED BY <3>2, <3>4, <3>5, Zenon
  <2>4. h = [i \in 1..m |-> Step(h, i)]
    BY <2>3, Zenon
  <2> QED BY <2>4, <2>1, Zenon
<1>3. T = Nat
  <2> HIDE DEF T
  <2>1. T \in SUBSET Nat
    BY Zenon DEF T
  <2> QED BY <1>1, <1>2, <2>1, Induction, Zenon
<1>4. Good(Len(s))
  BY <1>3, Zenon
<1> QED BY <1>4, Zenon DEF Flattens

\* so FlattenSeq has one.
LEMMA FlattenSeqIs ==
  ASSUME NEW s, Len(s) # 0, NEW g, Flattens(g, s)
  PROVE  \E f : Flattens(f, s) /\ FlattenSeq(s) = f[Len(s)]
<1> DEFINE F == CHOOSE f : Flattens(f, s)
<1>1. Flattens(F, s)
  BY Zenon
<1>2. FlattenSeq(s) = F[Len(s)]
  BY Zenon DEF FlattenSeq, Flattens
<1> QED BY <1>1, <1>2, Zenon

\* The elements of a concatenation.
LEMMA ConcatElements ==
  ASSUME NEW S, NEW a \in Seq(S), NEW b \in Seq(S)
  PROVE  a \o b \in Seq(S) /\ ToSet(a \o b) = ToSet(a) \cup ToSet(b)
<1>1. \A t : ToSet(t) = Range(t)
  BY Zenon DEF ToSet, Range
<1>2. Range(a \o b) = Range(a) \cup Range(b)
  BY RangeConcatenation, ZenonT(60)
<1>3. a \o b \in Seq(S)
  BY ConcatProperties, Zenon
<1> QED BY <1>1, <1>2, <1>3, Zenon

\* FlattenSeq of sequences over S is a sequence over S, with the elements of all.
LEMMA FlattenSeqElements ==
  ASSUME NEW S, NEW s \in Seq(Seq(S))
  PROVE  /\ FlattenSeq(s) \in Seq(S)
         /\ \A e : e \in ToSet(FlattenSeq(s)) <=> \E i \in DOMAIN s : e \in ToSet(s[i])
<1>1. CASE Len(s) = 0
  <2>1. s = <<>> /\ FlattenSeq(s) = s
    <3>1. s = <<>>
      BY <1>1, SMT
    <3> QED BY <3>1, <1>1, Zenon DEF FlattenSeq
  <2>2. <<>> \in Seq(S) /\ DOMAIN <<>> = {}
    BY SMT
  <2>3. ToSet(<<>>) = {}
    BY <2>2, Zenon DEF ToSet
  <2> QED BY <2>1, <2>2, <2>3, Zenon
<1>2. CASE Len(s) # 0
  <2>1. PICK f : Flattens(f, s) /\ FlattenSeq(s) = f[Len(s)]
    <3>1. Len(s) \in Nat
      BY SMT
    <3> QED BY <1>2, <3>1, FlattenExists, FlattenSeqIs, Zenon
  <2> DEFINE P(i) == /\ f[i] \in Seq(S)
                     /\ \A e : e \in ToSet(f[i]) <=> \E j \in 1..i : e \in ToSet(s[j])
             T == {i \in Nat : i \in 1..Len(s) => P(i)}
  <2>2. 0 \in T
    BY SMT
  <2>3. ASSUME NEW k \in T PROVE k + 1 \in T
    <3>1. k \in Nat /\ k + 1 \in Nat
      OBVIOUS
    <3>2. SUFFICES ASSUME k + 1 \in 1..Len(s) PROVE P(k + 1)
      BY <3>1, Zenon
    <3>3. s[k + 1] \in Seq(S)
      BY <3>2, SMT
    <3>4. CASE k = 0
      <4>1. f[k + 1] = s[k + 1]
        BY <2>1, <3>2, <3>4, SMT DEF Flattens
      <4>2. \A j : j \in 1..(k + 1) <=> j = k + 1
        BY <3>4, SMT
      <4>3. f[k + 1] \in Seq(S)
        BY <4>1, <3>3, Zenon
      <4>4. \A e : e \in ToSet(f[k + 1]) <=> \E j \in 1..(k + 1) : e \in ToSet(s[j])
        <5> TAKE e
        <5>1. (\E j \in 1..(k + 1) : e \in ToSet(s[j])) <=> e \in ToSet(s[k + 1])
          BY <4>2, Zenon
        <5> QED BY <4>1, <5>1, Zenon
      <4> QED BY <4>3, <4>4, Zenon
    <3>5. CASE k # 0
      <4>1. k \in 1..Len(s)
        BY <3>1, <3>2, <3>5, SMT
      <4>2. P(k)
        BY <4>1, Zenon
      <4>3. f[k + 1] = f[k] \o s[k + 1]
        <5>1. (k + 1) - 1 = k /\ k + 1 # 1
          BY <3>1, <3>5, SMT
        <5> QED BY <2>1, <3>2, <5>1, Zenon DEF Flattens
      <4>4. \A j : j \in 1..(k + 1) <=> j \in 1..k \/ j = k + 1
        BY <3>1, SMT
      <4>5. /\ f[k] \o s[k + 1] \in Seq(S)
            /\ ToSet(f[k] \o s[k + 1]) = ToSet(f[k]) \cup ToSet(s[k + 1])
        <5>1. f[k] \in Seq(S)
          BY <4>2, Zenon
        <5> QED BY <5>1, <3>3, ConcatElements
      <4> QED BY <4>2, <4>3, <4>4, <4>5, Zenon
    <3> QED BY <3>4, <3>5, Zenon
  <2>4. T = Nat
    <3> HIDE DEF T
    <3>1. T \in SUBSET Nat
      BY Zenon DEF T
    <3> QED BY <2>2, <2>3, <3>1, Induction, Zenon
  <2>5. Len(s) \in Nat /\ Len(s) \in 1..Len(s) /\ DOMAIN s = 1..Len(s)
    BY <1>2, SMT
  <2>6. P(Len(s))
    BY <2>4, <2>5, Zenon
  <2> QED BY <2>1, <2>5, <2>6, Zenon
<1> QED BY <1>1, <1>2, Zenon

-----------------------------------------------------------------------------

\* A sequence over its own elements: of any set of elements.
IsSequence(s) == s \in Seq(ToSet(s))

\* Whatever it is a sequence of.
LEMMA IsSequenceOf ==
  ASSUME NEW S, NEW s \in Seq(S)
  PROVE  IsSequence(s)
<1>1. Range(s) = ToSet(s)
  BY Zenon DEF Range, ToSet
<1> QED BY <1>1, SeqOfRange, Zenon DEF IsSequence

\* The empty sequence has no elements,
LEMMA EmptySequence == IsSequence(<<>>) /\ ToSet(<<>>) = {}
<1>1. DOMAIN <<>> = {} /\ \A S : <<>> \in Seq(S)
  OBVIOUS
<1> QED BY <1>1, Zenon DEF IsSequence, ToSet

\* that of one element has this one,
LEMMA SingleSequence ==
  ASSUME NEW e
  PROVE  /\ IsSequence(<<e>>) /\ ToSet(<<e>>) = {e}
         /\ Len(<<e>>) = 1 /\ <<e>>[1] = e /\ <<e>> # <<>> /\ Last(<<e>>) = e
<1>1. DOMAIN <<e>> = {1} /\ Len(<<e>>) = 1 /\ <<e>>[1] = e /\ <<e>> # <<>>
  OBVIOUS
<1>2. ToSet(<<e>>) = {e}
  BY <1>1, Zenon DEF ToSet
<1>3. <<e>> \in Seq({e})
  OBVIOUS
<1> QED BY <1>1, <1>2, <1>3, Zenon DEF IsSequence, Last

\* and a concatenation has those of both, and the last of the second.
LEMMA ConcatSequence ==
  ASSUME NEW a, IsSequence(a), NEW b, IsSequence(b)
  PROVE  /\ IsSequence(a \o b) /\ ToSet(a \o b) = ToSet(a) \cup ToSet(b)
         /\ Len(a \o b) = Len(a) + Len(b)
         /\ a \o b = <<>> <=> a = <<>> /\ b = <<>>
         /\ b # <<>> => Last(a \o b) = Last(b)
<1> DEFINE S == ToSet(a) \cup ToSet(b)
<1>1. a \in Seq(S) /\ b \in Seq(S)
  BY SeqMonotonic DEF IsSequence
<1> HIDE DEF S
<1>2. a \o b \in Seq(S) /\ Len(a \o b) = Len(a) + Len(b)
  BY <1>1, ConcatProperties
<1>3. ToSet(a \o b) = ToSet(a) \cup ToSet(b)
  BY <1>1, ConcatElements
<1>4. a \o b = <<>> <=> a = <<>> /\ b = <<>>
  BY <1>1, ConcatEqualIffEmpty
<1>5. b # <<>> => Last(a \o b) = Last(b)
  <2>1. b # <<>> => /\ Len(a) + Len(b) \in 1..(Len(a) + Len(b))
                    /\ ~(Len(a) + Len(b) <= Len(a))
                    /\ Len(a) + Len(b) - Len(a) = Len(b)
    BY <1>1, EmptySeq
  <2>2. b # <<>> => (a \o b)[Len(a) + Len(b)] = b[Len(b)]
    BY <1>1, <2>1, ConcatProperties
  <2> QED BY <1>2, <2>2, Zenon DEF Last
<1> QED BY <1>2, <1>3, <1>4, <1>5, IsSequenceOf, Zenon

\* FlattenSeq of sequences is a sequence with the elements of all.
LEMMA FlattenSequence ==
  ASSUME NEW n \in Nat, NEW s, s = [i \in 1..n |-> s[i]], \A i \in 1..n : IsSequence(s[i])
  PROVE  /\ IsSequence(FlattenSeq(s))
         /\ \A e : e \in ToSet(FlattenSeq(s)) <=> \E i \in 1..n : e \in ToSet(s[i])
<1> DEFINE S == UNION {ToSet(s[i]) : i \in 1..n}
<1>1. DOMAIN s = 1..n
  BY Zenon
<1>2. \A i \in 1..n : s[i] \in Seq(S)
  <2> TAKE i \in 1..n
  <2>1. s[i] \in Seq(ToSet(s[i])) /\ ToSet(s[i]) \subseteq S
    BY Zenon DEF IsSequence
  <2> HIDE DEF S
  <2> QED BY <2>1, SeqMonotonic
<1>3. s \in Seq(Seq(S))
  <2> HIDE DEF S
  <2>1. s \in [1..n -> Seq(S)]
    BY <1>2, Zenon
  <2>2. \A T : [1..n -> T] \subseteq Seq(T)
    OBVIOUS
  <2> QED BY <2>1, <2>2, Zenon
<1> HIDE DEF S
<1>4. FlattenSeq(s) \in Seq(S)
  BY <1>3, FlattenSeqElements
<1>5. \A e : e \in ToSet(FlattenSeq(s)) <=> \E i \in DOMAIN s : e \in ToSet(s[i])
  BY <1>3, FlattenSeqElements
<1> QED BY <1>1, <1>4, <1>5, IsSequenceOf, Zenon

-----------------------------------------------------------------------------

\* How many elements of a sequence are in a set.
CountIn(s, T) == Cardinality({i \in DOMAIN s : s[i] \in T})

\* It is a number, none for the empty sequence, and at most one for one element.
LEMMA CountIs ==
  ASSUME NEW T
  PROVE  /\ CountIn(<<>>, T) = 0
         /\ \A e : CountIn(<<e>>, T) = IF e \in T THEN 1 ELSE 0
         /\ \A s : IsSequence(s) => /\ IsFiniteSet({i \in DOMAIN s : s[i] \in T})
                                    /\ CountIn(s, T) \in Nat
<1>1. CountIn(<<>>, T) = 0
  <2>1. {i \in DOMAIN <<>> : <<>>[i] \in T} = {}
    OBVIOUS
  <2> QED BY <2>1, FS_EmptySet, Zenon DEF CountIn
<1>2. ASSUME NEW e PROVE CountIn(<<e>>, T) = IF e \in T THEN 1 ELSE 0
  <2>1. DOMAIN <<e>> = {1} /\ <<e>>[1] = e
    OBVIOUS
  <2>2. CASE e \in T
    <3>1. {i \in DOMAIN <<e>> : <<e>>[i] \in T} = {1}
      BY <2>1, <2>2, Zenon
    <3> QED BY <2>2, <3>1, FS_Singleton, Zenon DEF CountIn
  <2>3. CASE e \notin T
    <3>1. {i \in DOMAIN <<e>> : <<e>>[i] \in T} = {}
      BY <2>1, <2>3, Zenon
    <3> QED BY <2>3, <3>1, FS_EmptySet, Zenon DEF CountIn
  <2> QED BY <2>2, <2>3, Zenon
<1>3. ASSUME NEW s, IsSequence(s)
      PROVE  IsFiniteSet({i \in DOMAIN s : s[i] \in T}) /\ CountIn(s, T) \in Nat
  <2>1. DOMAIN s = 1..Len(s) /\ Len(s) \in Nat /\ Len(s) \in Int /\ 1 \in Int
    BY <1>3 DEF IsSequence
  <2>2. IsFiniteSet(1..Len(s))
    BY <2>1, FS_Interval, Zenon
  <2>3. IsFiniteSet({i \in DOMAIN s : s[i] \in T})
    <3>1. {i \in DOMAIN s : s[i] \in T} \in SUBSET (1..Len(s))
      BY <2>1, Zenon
    <3> QED BY <2>2, <3>1, FS_Subset, Zenon
  <2> QED BY <2>3, FS_CardinalityType, Zenon DEF CountIn
<1> QED BY <1>1, <1>2, <1>3, Zenon

\* As many numbers as before, each greater by the same.
LEMMA ShiftedNumbers ==
  ASSUME NEW B \in SUBSET Nat, IsFiniteSet(B), NEW n \in Nat
  PROVE  IsFiniteSet({n + j : j \in B}) /\ Cardinality({n + j : j \in B}) = Cardinality(B)
<1> DEFINE R == {n + j : j \in B}
           f == [j \in B |-> n + j]
<1>1. f \in [B -> R] /\ \A j \in B : f[j] = n + j
  BY Zenon
<1>2. \A i, j \in B : n + i = n + j => i = j
  BY SMT
<1>3. \A r \in R : \E j \in B : n + j = r
  BY Zenon
<1> HIDE DEF f, R
<1>4. f \in Bijection(B, R)
  BY <1>1, <1>2, <1>3, Zenon DEF Bijection, Injection, Surjection, IsInjective
<1>5. ExistsBijection(B, R)
  BY <1>4, Zenon DEF ExistsBijection
<1> QED BY <1>5, FS_Bijection, Zenon DEF R

\* A concatenation has those of both.
LEMMA CountConcat ==
  ASSUME NEW a, IsSequence(a), NEW b, IsSequence(b), NEW T
  PROVE  CountIn(a \o b, T) = CountIn(a, T) + CountIn(b, T)
<1> DEFINE n == Len(a)
           A == {i \in DOMAIN a : a[i] \in T}
           B == {i \in DOMAIN b : b[i] \in T}
           R == {n + j : j \in B}
<1>1. /\ n \in Nat /\ Len(b) \in Nat
      /\ DOMAIN a = 1..n /\ DOMAIN b = 1..Len(b) /\ DOMAIN (a \o b) = 1..(n + Len(b))
  BY DEF IsSequence
<1>2. /\ \A i \in 1..n : (a \o b)[i] = a[i]
      /\ \A j \in 1..Len(b) : (a \o b)[n + j] = b[j]
  BY DEF IsSequence
<1>3. {i \in DOMAIN (a \o b) : (a \o b)[i] \in T} = A \cup R
  <2>1. \A i \in 1..(n + Len(b)) : i \in 1..n \/ (i - n \in 1..Len(b) /\ n + (i - n) = i)
    BY <1>1, SMT
  <2>2. \A i \in 1..n : i \in 1..(n + Len(b))
    BY <1>1, SMT
  <2>3. \A j \in 1..Len(b) : n + j \in 1..(n + Len(b))
    BY <1>1, SMT
  <2>4. ASSUME NEW i \in 1..(n + Len(b)), (a \o b)[i] \in T PROVE i \in A \cup R
    <3>1. CASE i \in 1..n
      BY <1>1, <1>2, <2>4, <3>1, Zenon
    <3>2. CASE i - n \in 1..Len(b) /\ n + (i - n) = i
      <4>1. b[i - n] = (a \o b)[i]
        BY <1>2, <3>2, Zenon
      <4>2. i - n \in B
        BY <1>1, <2>4, <3>2, <4>1, Zenon
      <4> QED BY <3>2, <4>2, Zenon
    <3> QED BY <2>1, <3>1, <3>2, Zenon
  <2>5. ASSUME NEW i \in A PROVE i \in 1..(n + Len(b)) /\ (a \o b)[i] \in T
    <3>1. i \in 1..n /\ a[i] \in T
      BY <1>1, <2>5, Zenon
    <3> QED BY <1>2, <2>2, <3>1, Zenon
  <2>6. ASSUME NEW i \in R PROVE i \in 1..(n + Len(b)) /\ (a \o b)[i] \in T
    <3>1. PICK j \in B : i = n + j
      BY <2>6, Zenon
    <3>2. j \in 1..Len(b) /\ b[j] \in T
      BY <1>1, <3>1, Zenon
    <3> QED BY <1>2, <2>3, <3>1, <3>2, Zenon
  <2> HIDE DEF A, R
  <2> QED BY <1>1, <2>4, <2>5, <2>6, Zenon
<1>4. A \cap R = {}
  <2>1. \A i \in 1..n : \A j \in 1..Len(b) : i # n + j
    BY <1>1, SMT
  <2> QED BY <1>1, <2>1, Zenon
<1>5. IsFiniteSet(A) /\ IsFiniteSet(B)
  BY CountIs, Zenon
<1>6. IsFiniteSet(R) /\ Cardinality(R) = Cardinality(B)
  <2>1. B \in SUBSET Nat
    BY <1>1, SMT
  <2> HIDE DEF B
  <2> QED BY <1>1, <1>5, <2>1, ShiftedNumbers, Zenon
<1>7. CountIn(a, T) = Cardinality(A) /\ CountIn(b, T) = Cardinality(B)
        /\ CountIn(a \o b, T) = Cardinality(A \cup R)
  BY <1>3, Zenon DEF CountIn
<1> HIDE DEF A, B, R
<1>8. Cardinality(A \cup R) = Cardinality(A) + Cardinality(R) - Cardinality({})
  <2>1. Cardinality(A \cup R) = Cardinality(A) + Cardinality(R) - Cardinality(A \cap R)
    BY <1>5, <1>6, FS_Union, Zenon
  <2> QED BY <1>4, <2>1, Zenon
<1>9. Cardinality({}) = 0 /\ Cardinality(A) \in Nat /\ Cardinality(R) \in Nat
  BY <1>5, <1>6, FS_EmptySet, FS_CardinalityType, Zenon
<1> QED BY <1>6, <1>7, <1>8, <1>9, SMT

\* Every element of a sequence is among its elements.
LEMMA CountAll ==
  ASSUME NEW s, IsSequence(s)
  PROVE  CountIn(s, ToSet(s)) = Len(s)
<1>1. DOMAIN s = 1..Len(s) /\ Len(s) \in Nat
  BY DEF IsSequence
<1>2. {i \in DOMAIN s : s[i] \in ToSet(s)} = 1..Len(s)
  BY <1>1, Zenon DEF ToSet
<1>3. Cardinality(1..Len(s)) = Len(s)
  <2>1. Cardinality(1..Len(s)) = IF 1 > Len(s) THEN 0 ELSE Len(s) - 1 + 1
    <3>1. 1 \in Int /\ Len(s) \in Int
      BY <1>1, SMT
    <3> QED BY <3>1, FS_Interval, Zenon
  <2> QED BY <1>1, <2>1, SMT
<1> QED BY <1>2, <1>3, Zenon DEF CountIn

\* FlattenSeq of sequences of at most one element has as many of them as there are
\* sequences that have one.
LEMMA CountFlatten ==
  ASSUME NEW n \in Nat, NEW s, s = [i \in 1..n |-> s[i]],
         \A i \in 1..n : s[i] = <<>> \/ \E e : s[i] = <<e>>, NEW T
  PROVE  CountIn(FlattenSeq(s), T)
           = Cardinality({i \in 1..n : s[i] # <<>> /\ s[i][1] \in T})
<1>0. /\ DOMAIN s = 1..n /\ Len(s) = n
      /\ \A i \in 1..n : IsSequence(s[i])
  <2>1. DOMAIN s = 1..n
    BY Zenon
  <2>2. Len(s) = n
    BY <2>1, SMT
  <2> QED BY <2>1, <2>2, EmptySequence, SingleSequence, ZenonT(60)
<1>1. CASE n = 0
  <2>1. FlattenSeq(s) = <<>>
    <3>1. s = <<>>
      BY <1>1, SMT
    <3> QED BY <1>0, <1>1, <3>1, Zenon DEF FlattenSeq
  <2>2. {i \in 1..n : s[i] # <<>> /\ s[i][1] \in T} = {}
    <3>1. 1..n = {}
      BY <1>1, SMT
    <3> QED BY <3>1, Zenon
  <2> QED BY <2>1, <2>2, CountIs, FS_EmptySet, Zenon
<1>2. CASE n # 0
  <2>1. PICK f : Flattens(f, s) /\ FlattenSeq(s) = f[n]
    BY <1>0, <1>2, FlattenExists, FlattenSeqIs, Zenon
  <2> DEFINE C(i) == {j \in 1..i : s[j] # <<>> /\ s[j][1] \in T}
             P(i) == IsSequence(f[i]) /\ CountIn(f[i], T) = Cardinality(C(i))
             G == {i \in Nat : i \in 1..n => P(i)}
  <2>2. 0 \in G
    BY SMT
  <2>3. ASSUME NEW k \in G, k + 1 \in 1..n PROVE P(k + 1)
    <3>1. k \in Nat /\ k + 1 \in Nat
      <4>1. k \in Nat
        BY Zenon
      <4> QED BY <4>1, SMT
    <3>2. /\ s[k + 1] = <<>> \/ \E e : s[k + 1] = <<e>>
          /\ IsSequence(s[k + 1])
      BY <1>0, <2>3, Zenon
    <3>3. /\ IsFiniteSet(C(k)) /\ Cardinality(C(k)) \in Nat
      <4>1. IsFiniteSet(1..k) /\ C(k) \in SUBSET (1..k)
        BY <3>1, FS_Interval, SMT
      <4> HIDE DEF C
      <4> QED BY <4>1, FS_Subset, FS_CardinalityType, Zenon
    <3>4. /\ k + 1 \notin C(k)
          /\ s[k + 1] # <<>> /\ s[k + 1][1] \in T => C(k + 1) = C(k) \cup {k + 1}
          /\ ~(s[k + 1] # <<>> /\ s[k + 1][1] \in T) => C(k + 1) = C(k)
      <4>1. k + 1 \notin 1..k /\ \A j : j \in 1..(k + 1) <=> j \in 1..k \/ j = k + 1
        BY <3>1, SMT
      <4> QED BY <4>1, Zenon
    <3>5. Cardinality(C(k + 1)) = Cardinality(C(k)) + CountIn(s[k + 1], T)
      <4> HIDE DEF C
      <4>1. CASE s[k + 1] # <<>> /\ s[k + 1][1] \in T
        <5>1. Cardinality(C(k) \cup {k + 1}) = Cardinality(C(k)) + 1
          BY <3>3, <3>4, FS_AddElement, Zenon
        <5>2. CountIn(s[k + 1], T) = 1
          <6>1. PICK e : s[k + 1] = <<e>>
            BY <3>2, <4>1, Zenon
          <6>2. e \in T
            BY <4>1, <6>1, SingleSequence, Zenon
          <6> QED BY <6>1, <6>2, CountIs, Zenon
        <5> QED BY <3>4, <4>1, <5>1, <5>2, Zenon
      <4>2. CASE ~(s[k + 1] # <<>> /\ s[k + 1][1] \in T)
        <5>1. CountIn(s[k + 1], T) = 0
          <6>1. CASE s[k + 1] = <<>>
            BY <6>1, CountIs, Zenon
          <6>2. ASSUME NEW e, s[k + 1] = <<e>> PROVE CountIn(s[k + 1], T) = 0
            <7>1. e \notin T
              BY <4>2, <6>2, SingleSequence, Zenon
            <7> QED BY <6>2, <7>1, CountIs, ZenonT(60)
          <6> QED BY <3>2, <6>1, <6>2, Zenon
        <5>2. Cardinality(C(k + 1)) = Cardinality(C(k))
          BY <3>4, <4>2, Zenon
        <5> QED BY <3>3, <5>1, <5>2, SMT
      <4> QED BY <4>1, <4>2, Zenon
    <3>6. CASE k = 0
      <4>1. f[k + 1] = s[k + 1]
        BY <1>0, <2>1, <2>3, <3>6, SMT DEF Flattens
      <4>2. Cardinality(C(k)) = 0
        <5>1. C(k) = {}
          BY <3>6, SMT
        <5> HIDE DEF C
        <5> QED BY <5>1, FS_EmptySet, Zenon
      <4>3. CountIn(s[k + 1], T) \in Nat
        BY <3>2, CountIs, Zenon
      <4>4. Cardinality(C(k + 1)) = CountIn(s[k + 1], T)
        <5> HIDE DEF C
        <5> QED BY <3>5, <4>2, <4>3, SMT
      <4> HIDE DEF C
      <4> QED BY <3>2, <4>1, <4>4, Zenon
    <3>7. CASE k # 0
      <4>1. k \in 1..n
        BY <3>1, <2>3, <3>7, SMT
      <4>2. P(k)
        BY <4>1, Zenon
      <4>3. f[k + 1] = f[k] \o s[k + 1]
        <5>1. (k + 1) - 1 = k /\ k + 1 # 1
          BY <3>1, <3>7, SMT
        <5> QED BY <1>0, <2>1, <2>3, <5>1, Zenon DEF Flattens
      <4> HIDE DEF C
      <4>4. IsSequence(f[k] \o s[k + 1])
        BY <3>2, <4>2, ConcatSequence, Zenon
      <4>5. CountIn(f[k] \o s[k + 1], T) = CountIn(f[k], T) + CountIn(s[k + 1], T)
        <5>1. IsSequence(f[k]) /\ IsSequence(s[k + 1])
          BY <3>2, <4>2, Zenon
        <5> DEFINE a == f[k]
                   b == s[k + 1]
        <5>2. IsSequence(a) /\ IsSequence(b)
          BY <5>1, Zenon
        <5> HIDE DEF a, b
        <5>3. CountIn(a \o b, T) = CountIn(a, T) + CountIn(b, T)
          BY <5>2, CountConcat
        <5> QED BY <5>3, Zenon DEF a, b
      <4> QED BY <3>5, <4>2, <4>3, <4>4, <4>5, Zenon
    <3> QED BY <3>6, <3>7, Zenon
  <2>4. G = Nat
    <3>1. G \in SUBSET Nat
      BY Zenon
    <3>2. \A k \in G : k + 1 \in G
      <4> SUFFICES ASSUME NEW k \in G PROVE k + 1 \in G
        BY Zenon
      <4>1. k + 1 \in Nat
        BY SMT
      <4> HIDE DEF P
      <4> QED BY <2>3, <4>1, Zenon DEF P
    <3> HIDE DEF G
    <3> QED BY <2>2, <3>1, <3>2, Induction, Zenon
  <2>5. P(n)
    <3>1. n \in 1..n
      BY <1>2, SMT
    <3> QED BY <2>4, <3>1, Zenon
  <2> QED BY <2>1, <2>5, Zenon
<1> QED BY <1>1, <1>2, Zenon

-----------------------------------------------------------------------------

\* t is a part of s, from the element after the i-th.
Occurs(t, s, i) ==
  i + Len(t) <= Len(s) /\ \A k \in 1..Len(t) : s[i + k] = t[k]

\* A part of s is t when it has its length and t occurs where it begins.
LEMMA SubSeqOccurs ==
  ASSUME NEW S, NEW s \in Seq(S), NEW t \in Seq(S), NEW i \in 0..Len(s), NEW j \in i..Len(s)
  PROVE  SubSeq(s, i + 1, j) = t <=> j = i + Len(t) /\ Occurs(t, s, i)
<1> DEFINE u == SubSeq(s, i + 1, j)
<1>1. /\ u \in Seq(S)
      /\ Len(u) = j - i
      /\ \A k \in 1..(j - i) : u[k] = s[i + k]
  OBVIOUS
<1>2. ASSUME u = t PROVE j = i + Len(t) /\ Occurs(t, s, i)
  BY <1>1, <1>2, SMTT(60) DEF Occurs
<1>3. ASSUME j = i + Len(t), Occurs(t, s, i) PROVE u = t
  <2>1. Len(u) = Len(t) /\ \A k \in 1..Len(u) : u[k] = t[k]
    BY <1>1, <1>3 DEF Occurs
  <2> HIDE DEF u
  <2> QED BY <2>1, <1>1, SeqEqual
<1> QED BY <1>2, <1>3

\* A prefix occurs at the beginning,
LEMMA PrefixOccurs ==
  ASSUME NEW S, NEW s \in Seq(S), NEW t \in Seq(S)
  PROVE  IsPrefix(t, s) <=> Occurs(t, s, 0)
<1>1. SubSeq(t, 1, Len(t)) = t
  BY SubSeqFull
<1>2. Len(t) <= Len(s) => (SubSeq(s, 1, Len(t)) = t <=> Occurs(t, s, 0))
  <2>1. SUFFICES ASSUME Len(t) <= Len(s) PROVE SubSeq(s, 1, Len(t)) = t <=> Occurs(t, s, 0)
    OBVIOUS
  <2>2. 0 \in 0..Len(s) /\ Len(t) \in 0..Len(s) /\ Len(t) = 0 + Len(t) /\ 0 + 1 = 1
    BY <2>1, SMT
  <2> QED BY <2>2, SubSeqOccurs
<1>3. Occurs(t, s, 0) => Len(t) <= Len(s)
  BY DEF Occurs
<1> QED BY <1>1, <1>2, <1>3 DEF IsPrefix

\* and a suffix at the end.
LEMMA SuffixOccurs ==
  ASSUME NEW S, NEW s \in Seq(S), NEW t \in Seq(S)
  PROVE  IsSuffix(t, s) <=> Len(t) <= Len(s) /\ Occurs(t, s, Len(s) - Len(t))
<1>1. \A u \in Seq(S) : /\ Reverse(u) \in Seq(S) /\ Len(Reverse(u)) = Len(u)
                        /\ \A k \in 1..Len(u) : Reverse(u)[k] = u[Len(u) + 1 - k]
  BY DEF Reverse
<1>2. IsSuffix(t, s) <=> Occurs(Reverse(t), Reverse(s), 0)
  BY <1>1, PrefixOccurs DEF IsSuffix
<1>3. Occurs(Reverse(t), Reverse(s), 0) <=>
        Len(t) <= Len(s) /\ \A k \in 1..Len(t) : s[Len(s) + 1 - k] = t[Len(t) + 1 - k]
  <2>1. Len(t) <= Len(s) => \A k \in 1..Len(t) : 0 + k \in 1..Len(s) /\ 0 + k = k
    BY SMT
  <2> QED BY <1>1, <2>1 DEF Occurs
<1>4. ASSUME Len(t) <= Len(s)
      PROVE (\A k \in 1..Len(t) : s[Len(s) + 1 - k] = t[Len(t) + 1 - k])
              <=> \A k \in 1..Len(t) : s[Len(s) - Len(t) + k] = t[k]
  <2>1. \A k \in 1..Len(t) :
          /\ Len(t) + 1 - k \in 1..Len(t)
          /\ Len(s) + 1 - (Len(t) + 1 - k) = Len(s) - Len(t) + k
          /\ Len(t) + 1 - (Len(t) + 1 - k) = k
          /\ Len(s) - Len(t) + (Len(t) + 1 - k) = Len(s) + 1 - k
    BY SMT
  <2>2. ASSUME \A k \in 1..Len(t) : s[Len(s) + 1 - k] = t[Len(t) + 1 - k],
               NEW k \in 1..Len(t)
        PROVE  s[Len(s) - Len(t) + k] = t[k]
    <3>1. s[Len(s) + 1 - (Len(t) + 1 - k)] = t[Len(t) + 1 - (Len(t) + 1 - k)]
      BY <2>1, <2>2, Zenon
    <3> QED BY <2>1, <3>1, Zenon
  <2>3. ASSUME \A k \in 1..Len(t) : s[Len(s) - Len(t) + k] = t[k],
               NEW k \in 1..Len(t)
        PROVE  s[Len(s) + 1 - k] = t[Len(t) + 1 - k]
    <3>1. s[Len(s) - Len(t) + (Len(t) + 1 - k)] = t[Len(t) + 1 - k]
      BY <2>1, <2>3, Zenon
    <3> QED BY <2>1, <3>1, Zenon
  <2> QED BY <2>2, <2>3, Zenon
<1>5. Len(s) - Len(t) + Len(t) <= Len(s)
  BY SMT
<1> QED BY <1>2, <1>3, <1>4, <1>5 DEF Occurs

\* A sequence begins what is concatenated to it; the empty one everything.
LEMMA PrefixOfConcat ==
  ASSUME NEW S, NEW a \in Seq(S), NEW b \in Seq(S)
  PROVE  IsPrefix(<<>>, a \o b) /\ IsPrefix(a, a \o b)
<1>1. a \o b \in Seq(S) /\ <<>> \in Seq(S)
  BY ConcatProperties
<1>2. Occurs(a, a \o b, 0)
  BY ConcatProperties DEF Occurs
<1>3. Occurs(<<>>, a \o b, 0)
  BY <1>1 DEF Occurs
<1> QED BY <1>1, <1>2, <1>3, PrefixOccurs

\* Reading one element of b leaves a and b together what they were.
LEMMA ReadOne ==
  ASSUME NEW S, NEW a \in Seq(S), NEW b \in Seq(S), b # <<>>
  PROVE  /\ Append(a, Head(b)) \o Tail(b) = a \o b
         /\ Last(Append(a, Head(b))) = Head(b)
         /\ Append(a, Head(b)) # <<>>
<1>1. Head(b) \in S /\ Tail(b) \in Seq(S)
  BY HeadTailProperties, Zenon
<1>2. /\ Append(a, Head(b)) \in Seq(S) /\ Len(Append(a, Head(b))) = Len(a) + 1
      /\ Append(a, Head(b))[Len(a) + 1] = Head(b)
  BY <1>1, AppendProperties
<1>3. Append(a, Head(b)) \o Tail(b) = a \o b
  BY <1>1
<1> QED BY <1>2, <1>3 DEF Last
=============================================================================
