----------------------------- MODULE FiniteSums -----------------------------
(***************************************************************************)
(* Induction over finite sets and natural numbers in the form the provers  *)
(* can use, with a set in the place of the predicate, and what it says of  *)
(* Max and of MapThenSumSet: the sum over a finite set does not depend on  *)
(* the order in which its elements are chosen.                             *)
(***************************************************************************)
EXTENDS Integers, FiniteSets, FiniteSetsExt, FiniteSetTheorems,
        WellFoundedInduction, TLAPS

SumOf(w, S) == MapThenSumSet(LAMBDA k : w[k], S)

Some(S) == CHOOSE x \in S : TRUE
(* What MapThenSumSet computes, for S and its subsets                      *)
Sums(f, w, S) ==
  f = [s \in SUBSET S |->
         IF s = {} THEN 0 ELSE w[Some(s)] + f[s \ {Some(s)}]]

-----------------------------------------------------------------------------
(* Induction                                                               *)

(* A set of natural numbers that is not empty has a least element.         *)
LEMMA LeastNat ==
  ASSUME NEW T \in SUBSET Nat, T # {}
  PROVE  \E n \in T : \A m \in T : n <= m
<1>1. PICK n \in T : \A m \in T : ~(<<m, n>> \in OpToRel(<, Nat))
  BY NatLessThanWellFounded, WFMin
<1>2. \A m \in T : ~(m < n)
  BY <1>1 DEF OpToRel
<1> QED
  BY <1>2

LEMMA NatInduct ==
  ASSUME NEW T, 0 \in T, \A n \in Nat : n \in T => n + 1 \in T
  PROVE  Nat \subseteq T
<1> SUFFICES ASSUME Nat \ T # {} PROVE FALSE
  OBVIOUS
<1>1. PICK n \in Nat \ T : \A m \in Nat \ T : n <= m
  BY LeastNat
<1>2. n # 0 /\ n - 1 \in Nat /\ n - 1 \in T
  BY <1>1
<1> QED
  BY <1>1, <1>2

(* A finite set of sets' subsets that fail has a least one.                *)
LEMMA SubsetInduct ==
  ASSUME NEW S, IsFiniteSet(S), NEW C, {} \in C,
         \A A \in SUBSET S : \A x \in S \ A : A \in C => A \union {x} \in C
  PROVE  S \in C
<1> SUFFICES ASSUME S \notin C PROVE FALSE
  OBVIOUS
<1> DEFINE bad == {A \in SUBSET S : A \notin C}
<1>1. IsWellFoundedOn(StrictSubsetOrdering(S), SUBSET S)
  BY FS_StrictSubsetOrderingWellFounded, FS_FiniteSubsetsOfFinite
<1>2. bad \subseteq SUBSET S /\ bad # {}
  OBVIOUS
<1> HIDE DEF bad
<1>3. PICK B \in bad : \A A \in bad : ~(<<A, B>> \in StrictSubsetOrdering(S))
  BY <1>1, <1>2, WFMin
<1>4. B \in SUBSET S /\ B \notin C /\ B # {}
  BY DEF bad
<1>5. PICK x \in B : TRUE
  BY <1>4
<1> DEFINE A == B \ {x}
<1>6. A \in SUBSET S /\ x \in S \ A /\ A \union {x} = B /\ A # B
  BY <1>4
<1>7. <<A, B>> \in StrictSubsetOrdering(S)
  BY <1>4, <1>6 DEF StrictSubsetOrdering
<1>8. A \in C
  BY <1>3, <1>6, <1>7 DEF bad
<1> QED
  BY <1>4, <1>6, <1>8

(* A finite set of natural numbers has a largest one.                      *)
LEMMA MaxIsMember ==
  ASSUME NEW d, IsFiniteSet(d), d \subseteq Nat, d # {}
  PROVE  Max(d) \in d /\ \A n \in d : n <= Max(d)
<1>1. \E m \in d : \A n \in d : n <= m
  <2> DEFINE C == {A \in SUBSET d : A = {} \/ \E m \in A : \A n \in A : n <= m}
  <2>1. ASSUME NEW A \in SUBSET d, NEW x \in d \ A, A \in C
        PROVE  A \union {x} \in C
    <3>1. CASE A = {}
      BY <3>1
    <3>2. CASE A # {}
      <4>1. PICK m \in A : \A n \in A : n <= m
        BY <2>1, <3>2
      <4>2. m \in Nat /\ x \in Nat /\ A \subseteq Nat
        OBVIOUS
      <4>3. CASE x <= m
        BY <4>1, <4>2, <4>3
      <4>4. CASE m < x
        BY <4>1, <4>2, <4>4
      <4> QED
        BY <4>2, <4>3, <4>4
    <3> QED
      BY <3>1, <3>2
  <2>2. {} \in C
    OBVIOUS
  <2> HIDE DEF C
  <2>3. d \in C
    BY <2>1, <2>2, SubsetInduct
  <2> QED
    BY <2>3 DEF C
<1>2. \E m \in d : \A n \in d : m >= n
  BY <1>1
<1>3. Max(d) \in d /\ \A n \in d : Max(d) >= n
  BY <1>2, Zenon DEF Max
<1> QED
  BY <1>3

-----------------------------------------------------------------------------
(* The function that MapThenSumSet sums with                               *)

LEMMA SumIsSums ==
  ASSUME NEW w, NEW S
  PROVE  SumOf(w, S) = (CHOOSE f : Sums(f, w, S))[S]
BY DEF SumOf, MapThenSumSet, MapThenFoldSet, Sums, Some

LEMMA SomeIsMember ==
  ASSUME NEW s, s # {}
  PROVE  Some(s) \in s
BY Zenon DEF Some

(* It exists, if the set is finite.                                        *)
LEMMA SumsExist ==
  ASSUME NEW w, NEW S, IsFiniteSet(S)
  PROVE  \E f : Sums(f, w, S)
<1> DEFINE Small(n) == {s \in SUBSET S : Cardinality(s) <= n}
           Rec(f, s) == IF s = {} THEN 0 ELSE w[Some(s)] + f[s \ {Some(s)}]
           T == {n \in Nat : \E f : f = [s \in Small(n) |-> Rec(f, s)]}
<1>1. \A s \in SUBSET S : /\ IsFiniteSet(s) /\ Cardinality(s) \in Nat
                          /\ Cardinality(s) = 0 <=> s = {}
                          /\ s # {} => /\ s \ {Some(s)} \in SUBSET S
                                       /\ Cardinality(s \ {Some(s)}) = Cardinality(s) - 1
  BY FS_Subset, FS_CardinalityType, FS_EmptySet, FS_RemoveElement, SomeIsMember
<1> HIDE DEF Rec
<1>2. 0 \in T
  <2> DEFINE f == [s \in Small(0) |-> 0]
  <2>1. \A s \in Small(0) : Rec(f, s) = 0
    BY <1>1 DEF Rec
  <2>2. f = [s \in Small(0) |-> Rec(f, s)]
    BY <2>1
  <2> QED
    BY <2>2
<1>3. ASSUME NEW n \in Nat, n \in T PROVE n + 1 \in T
  <2>1. PICK f : f = [s \in Small(n) |-> Rec(f, s)]
    BY <1>3
  <2>2. PICK g : g = [s \in Small(n + 1) |-> Rec(f, s)]
    OBVIOUS
  <2>3. Small(n) \subseteq Small(n + 1)
    <3>1. ASSUME NEW s \in Small(n) PROVE Cardinality(s) <= n + 1
      <4>1. Cardinality(s) \in Nat /\ Cardinality(s) <= n
        BY <1>1
      <4> QED
        BY <4>1
    <3> QED
      BY <3>1
  <2> HIDE DEF Small
  <2>4. \A s \in Small(n) : g[s] = f[s]
    BY <2>1, <2>2, <2>3
  <2>5. ASSUME NEW s \in Small(n + 1) PROVE Rec(g, s) = Rec(f, s)
    <3>1. CASE s = {}
      BY <3>1 DEF Rec
    <3>2. CASE s # {}
      <4>1. s \ {Some(s)} \in Small(n)
        BY <1>1, <3>2 DEF Small
      <4>2. g[s \ {Some(s)}] = f[s \ {Some(s)}]
        BY <2>4, <4>1
      <4> QED
        BY <4>2 DEF Rec
    <3> QED
      BY <3>1, <3>2
  <2>6. [s \in Small(n + 1) |-> Rec(f, s)] = [s \in Small(n + 1) |-> Rec(g, s)]
    BY <2>5
  <2> QED
    BY <2>2, <2>6
<1>4. Cardinality(S) \in T
  <2>1. Nat \subseteq T
    BY <1>2, <1>3, NatInduct
  <2> QED
    BY <1>1, <2>1
<1>5. Small(Cardinality(S)) = SUBSET S
  BY FS_Subset
<1>6. PICK f : f = [s \in SUBSET S |-> Rec(f, s)]
  BY <1>4, <1>5
<1> QED
  BY <1>6 DEF Sums, Rec

(* It is the same for two functions that agree on the set, and for every   *)
(* set around this one.                                                    *)
LEMMA SumsAgree ==
  ASSUME NEW w, NEW v, NEW S, IsFiniteSet(S), NEW A \in SUBSET S,
         \A x \in A : w[x] = v[x],
         NEW f, Sums(f, w, S), NEW g, Sums(g, v, A)
  PROVE  f[A] = g[A]
<1> DEFINE T == {n \in Nat : \A s \in SUBSET A : Cardinality(s) <= n => f[s] = g[s]}
<1>1. ASSUME NEW s \in SUBSET A
      PROVE  IsFiniteSet(s) /\ Cardinality(s) \in Nat
  BY FS_Subset, FS_CardinalityType
<1>2. f[{}] = 0 /\ g[{}] = 0
  BY DEF Sums
<1>3. ASSUME NEW s \in SUBSET A, s # {}
      PROVE  /\ Some(s) \in s /\ s \ {Some(s)} \in SUBSET A
             /\ f[s] = w[Some(s)] + f[s \ {Some(s)}]
             /\ g[s] = v[Some(s)] + g[s \ {Some(s)}]
  <2>1. Some(s) \in s /\ s \in SUBSET S
    BY <1>3, SomeIsMember
  <2> QED
    BY <1>3, <2>1 DEF Sums
<1>4. 0 \in T
  <2>1. ASSUME NEW s \in SUBSET A, Cardinality(s) <= 0 PROVE s = {}
    BY <1>1, <2>1, FS_EmptySet
  <2> QED
    BY <1>2, <2>1
<1>5. ASSUME NEW n \in Nat, n \in T PROVE n + 1 \in T
  <2> SUFFICES ASSUME NEW s \in SUBSET A, Cardinality(s) <= n + 1, s # {}
               PROVE  f[s] = g[s]
    BY <1>2
  <2> DEFINE r == s \ {Some(s)}
  <2>1. Cardinality(r) <= n /\ r \in SUBSET A
    <3>1. Some(s) \in s /\ IsFiniteSet(s) /\ Cardinality(s) \in Nat
      BY <1>1, <1>3
    <3>2. Cardinality(r) = Cardinality(s) - 1
      BY <3>1, FS_RemoveElement
    <3> QED
      BY <3>1, <3>2
  <2>2. f[r] = g[r]
    BY <1>5, <2>1
  <2>3. w[Some(s)] = v[Some(s)]
    BY <1>3
  <2> QED
    BY <1>3, <2>2, <2>3
<1>6. Cardinality(A) \in T
  <2>1. Nat \subseteq T
    BY <1>4, <1>5, NatInduct
  <2> QED
    BY <1>1, <2>1
<1> QED
  BY <1>1, <1>6

-----------------------------------------------------------------------------
(* The sum                                                                 *)

LEMMA SumDefined ==
  ASSUME NEW w, NEW S, IsFiniteSet(S)
  PROVE  \E f : Sums(f, w, S) /\ SumOf(w, S) = f[S]
<1> DEFINE f == CHOOSE f : Sums(f, w, S)
<1>1. Sums(f, w, S)
  BY SumsExist, Zenon
<1> QED
  BY <1>1, SumIsSums

LEMMA SumEmpty == \A w : SumOf(w, {}) = 0
<1> SUFFICES ASSUME NEW w PROVE SumOf(w, {}) = 0
  OBVIOUS
<1>1. PICK f : Sums(f, w, {}) /\ SumOf(w, {}) = f[{}]
  BY SumDefined, FS_EmptySet
<1> QED
  BY <1>1 DEF Sums

(* Only the values on the set count.                                       *)
LEMMA SumSame ==
  ASSUME NEW w, NEW v, NEW S, IsFiniteSet(S), \A x \in S : w[x] = v[x]
  PROVE  SumOf(w, S) = SumOf(v, S)
<1>1. PICK f : Sums(f, w, S) /\ SumOf(w, S) = f[S]
  BY SumDefined
<1>2. PICK g : Sums(g, v, S) /\ SumOf(v, S) = g[S]
  BY SumDefined
<1> QED
  BY <1>1, <1>2, SumsAgree

LEMMA SumUnfold ==
  ASSUME NEW w, NEW S, IsFiniteSet(S), S # {}
  PROVE  Some(S) \in S /\ SumOf(w, S) = w[Some(S)] + SumOf(w, S \ {Some(S)})
<1> DEFINE A == S \ {Some(S)}
<1>1. Some(S) \in S /\ A \in SUBSET S /\ IsFiniteSet(A)
  BY SomeIsMember, FS_Subset
<1>2. PICK f : Sums(f, w, S) /\ SumOf(w, S) = f[S]
  BY SumDefined
<1>3. PICK g : Sums(g, w, A) /\ SumOf(w, A) = g[A]
  BY <1>1, SumDefined
<1>4. f[A] = g[A]
  BY <1>1, <1>2, <1>3, SumsAgree
<1>5. f[S] = w[Some(S)] + f[A]
  BY <1>1, <1>2 DEF Sums
<1> QED
  BY <1>1, <1>2, <1>3, <1>4, <1>5

LEMMA SumInNat ==
  ASSUME NEW w, NEW S, IsFiniteSet(S), \A x \in S : w[x] \in Nat
  PROVE  SumOf(w, S) \in Nat
<1> DEFINE T == {n \in Nat : \A s \in SUBSET S :
                   Cardinality(s) <= n => SumOf(w, s) \in Nat}
<1>1. ASSUME NEW s \in SUBSET S
      PROVE  IsFiniteSet(s) /\ Cardinality(s) \in Nat
  BY FS_Subset, FS_CardinalityType
<1>2. 0 \in T
  <2>1. ASSUME NEW s \in SUBSET S, Cardinality(s) <= 0 PROVE s = {}
    BY <1>1, <2>1, FS_EmptySet
  <2> QED
    BY <2>1, SumEmpty
<1>3. ASSUME NEW n \in Nat, n \in T PROVE n + 1 \in T
  <2> SUFFICES ASSUME NEW s \in SUBSET S, Cardinality(s) <= n + 1, s # {}
               PROVE  SumOf(w, s) \in Nat
    BY SumEmpty
  <2> DEFINE r == s \ {Some(s)}
  <2>1. Some(s) \in s /\ SumOf(w, s) = w[Some(s)] + SumOf(w, r)
    BY <1>1, SumUnfold
  <2>2. Cardinality(r) <= n /\ r \in SUBSET S
    BY <1>1, <2>1, FS_RemoveElement
  <2>3. SumOf(w, r) \in Nat /\ w[Some(s)] \in Nat
    BY <1>3, <2>1, <2>2
  <2> QED
    BY <2>1, <2>3
<1>4. Cardinality(S) \in T
  <2>1. Nat \subseteq T
    BY <1>2, <1>3, NatInduct
  <2> QED
    BY <1>1, <2>1
<1> QED
  BY <1>1, <1>4

(* Any element can be taken out first.                                     *)
LEMMA SumSplit ==
  ASSUME NEW w, NEW S, IsFiniteSet(S), \A x \in S : w[x] \in Nat
  PROVE  \A x \in S : SumOf(w, S) = w[x] + SumOf(w, S \ {x})
<1> DEFINE Fine(s) == \A x \in s : SumOf(w, s) = w[x] + SumOf(w, s \ {x})
           T == {n \in Nat : \A s \in SUBSET S : Cardinality(s) <= n => Fine(s)}
<1>1. ASSUME NEW s \in SUBSET S
      PROVE  IsFiniteSet(s) /\ Cardinality(s) \in Nat /\ SumOf(w, s) \in Nat
  BY FS_Subset, FS_CardinalityType, SumInNat
<1>2. 0 \in T
  <2>1. ASSUME NEW s \in SUBSET S, Cardinality(s) <= 0 PROVE s = {}
    BY <1>1, <2>1, FS_EmptySet
  <2> QED
    BY <2>1
<1>3. ASSUME NEW n \in Nat, n \in T PROVE n + 1 \in T
  <2> SUFFICES ASSUME NEW s \in SUBSET S, Cardinality(s) <= n + 1, NEW x \in s
               PROVE  SumOf(w, s) = w[x] + SumOf(w, s \ {x})
    OBVIOUS
  <2> DEFINE y == Some(s)
             r == s \ {y}
  <2>1. y \in s /\ SumOf(w, s) = w[y] + SumOf(w, r)
    BY <1>1, SumUnfold
  <2> HIDE DEF y
  <2>2. CASE x = y
    BY <2>1, <2>2
  <2>3. CASE x # y
    <3>1. /\ Cardinality(r) <= n /\ r \in SUBSET S
          /\ Cardinality(s \ {x}) <= n /\ s \ {x} \in SUBSET S
      BY <1>1, <2>1, FS_RemoveElement
    <3>2. SumOf(w, r) = w[x] + SumOf(w, r \ {x})
      BY <1>3, <2>3, <3>1
    <3>3. SumOf(w, s \ {x}) = w[y] + SumOf(w, (s \ {x}) \ {y})
      BY <1>3, <2>1, <2>3, <3>1
    <3>4. r \ {x} = (s \ {x}) \ {y}
      OBVIOUS
    <3>5. w[x] \in Nat /\ w[y] \in Nat /\ SumOf(w, r \ {x}) \in Nat
      BY <1>1, <2>1
    <3>6. SumOf(w, s \ {x}) = w[y] + SumOf(w, r \ {x})
      BY <3>3, <3>4
    <3> HIDE DEF r
    <3> QED
      BY <2>1, <3>2, <3>5, <3>6
  <2> QED
    BY <2>2, <2>3
<1>4. Cardinality(S) \in T
  <2>1. Nat \subseteq T
    BY <1>2, <1>3, NatInduct
  <2> QED
    BY <1>1, <2>1
<1> QED
  BY <1>1, <1>4

(* What is taken from a set is taken from its sum.                         *)
LEMMA SumWithout ==
  ASSUME NEW w, NEW S, IsFiniteSet(S), \A x \in S : w[x] \in Nat,
         NEW A \in SUBSET S
  PROVE  /\ SumOf(w, S \ A) = SumOf(w, S) - SumOf(w, A)
         /\ SumOf(w, A) \in Nat /\ SumOf(w, S) \in Nat
         /\ SumOf(w, S \ A) \in Nat
<1> DEFINE C == {B \in SUBSET A : SumOf(w, S \ B) + SumOf(w, B) = SumOf(w, S)}
<1>1. ASSUME NEW s \in SUBSET S
      PROVE  IsFiniteSet(s) /\ SumOf(w, s) \in Nat
  BY FS_Subset, SumInNat
<1>2. {} \in C
  <2>1. S \ {} = S
    OBVIOUS
  <2> QED
    BY <1>1, <2>1, SumEmpty
<1>3. ASSUME NEW B \in SUBSET A, NEW x \in A \ B, B \in C
      PROVE  B \union {x} \in C
  <2> DEFINE D == B \union {x}
  <2>1. SumOf(w, D) = w[x] + SumOf(w, D \ {x})
    BY <1>1, SumSplit
  <2>2. D \ {x} = B /\ (S \ B) \ {x} = S \ D
    BY <1>3
  <2>3. SumOf(w, S \ B) = w[x] + SumOf(w, (S \ B) \ {x})
    BY <1>1, <1>3, SumSplit
  <2>4. /\ SumOf(w, B) \in Nat /\ SumOf(w, S \ D) \in Nat /\ w[x] \in Nat
        /\ SumOf(w, S) \in Nat
    BY <1>1
  <2>5. SumOf(w, S \ B) + SumOf(w, B) = SumOf(w, S)
    BY <1>3
  <2>6. SumOf(w, S \ D) + SumOf(w, D) = SumOf(w, S)
    BY <2>1, <2>2, <2>3, <2>4, <2>5
  <2> QED
    BY <2>6
<1>4. A \in C
  BY <1>1, <1>2, <1>3, SubsetInduct
<1> QED
  BY <1>1, <1>4
=============================================================================
