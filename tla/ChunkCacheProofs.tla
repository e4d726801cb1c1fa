-------------------------- MODULE ChunkCacheProofs --------------------------
(***************************************************************************)
(* Theorems about ChunkCache, for any keys, files, sizes of chunks, limits *)
(* and number of calls.                                                    *)
(*                                                                         *)
(* The invariant is the types, the order of the last uses, that every mark *)
(* is of a chunk there is, and the two limits.                             *)
(***************************************************************************)
EXTENDS ChunkCache, FiniteSums, SequenceTheorems

(* s is in increasing order of u.                                          *)
Sorted(s, u) ==
  \A i, j \in 1..Len(s) : i < j => u[s[i]] < u[s[j]]

(* The first is the least recently used, as calls are numbered.            *)
OrderInv ==
  /\ Sorted(order, lastUse)
  /\ \A k \in Keys : lastUse[k] <= calls

IInv ==
  TypeOK /\ OrderInv /\ BytesExact /\ WithinLimits /\ MarksPresent

-----------------------------------------------------------------------------
(* Sequences of keys                                                       *)

LEMMA Positions ==
  ASSUME NEW S, NEW s \in Seq(S)
  PROVE  /\ Len(s) \in Nat /\ DOMAIN s = 1..Len(s)
         /\ IsFiniteSet(1..Len(s)) /\ Cardinality(1..Len(s)) = Len(s)
<1>1. Len(s) \in Nat /\ Len(s) \in Int /\ 1 \in Int /\ DOMAIN s = 1..Len(s)
  BY LenProperties
<1>2. /\ IsFiniteSet(1..Len(s))
      /\ Cardinality(1..Len(s)) = IF 1 > Len(s) THEN 0 ELSE Len(s) - 1 + 1
  BY <1>1, FS_Interval, Zenon
<1> QED
  BY <1>1, <1>2

(* The keys of a sequence                                                  *)
LEMMA ToSetFacts ==
  ASSUME NEW S, NEW s \in Seq(S)
  PROVE  /\ ToSet(s) \subseteq S /\ IsFiniteSet(ToSet(s))
         /\ ToSet(s) = {s[i] : i \in 1..Len(s)}
         /\ Len(s) \in Nat /\ Cardinality(ToSet(s)) <= Len(s)
<1>1. Len(s) \in Nat /\ ToSet(s) = {s[i] : i \in 1..Len(s)}
  BY DEF ToSet
<1>2. s \in Surjection(1..Len(s), ToSet(s))
  BY <1>1 DEF Surjection
<1>3. IsFiniteSet(1..Len(s)) /\ Cardinality(1..Len(s)) = Len(s)
  BY <1>1, FS_Interval
<1> QED
  BY <1>1, <1>2, <1>3, FS_Surjection

(* No key comes twice in a sorted sequence.                                *)
LEMMA SortedIsInjective ==
  ASSUME NEW S, NEW s \in Seq(S), NEW u \in [S -> Nat], Sorted(s, u)
  PROVE  /\ \A i, j \in 1..Len(s) : s[i] = s[j] => i = j
         /\ Cardinality(ToSet(s)) = Len(s)
<1>1. \A i, j \in 1..Len(s) : s[i] = s[j] => i = j
  <2> SUFFICES ASSUME NEW i \in 1..Len(s), NEW j \in 1..Len(s), s[i] = s[j], i < j
               PROVE  FALSE
    BY LenProperties
  <2>1. u[s[i]] < u[s[j]] /\ u[s[i]] \in Nat
    BY DEF Sorted
  <2> QED
    BY <2>1
<1>2. s \in Injection(1..Len(s), ToSet(s)) /\ s \in Surjection(1..Len(s), ToSet(s))
  <2>1. /\ s \in [1..Len(s) -> ToSet(s)]
        /\ \A x \in ToSet(s) : \E i \in 1..Len(s) : s[i] = x
    BY ToSetFacts, LenProperties
  <2> QED
    BY <1>1, <2>1 DEF Injection, IsInjective, Surjection
<1> QED
  BY <1>1, <1>2, Positions, FS_Surjection

(* Without: what FoldLeft computes, for each set of positions              *)
Filters(f, s, gone) ==
  f = [d \in SUBSET DOMAIN s |->
         IF d = {} THEN <<>>
         ELSE IF s[Max(d)] \in gone THEN f[d \ {Max(d)}]
                                    ELSE Append(f[d \ {Max(d)}], s[Max(d)])]

LEMMA WithoutIsFilters ==
  ASSUME NEW S, NEW s \in Seq(S), NEW gone
  PROVE  Without(s, gone) = (CHOOSE f : Filters(f, s, gone))[DOMAIN s]
BY DEF Without, FoldLeft, MapThenFoldSet, Filters, Max

(* A set of numbers has a least one.                                       *)
LEMMA MinIsMember ==
  ASSUME NEW d, d \subseteq Nat, d # {}
  PROVE  Min(d) \in d /\ \A n \in d : Min(d) <= n
<1>1. \E m \in d : \A n \in d : m <= n
  BY LeastNat
<1> QED
  BY <1>1, Zenon DEF Min

(* The function exists: one for the sets of at most n positions, by n.     *)
LEMMA FiltersExist ==
  ASSUME NEW S, NEW s \in Seq(S), NEW gone
  PROVE  \E f : Filters(f, s, gone)
<1> DEFINE D == DOMAIN s
           Small(n) == {d \in SUBSET D : Cardinality(d) <= n}
           Rec(f, d) == IF d = {} THEN <<>>
                        ELSE IF s[Max(d)] \in gone THEN f[d \ {Max(d)}]
                             ELSE Append(f[d \ {Max(d)}], s[Max(d)])
           T == {n \in Nat : \E f : f = [d \in Small(n) |-> Rec(f, d)]}
<1>1. IsFiniteSet(D) /\ D \subseteq Nat
  BY Positions
<1>2. ASSUME NEW d \in SUBSET D
      PROVE  IsFiniteSet(d) /\ Cardinality(d) \in Nat
  BY <1>1, FS_Subset, FS_CardinalityType
<1>3. ASSUME NEW d \in SUBSET D, d # {}
      PROVE  /\ d \ {Max(d)} \in SUBSET D
             /\ Cardinality(d \ {Max(d)}) = Cardinality(d) - 1
  <2>1. IsFiniteSet(d) /\ d \subseteq Nat /\ Max(d) \in d
    BY <1>1, <1>2, <1>3, MaxIsMember
  <2> QED
    BY <2>1, FS_RemoveElement
<1> HIDE DEF Rec, D
<1>4. 0 \in T
  <2>1. ASSUME NEW d \in Small(0) PROVE d = {}
    BY <1>2, FS_EmptySet
  <2> DEFINE f == [d \in Small(0) |-> <<>>]
  <2>2. \A d \in Small(0) : Rec(f, d) = <<>>
    BY <2>1 DEF Rec
  <2>3. f = [d \in Small(0) |-> Rec(f, d)]
    BY <2>2
  <2> QED
    BY <2>3
<1>5. ASSUME NEW n \in Nat, n \in T PROVE n + 1 \in T
  <2>1. PICK f : f = [d \in Small(n) |-> Rec(f, d)]
    BY <1>5
  <2>2. PICK g : g = [d \in Small(n + 1) |-> Rec(f, d)]
    OBVIOUS
  <2>3. Small(n) \subseteq Small(n + 1)
    <3>1. ASSUME NEW d \in Small(n) PROVE Cardinality(d) <= n + 1
      <4>1. Cardinality(d) \in Nat /\ Cardinality(d) <= n
        BY <1>2
      <4> QED
        BY <4>1
    <3> QED
      BY <3>1
  <2> HIDE DEF Small
  <2>4. \A d \in Small(n) : g[d] = f[d]
    BY <2>1, <2>2, <2>3
  <2>5. ASSUME NEW d \in Small(n + 1) PROVE Rec(g, d) = Rec(f, d)
    <3>1. CASE d = {}
      BY <3>1 DEF Rec
    <3>2. CASE d # {}
      <4>1. d \in SUBSET D /\ Cardinality(d) <= n + 1 /\ Cardinality(d) \in Nat
        BY <1>2 DEF Small
      <4>2. d \ {Max(d)} \in Small(n)
        BY <1>3, <3>2, <4>1 DEF Small
      <4>3. g[d \ {Max(d)}] = f[d \ {Max(d)}]
        BY <2>4, <4>2
      <4> QED
        BY <4>3 DEF Rec
    <3> QED
      BY <3>1, <3>2
  <2>6. [d \in Small(n + 1) |-> Rec(f, d)] = [d \in Small(n + 1) |-> Rec(g, d)]
    BY <2>5
  <2> QED
    BY <2>2, <2>6
<1>6. D \in SUBSET D /\ Cardinality(D) \in Nat
  BY <1>2
<1>7. Cardinality(D) \in T
  <2>1. Nat \subseteq T
    BY <1>4, <1>5, NatInduct
  <2> QED
    BY <1>6, <2>1
<1>8. Small(Cardinality(D)) = SUBSET D
  BY <1>1, FS_Subset
<1>9. PICK f : f = [d \in SUBSET D |-> Rec(f, d)]
  BY <1>7, <1>8
<1> QED
  BY <1>9 DEF Filters, Rec, D

(* The keys in keys that are not in gone, in their order                   *)
LEMMA AppendProps ==
  ASSUME NEW S, NEW t \in Seq(S), NEW x \in S
  PROVE  /\ Append(t, x) \in Seq(S) /\ Len(Append(t, x)) = Len(t) + 1
         /\ Append(t, x)[Len(t) + 1] = x
         /\ \A i \in 1..Len(t) : Append(t, x)[i] = t[i]
         /\ ToSet(Append(t, x)) = ToSet(t) \union {x}
<1>1. /\ Append(t, x) \in Seq(S) /\ Len(Append(t, x)) = Len(t) + 1
      /\ Append(t, x)[Len(t) + 1] = x
      /\ \A i \in 1..Len(t) : Append(t, x)[i] = t[i]
      /\ Len(t) \in Nat
  BY AppendProperties, LenProperties
<1>2. /\ ToSet(Append(t, x)) = {Append(t, x)[i] : i \in 1..Len(t) + 1}
      /\ ToSet(t) = {t[i] : i \in 1..Len(t)}
  BY <1>1, ToSetFacts
<1>3. 1..Len(t) + 1 = 1..Len(t) \union {Len(t) + 1}
  BY <1>1
<1> HIDE DEF ToSet
<1>4. {Append(t, x)[i] : i \in 1..Len(t) + 1} = {t[i] : i \in 1..Len(t)} \union {x}
  BY <1>1, <1>3
<1> QED
  BY <1>1, <1>2, <1>4

(* A key used later than all the others comes last.                        *)
LEMMA AppendSorted ==
  ASSUME NEW S, NEW t \in Seq(S), NEW x \in S, NEW u,
         Sorted(t, u), \A y \in ToSet(t) : u[y] < u[x]
  PROVE  Sorted(Append(t, x), u)
<1>1. /\ Len(Append(t, x)) = Len(t) + 1 /\ Len(t) \in Nat
      /\ Append(t, x)[Len(t) + 1] = x
      /\ \A i \in 1..Len(t) : Append(t, x)[i] = t[i] /\ t[i] \in ToSet(t)
  BY AppendProps, ToSetFacts
<1> SUFFICES ASSUME NEW i \in 1..Len(t) + 1, NEW j \in 1..Len(t) + 1, i < j
             PROVE  u[Append(t, x)[i]] < u[Append(t, x)[j]]
  BY <1>1 DEF Sorted
<1>2. i \in 1..Len(t)
  BY <1>1
<1>3. CASE j \in 1..Len(t)
  BY <1>1, <1>2, <1>3 DEF Sorted
<1>4. CASE j = Len(t) + 1
  BY <1>1, <1>2, <1>4
<1> QED
  BY <1>1, <1>3, <1>4

(* Without takes out the keys it should, and keeps the order.              *)
LEMMA WithoutProps ==
  ASSUME NEW S, NEW s \in Seq(S), NEW gone, NEW u, Sorted(s, u)
  PROVE  LET t == Without(s, gone)
         IN  /\ t \in Seq(S) /\ Len(t) <= Len(s)
             /\ ToSet(t) = ToSet(s) \ gone
             /\ Sorted(t, u)
<1> DEFINE f == CHOOSE f : Filters(f, s, gone)
           N == Len(s)
           Up(n) == {s[i] : i \in 1..n}
           Good(n) == /\ f[1..n] \in Seq(S) /\ Len(f[1..n]) <= n
                      /\ ToSet(f[1..n]) = Up(n) \ gone
                      /\ Sorted(f[1..n], u)
           T == {n \in Nat : n <= N => Good(n)}
<1>1. Filters(f, s, gone)
  BY FiltersExist, Zenon
<1>2. N \in Nat /\ DOMAIN s = 1..N /\ \A i \in 1..N : s[i] \in S
  BY Positions, ElementOfSeq
<1> HIDE DEF f
<1>3. 0 \in T
  <2>1. 1..0 = {} /\ {} \in SUBSET DOMAIN s
    OBVIOUS
  <2>2. f[1..0] = <<>>
    BY <1>1, <2>1 DEF Filters
  <2>3. Up(0) = {} /\ ToSet(<<>>) = {} /\ <<>> \in Seq(S) /\ Len(<<>>) = 0
    BY <2>1 DEF ToSet
  <2>4. Sorted(<<>>, u)
    BY DEF Sorted
  <2> HIDE DEF Up
  <2>5. Good(0)
    BY <2>2, <2>3, <2>4
  <2> HIDE DEF Good
  <2> QED
    BY <2>5
<1>4. ASSUME NEW n \in Nat, n \in T PROVE n + 1 \in T
  <2> HIDE DEF Good
  <2> SUFFICES ASSUME n + 1 <= N PROVE Good(n + 1)
    OBVIOUS
  <2> DEFINE d == 1..n + 1
             x == s[n + 1]
             t == f[1..n]
  <2>1. Good(n) /\ x \in S
    BY <1>2, <1>4
  <2> USE DEF Good
  <2>2. /\ d \in SUBSET DOMAIN s /\ d # {} /\ d \ {n + 1} = 1..n
        /\ d \subseteq Nat /\ n + 1 \in d
    <3>1. 1..n + 1 \subseteq 1..N
      BY <1>2
    <3>2. (1..n + 1) \ {n + 1} = 1..n /\ 1..n + 1 \subseteq Nat /\ n + 1 \in 1..n + 1
      OBVIOUS
    <3>3. d \subseteq DOMAIN s
      BY <1>2, <3>1
    <3> QED
      BY <3>2, <3>3
  <2>3. Max(d) = n + 1
    <3>1. IsFiniteSet(d)
      <4>1. IsFiniteSet(1..N)
        BY Positions
      <4> QED
        BY <1>2, <2>2, <4>1, FS_Subset
    <3>2. Max(d) \in d /\ \A m \in d : m <= Max(d)
      BY <2>2, <3>1, MaxIsMember
    <3> QED
      BY <2>2, <3>2
  <2>4. f[d] = IF x \in gone THEN t ELSE Append(t, x)
    BY <1>1, <2>2, <2>3 DEF Filters
  <2>5. Up(n + 1) = Up(n) \union {x}
    <3>1. 1..n + 1 = 1..n \union {n + 1}
      OBVIOUS
    <3> QED
      BY <3>1
  <2> HIDE DEF t, x, d
  <2>6. CASE x \in gone
    <3>1. f[d] = t /\ Up(n + 1) \ gone = Up(n) \ gone
      BY <2>4, <2>5, <2>6
    <3>2. Len(t) \in Nat /\ Len(t) <= n
      BY <2>1, LenProperties DEF t
    <3> HIDE DEF Up
    <3> QED
      BY <2>1, <3>1, <3>2 DEF t, d
  <2>7. CASE x \notin gone
    <3>1. f[d] = Append(t, x) /\ Up(n + 1) \ gone = (Up(n) \ gone) \union {x}
      BY <2>4, <2>5, <2>7
    <3>2. /\ t \in Seq(S) /\ Len(t) \in Nat /\ Len(t) <= n
          /\ ToSet(t) = Up(n) \ gone /\ Sorted(t, u)
      BY <2>1, LenProperties DEF t
    <3>3. \A y \in Up(n) : u[y] < u[x]
      BY <1>2 DEF Sorted, x
    <3> HIDE DEF Up
    <3>4. /\ Append(t, x) \in Seq(S) /\ Len(Append(t, x)) = Len(t) + 1
          /\ ToSet(Append(t, x)) = ToSet(t) \union {x}
      BY <2>1, <3>2, AppendProps
    <3>5. Sorted(Append(t, x), u)
      BY <2>1, <3>2, <3>3, AppendSorted
    <3> QED
      BY <3>1, <3>2, <3>4, <3>5 DEF d
  <2> QED
    BY <2>6, <2>7
<1>5. N \in T
  <2>1. Nat \subseteq T
    BY <1>3, <1>4, NatInduct
  <2> QED
    BY <1>2, <2>1
<1>6. Without(s, gone) = f[1..N]
  BY <1>2, WithoutIsFilters DEF f
<1>7. ToSet(s) = Up(N)
  BY ToSetFacts
<1> QED
  BY <1>5, <1>6, <1>7

(* The first n                                                             *)
LEMMA HeadSet ==
  ASSUME NEW S, NEW s \in Seq(S), NEW n \in 0..Len(s)
  PROVE  ToSet(SubSeq(s, 1, n)) = {s[i] : i \in 1..n}
<1> DEFINE head == SubSeq(s, 1, n)
<1>1. Len(s) \in Nat /\ \A i \in 1..Len(s) : s[i] \in S
  BY Positions, ElementOfSeq
<1>2. /\ head \in Seq(S) /\ Len(head) = n
      /\ \A i \in 1..n : head[i] = s[i]
  BY <1>1, SubSeqProperties
<1> HIDE DEF head
<1>3. ToSet(head) = {head[i] : i \in 1..n}
  BY <1>2, ToSetFacts
<1>4. ToSet(head) = {s[i] : i \in 1..n}
  BY <1>2, <1>3
<1> QED
  BY <1>4 DEF head

(* A sorted sequence cut in two: the parts share no key, and the first has *)
(* the keys used longest ago.                                              *)
LEMMA CutProps ==
  ASSUME NEW S, NEW s \in Seq(S), NEW u \in [S -> Nat], Sorted(s, u),
         NEW n \in 0..Len(s)
  PROVE  LET head == SubSeq(s, 1, n)
             tail == SubSeq(s, n + 1, Len(s))
         IN  /\ tail \in Seq(S) /\ Len(tail) = Len(s) - n
             /\ ToSet(head) = {s[i] : i \in 1..n}
             /\ ToSet(tail) = {s[i] : i \in n + 1..Len(s)}
             /\ ToSet(tail) = ToSet(s) \ ToSet(head)
             /\ Sorted(tail, u)
             /\ \A x \in ToSet(head), y \in ToSet(tail) : u[x] < u[y]
<1> DEFINE head == SubSeq(s, 1, n)
           tail == SubSeq(s, n + 1, Len(s))
           N == Len(s)
<1>1. N \in Nat /\ DOMAIN s = 1..N /\ \A i \in 1..N : s[i] \in S
  BY Positions, ElementOfSeq
<1>2. /\ head \in Seq(S) /\ Len(head) = n
      /\ \A i \in 1..n : head[i] = s[i]
  BY <1>1, SubSeqProperties
<1>3. /\ tail \in Seq(S) /\ Len(tail) = N - n
      /\ \A i \in 1..N - n : tail[i] = s[n + i]
  <2>1. \A i \in n + 1..N : s[i] \in S
    BY <1>1
  <2>2. /\ tail \in Seq(S)
        /\ Len(tail) = IF n + 1 <= N THEN N - (n + 1) + 1 ELSE 0
        /\ \A i \in 1..N - (n + 1) + 1 : tail[i] = s[(n + 1) + i - 1]
    BY <1>1, <2>1, SubSeqProperties
  <2>3. N - (n + 1) + 1 = N - n /\ \A i \in 1..N - n : (n + 1) + i - 1 = n + i
    BY <1>1
  <2> HIDE DEF tail
  <2>4. Len(tail) = N - n
    <3>1. N \in Nat /\ n \in Nat /\ n <= N
      BY <1>1
    <3> HIDE DEF N
    <3> QED
      BY <2>2, <3>1
  <2>5. ASSUME NEW i \in 1..N - n PROVE tail[i] = s[n + i]
    BY <2>2, <2>3
  <2> QED
    BY <2>2, <2>4, <2>5
<1> HIDE DEF head, tail
<1>4. ToSet(head) = {s[i] : i \in 1..n}
  BY HeadSet DEF head
<1>5. ToSet(tail) = {s[i] : i \in n + 1..N}
  <2>1. ToSet(tail) = {tail[i] : i \in 1..N - n}
    BY <1>3, ToSetFacts
  <2>2. ASSUME NEW i \in 1..N - n
        PROVE  n + i \in n + 1..N /\ tail[i] = s[n + i]
    BY <1>1, <1>3
  <2>3. ASSUME NEW i \in n + 1..N
        PROVE  i - n \in 1..N - n /\ tail[i - n] = s[i]
    <3>1. i - n \in 1..N - n /\ n + (i - n) = i
      BY <1>1
    <3> QED
      BY <1>3, <3>1
  <2>4. {tail[i] : i \in 1..N - n} \subseteq {s[i] : i \in n + 1..N}
    <3> SUFFICES ASSUME NEW i \in 1..N - n PROVE tail[i] \in {s[j] : j \in n + 1..N}
      OBVIOUS
    <3> QED
      BY <2>2
  <2>5. {s[i] : i \in n + 1..N} \subseteq {tail[i] : i \in 1..N - n}
    <3> SUFFICES ASSUME NEW i \in n + 1..N PROVE s[i] \in {tail[j] : j \in 1..N - n}
      OBVIOUS
    <3>1. i - n \in 1..N - n /\ s[i] = tail[i - n]
      BY <2>3
    <3> QED
      BY <3>1
  <2> QED
    BY <2>1, <2>4, <2>5
<1>6. \A x \in ToSet(head), y \in ToSet(tail) : u[x] < u[y]
  <2> SUFFICES ASSUME NEW i \in 1..n, NEW j \in n + 1..N
               PROVE  u[s[i]] < u[s[j]]
    BY <1>4, <1>5
  <2>1. i \in 1..N /\ j \in 1..N /\ i < j
    BY <1>1
  <2> QED
    BY <2>1 DEF Sorted
<1>7. ToSet(tail) = ToSet(s) \ ToSet(head)
  <2>1. 1..N = 1..n \union n + 1..N
    BY <1>1
  <2>2. ToSet(s) = ToSet(head) \union ToSet(tail)
    BY <1>4, <1>5, <2>1, ToSetFacts
  <2>3. ToSet(head) \subseteq S
    BY <1>2, ToSetFacts
  <2>4. \A x \in ToSet(head) : u[x] \in Nat
    BY <2>3
  <2>5. \A x \in ToSet(head) : x \notin ToSet(tail)
    BY <1>6, <2>4
  <2> QED
    BY <2>2, <2>5
<1>8. Sorted(tail, u)
  <2> SUFFICES ASSUME NEW i \in 1..N - n, NEW j \in 1..N - n, i < j
               PROVE  u[tail[i]] < u[tail[j]]
    BY <1>3 DEF Sorted
  <2>1. n + i \in 1..N /\ n + j \in 1..N /\ n + i < n + j
    BY <1>1
  <2>2. u[s[n + i]] < u[s[n + j]]
    BY <2>1 DEF Sorted
  <2> QED
    BY <1>3, <2>2
<1> QED
  BY <1>3, <1>4, <1>5, <1>6, <1>7, <1>8 DEF head, tail

-----------------------------------------------------------------------------
(* The operators of the cache                                              *)

LEMMA TotalIsSum ==
  ASSUME NEW w, NEW S
  PROVE  Total(w, S) = SumOf(w, S)
BY DEF Total, SumOf

(* The cache holds finitely many chunks, of known lengths.                 *)
LEMMA PresentFacts ==
  ASSUME TypeOK
  PROVE  /\ Present \subseteq Keys /\ IsFiniteSet(Present)
         /\ \A x \in Present : size[x] \in Nat
         /\ BytesOf(Present) = SumOf(size, Present)
<1>1. Present \subseteq Keys /\ IsFiniteSet(Present)
  BY ToSetFacts DEF TypeOK, Present
<1>2. BytesOf(Present) = SumOf(size, Present)
  BY TotalIsSum DEF BytesOf
<1> QED
  BY <1>1, <1>2 DEF TypeOK

(* The chunk that is used comes last, and nothing else is moved.           *)
LEMMA TouchedProps ==
  ASSUME TypeOK, OrderInv, NEW k \in Keys
  PROVE  LET u == [lastUse EXCEPT ![k] = calls + 1]
         IN  /\ u \in [Keys -> Nat] /\ \A x \in Keys \ {k} : u[x] = lastUse[x]
             /\ Touched(k) \in Seq(Keys) /\ Sorted(Touched(k), u)
             /\ ToSet(Touched(k)) = Present \union {k}
<1> DEFINE u == [lastUse EXCEPT ![k] = calls + 1]
           t == Without(order, {k})
<1>1. /\ order \in Seq(Keys) /\ Sorted(order, lastUse)
      /\ lastUse \in [Keys -> Nat] /\ calls \in Nat
      /\ \A x \in Keys : lastUse[x] <= calls
  BY LimitsAssumption DEF TypeOK, OrderInv
<1>2. /\ u \in [Keys -> Nat] /\ u[k] = calls + 1
      /\ \A x \in Keys \ {k} : u[x] = lastUse[x]
  BY <1>1
<1>3. /\ t \in Seq(Keys) /\ ToSet(t) = Present \ {k}
      /\ Sorted(t, lastUse)
  BY <1>1, WithoutProps DEF Present
<1> HIDE DEF u, t
<1>4. ToSet(t) \subseteq Keys /\ Len(t) \in Nat /\ \A i \in 1..Len(t) : t[i] \in ToSet(t)
  BY <1>3, ToSetFacts
<1>5. Sorted(t, u)
  <2>1. \A i \in 1..Len(t) : u[t[i]] = lastUse[t[i]]
    BY <1>2, <1>3, <1>4
  <2> QED
    BY <1>3, <2>1 DEF Sorted
<1>6. \A y \in ToSet(t) : u[y] < u[k]
  <2> SUFFICES ASSUME NEW y \in ToSet(t) PROVE u[y] < u[k]
    OBVIOUS
  <2>1. y \in Keys \ {k}
    BY <1>3, <1>4
  <2>2. u[y] \in Nat /\ u[y] <= calls
    BY <1>1, <1>2, <2>1
  <2> QED
    BY <1>1, <1>2, <2>2
<1>7. Touched(k) = Append(t, k)
  BY DEF Touched, t
<1>8. Append(t, k) \in Seq(Keys) /\ ToSet(Append(t, k)) = ToSet(t) \union {k}
  BY <1>3, AppendProps
<1>9. Sorted(Append(t, k), u)
  BY <1>3, <1>5, <1>6, AppendSorted
<1> QED
  BY <1>2, <1>3, <1>7, <1>8, <1>9 DEF u

(* What is left of a cache that went over its limits                       *)
Fits(all, length, total, n) ==
  /\ Len(all) - n <= MaxChunks
  /\ total - SumOf(length, ToSet(SubSeq(all, 1, n))) <= MaxBytes

(* The fewest that have to go                                              *)
LEMMA EvictionsProps ==
  ASSUME NEW S, NEW all \in Seq(S), NEW length, NEW total
  PROVE  LET n == Evictions(all, length, total)
         IN  /\ n \in 0..Len(all)
             /\ n = Len(all) \/ Fits(all, length, total, n)
             /\ \A m \in 0..Len(all) : m < n => ~Fits(all, length, total, m)
<1> DEFINE d == {n \in 0..Len(all) : n = Len(all) \/ Fits(all, length, total, n)}
<1>1. Evictions(all, length, total) = Min(d)
  BY TotalIsSum DEF Evictions, Fits
<1>2. Len(all) \in Nat
  BY LenProperties
<1>3. d \subseteq Nat /\ Len(all) \in d
  BY <1>2
<1>4. Min(d) \in d /\ \A n \in d : Min(d) <= n
  BY <1>3, MinIsMember
<1>5. \A m \in 0..Len(all) : m < Min(d) => ~Fits(all, length, total, m)
  <2> SUFFICES ASSUME NEW m \in 0..Len(all), m < Min(d), Fits(all, length, total, m)
               PROVE  FALSE
    OBVIOUS
  <2>1. m \in d /\ m \in Nat /\ Min(d) \in Nat
    BY <1>3, <1>4
  <2>2. Min(d) <= m
    BY <1>4, <2>1
  <2> HIDE DEF d
  <2> QED
    BY <2>1, <2>2
<1> QED
  BY <1>1, <1>4, <1>5

(* The bytes with the new chunk in the place of the old one are counted    *)
(* right, before anything is evicted.                                      *)
LEMMA NewTotal ==
  ASSUME TypeOK, BytesExact, NEW k \in Keys, NEW length \in Nat
  PROVE  LET lengths == [size EXCEPT ![k] = length]
         IN  bytes - OldSize(k) + length = SumOf(lengths, Present \union {k})
<1> DEFINE lengths == [size EXCEPT ![k] = length]
           A == Present \ {k}
           B == Present \union {k}
<1>1. /\ lengths \in [Keys -> Nat] /\ lengths[k] = length
      /\ \A x \in Keys \ {k} : lengths[x] = size[x]
      /\ size \in [Keys -> Nat] /\ bytes \in Nat
  BY DEF TypeOK
<1>2. Present \subseteq Keys /\ IsFiniteSet(Present) /\ bytes = SumOf(size, Present)
  BY PresentFacts DEF BytesExact
<1> HIDE DEF lengths
<1>3. A \subseteq Keys \ {k} /\ IsFiniteSet(A) /\ B \subseteq Keys /\ IsFiniteSet(B)
  BY <1>2, FS_Subset, FS_AddElement
<1>4. SumOf(lengths, A) = SumOf(size, A) /\ SumOf(size, A) \in Nat
  <2>1. \A x \in A : lengths[x] = size[x] /\ size[x] \in Nat
    BY <1>1, <1>3
  <2> QED
    BY <1>3, <2>1, SumSame, SumInNat
<1>5. SumOf(lengths, B) = length + SumOf(lengths, A)
  <2>1. \A x \in B : lengths[x] \in Nat
    BY <1>1, <1>3
  <2>2. k \in B /\ B \ {k} = A
    OBVIOUS
  <2> HIDE DEF A, B
  <2>3. SumOf(lengths, B) = lengths[k] + SumOf(lengths, B \ {k})
    BY <1>3, <2>1, <2>2, SumSplit
  <2> QED
    BY <1>1, <2>2, <2>3
<1>6. bytes - OldSize(k) = SumOf(size, A)
  <2>1. CASE k \in Present
    <3>1. \A x \in Present : size[x] \in Nat
      BY <1>1, <1>2
    <3>2. SumOf(size, Present) = size[k] + SumOf(size, A)
      BY <1>2, <2>1, <3>1, SumSplit
    <3>3. size[k] \in Nat /\ OldSize(k) = size[k]
      BY <1>1, <2>1 DEF OldSize
    <3> HIDE DEF A
    <3> QED
      BY <1>1, <1>2, <1>4, <3>2, <3>3
  <2>2. CASE k \notin Present
    <3>1. A = Present
      BY <2>2
    <3>2. OldSize(k) = 0 /\ bytes = SumOf(size, A)
      BY <1>2, <2>2, <3>1 DEF OldSize
    <3> HIDE DEF A
    <3> QED
      BY <1>1, <3>2
  <2> QED
    BY <2>1, <2>2
<1> QED
  BY <1>4, <1>5, <1>6 DEF lengths

-----------------------------------------------------------------------------
(* put: what is left, and that no more was evicted than had to be          *)

LEMMA PutProps ==
  ASSUME IInv, NEW k \in Keys, NEW length \in Nat, NEW p, Put(k, length, p)
  PROVE  LET all == Touched(k)
             lengths == [size EXCEPT ![k] = length]
             total == SumOf(lengths, ToSet(all))
             n == Evictions(all, lengths, total)
             gone == ToSet(SubSeq(all, 1, n))
         IN  /\ order' = SubSeq(all, n + 1, Len(all))
             /\ bytes' = total - SumOf(lengths, gone)
             /\ size' = [g \in Keys |-> IF g \in gone THEN 0 ELSE lengths[g]]
             /\ prefetched' = (IF p THEN prefetched \union {k}
                                    ELSE prefetched \ {k}) \ gone
             /\ calls < MaxCalls /\ calls' = calls + 1
             /\ lastUse' = [lastUse EXCEPT ![k] = calls + 1]
<1>1. bytes - OldSize(k) + length
        = SumOf([size EXCEPT ![k] = length], Present \union {k})
  BY NewTotal DEF IInv
<1>2. ToSet(Touched(k)) = Present \union {k}
  BY TouchedProps DEF IInv
<1> DEFINE all == Touched(k)
           lengths == [size EXCEPT ![k] = length]
           total == bytes - OldSize(k) + length
           n == Evictions(all, lengths, total)
           gone == ToSet(SubSeq(all, 1, n))
<1>3. /\ order' = SubSeq(all, n + 1, Len(all))
      /\ bytes' = total - Total(lengths, gone)
      /\ size' = [g \in Keys |-> IF g \in gone THEN 0 ELSE lengths[g]]
      /\ prefetched' = (IF p THEN prefetched \union {k} ELSE prefetched \ {k}) \ gone
      /\ calls < MaxCalls /\ calls' = calls + 1
      /\ lastUse' = [lastUse EXCEPT ![k] = calls + 1]
  BY DEF Put, Call, Marks
<1>4. total = SumOf(lengths, ToSet(all))
  BY <1>1, <1>2
<1>5. Total(lengths, gone) = SumOf(lengths, gone)
  BY TotalIsSum
<1> HIDE DEF all, lengths, total
<1> QED
  BY <1>3, <1>4, <1>5 DEF all, lengths

(* After a put the cache holds what its bytes say, within the limits.      *)
LEMMA PutKeeps ==
  ASSUME IInv, NEW k \in Keys, NEW length \in Nat, NEW p, Put(k, length, p)
  PROVE  IInv'
<1> DEFINE all == Touched(k)
           lengths == [size EXCEPT ![k] = length]
           total == SumOf(lengths, ToSet(all))
           n == Evictions(all, lengths, total)
           gone == ToSet(SubSeq(all, 1, n))
           left == ToSet(all) \ gone
           u == [lastUse EXCEPT ![k] = calls + 1]
<1>1. /\ order' = SubSeq(all, n + 1, Len(all))
      /\ bytes' = total - SumOf(lengths, gone)
      /\ size' = [g \in Keys |-> IF g \in gone THEN 0 ELSE lengths[g]]
      /\ prefetched' = (IF p THEN prefetched \union {k} ELSE prefetched \ {k}) \ gone
      /\ calls < MaxCalls /\ calls' = calls + 1
      /\ lastUse' = u
  BY PutProps
<1>2. /\ u \in [Keys -> Nat]
      /\ all \in Seq(Keys) /\ Sorted(all, u)
      /\ ToSet(all) = Present \union {k}
  BY TouchedProps DEF IInv
<1>3. /\ n \in 0..Len(all)
      /\ n = Len(all) \/ Fits(all, lengths, total, n)
  BY <1>2, EvictionsProps
<1>4. lengths \in [Keys -> Nat]
  BY DEF IInv, TypeOK
<1>5. /\ prefetched \subseteq Present /\ calls \in 0..MaxCalls
      /\ lastUse \in [Keys -> 0..MaxCalls] /\ MaxCalls \in Nat
      /\ MaxChunks \in Nat /\ MaxBytes \in Nat
      /\ \A x \in Keys : lastUse[x] <= calls
  BY LimitsAssumption DEF IInv, TypeOK, MarksPresent, OrderInv
<1> HIDE DEF all, lengths, n, u
<1>6. /\ order' \in Seq(Keys) /\ Len(order') = Len(all) - n
      /\ ToSet(order') = left
      /\ Sorted(order', u)
      /\ ToSet(SubSeq(all, 1, n)) = {all[i] : i \in 1..n}
  BY <1>1, <1>2, <1>3, CutProps
<1>7. /\ ToSet(all) \subseteq Keys /\ IsFiniteSet(ToSet(all)) /\ Len(all) \in Nat
      /\ ToSet(all) = {all[i] : i \in 1..Len(all)}
  BY <1>2, ToSetFacts
<1>8. gone \subseteq ToSet(all)
  BY <1>3, <1>6, <1>7
<1>9. Present' = left
  BY <1>6 DEF Present
<1> HIDE DEF gone
<1>10. TypeOK'
  <2>1. prefetched' \subseteq Keys
    BY <1>1, <1>2, <1>5, <1>7
  <2>2. size' \in [Keys -> Nat]
    BY <1>1, <1>4
  <2>3. bytes' \in Nat
    <3>1. \A x \in ToSet(all) : lengths[x] \in Nat
      BY <1>4, <1>7
    <3> QED
      BY <1>1, <1>7, <1>8, <3>1, SumWithout
  <2>4. calls' \in 0..MaxCalls /\ lastUse' \in [Keys -> 0..MaxCalls]
    BY <1>1, <1>5 DEF u
  <2> QED
    BY <1>6, <2>1, <2>2, <2>3, <2>4 DEF TypeOK
<1>11. OrderInv'
  <2>1. \A x \in Keys : lastUse'[x] <= calls'
    BY <1>1, <1>5 DEF u
  <2> QED
    BY <1>1, <1>6, <2>1 DEF OrderInv
<1>12. bytes' = SumOf(size', left) /\ bytes' = total - SumOf(lengths, gone)
  <2>1. \A x \in ToSet(all) : lengths[x] \in Nat
    BY <1>4, <1>7
  <2>2. SumOf(lengths, left) = total - SumOf(lengths, gone)
    BY <1>7, <1>8, <2>1, SumWithout
  <2>3. IsFiniteSet(left) /\ \A x \in left : size'[x] = lengths[x]
    <3>1. left \subseteq ToSet(all) /\ left \subseteq Keys
      BY <1>7
    <3>2. IsFiniteSet(left)
      BY <1>7, <3>1, FS_Subset
    <3>3. \A x \in left : size'[x] = lengths[x]
      BY <1>1, <3>1
    <3> QED
      BY <3>2, <3>3
  <2>4. SumOf(size', left) = SumOf(lengths, left)
    BY <2>3, SumSame
  <2> QED
    BY <1>1, <2>2, <2>4
<1>13. BytesOf(Present)' = SumOf(size', left)
  BY <1>9, TotalIsSum DEF BytesOf
<1>14. BytesExact'
  BY <1>12, <1>13 DEF BytesExact
<1>15. Len(order') <= MaxChunks /\ bytes' <= MaxBytes
  <2>1. CASE n = Len(all)
    <3>1. gone = ToSet(all)
      BY <1>6, <1>7, <2>1 DEF gone
    <3>2. left = {}
      BY <3>1
    <3>3. bytes' = 0
      BY <1>12, <3>2, SumEmpty
    <3> QED
      BY <1>5, <1>6, <1>7, <2>1, <3>3
  <2>2. CASE Fits(all, lengths, total, n)
    BY <1>6, <1>12, <2>2 DEF Fits, gone
  <2> QED
    BY <1>3, <2>1, <2>2
<1>16. WithinLimits'
  BY <1>12, <1>13, <1>15 DEF WithinLimits
<1>17. MarksPresent'
  <2>1. prefetched' \subseteq left
    BY <1>1, <1>2, <1>5
  <2> QED
    BY <1>9, <2>1 DEF MarksPresent
<1> QED
  BY <1>10, <1>11, <1>14, <1>16, <1>17 DEF IInv

(* Of the chunks that a put of k took out: each was used before everything *)
(* that stays, and the last of them had to go.                             *)
OldestGo(k) ==
  LET kept == Present'
      gone == (Present \ kept) \ {k}
  IN  \A g \in gone :
        /\ \A h \in kept : lastUse[g] < lastUse'[h]
        /\ k \in kept /\ (\A h \in gone : lastUse[g] >= lastUse[h]) =>
             \/ Cardinality(kept) = MaxChunks
             \/ BytesOf(Present)' + size[g] > MaxBytes

LEMMA PutEvicts ==
  ASSUME IInv, NEW k \in Keys, NEW length \in Nat, NEW p, Put(k, length, p)
  PROVE  OldestGo(k)
<1> DEFINE all == Touched(k)
           lengths == [size EXCEPT ![k] = length]
           total == SumOf(lengths, ToSet(all))
           n == Evictions(all, lengths, total)
           head == ToSet(SubSeq(all, 1, n))
           u == [lastUse EXCEPT ![k] = calls + 1]
           others == (Present \ Present') \ {k}
<1>1. /\ order' = SubSeq(all, n + 1, Len(all))
      /\ bytes' = total - SumOf(lengths, head)
      /\ lastUse' = u
  BY PutProps
<1>2. /\ u \in [Keys -> Nat] /\ \A x \in Keys \ {k} : u[x] = lastUse[x]
      /\ all \in Seq(Keys) /\ Sorted(all, u)
      /\ ToSet(all) = Present \union {k}
  BY TouchedProps DEF IInv
<1>3. /\ n \in 0..Len(all)
      /\ \A m \in 0..Len(all) : m < n => ~Fits(all, lengths, total, m)
  BY <1>2, EvictionsProps
<1>4. /\ lengths \in [Keys -> Nat] /\ \A x \in Keys \ {k} : lengths[x] = size[x]
  BY DEF IInv, TypeOK
<1>5. /\ BytesExact' /\ WithinLimits' /\ order' \in Seq(Keys) /\ Sorted(order', u)
      /\ MaxChunks \in Nat /\ MaxBytes \in Nat
  BY <1>1, PutKeeps, LimitsAssumption DEF IInv, TypeOK, OrderInv
<1> HIDE DEF all, lengths, n, u
<1>cut. \A m \in 0..Len(all) : ToSet(SubSeq(all, 1, m)) = {all[i] : i \in 1..m}
  <2> SUFFICES ASSUME NEW m \in 0..Len(all)
               PROVE  ToSet(SubSeq(all, 1, m)) = {all[i] : i \in 1..m}
    OBVIOUS
  <2> QED
    BY <1>2, HeadSet
<1>6. /\ Len(order') = Len(all) - n
      /\ ToSet(order') = ToSet(all) \ head
      /\ head = {all[i] : i \in 1..n}
      /\ \A x \in head, y \in ToSet(order') : u[x] < u[y]
  <2>1. /\ Len(SubSeq(all, n + 1, Len(all))) = Len(all) - n
        /\ ToSet(SubSeq(all, n + 1, Len(all))) = ToSet(all) \ ToSet(SubSeq(all, 1, n))
        /\ \A x \in ToSet(SubSeq(all, 1, n)), y \in ToSet(SubSeq(all, n + 1, Len(all))) :
              u[x] < u[y]
    <3>1. /\ all \in Seq(Keys) /\ u \in [Keys -> Nat] /\ Sorted(all, u)
          /\ n \in 0..Len(all)
      BY <1>2, <1>3
    <3> QED
      BY <3>1, CutProps
  <2>2. head = {all[i] : i \in 1..n}
    BY <1>3, <1>cut
  <2> QED
    BY <1>1, <2>1, <2>2
<1>7. /\ ToSet(all) \subseteq Keys /\ IsFiniteSet(ToSet(all)) /\ Len(all) \in Nat
      /\ ToSet(all) = {all[i] : i \in 1..Len(all)}
  BY <1>2, ToSetFacts
<1>8. Present' = ToSet(all) \ head /\ head \subseteq ToSet(all)
  BY <1>3, <1>6, <1>7 DEF Present
<1>9. others \subseteq head /\ \A g \in others : g \in Keys \ {k} /\ u[g] = lastUse[g]
  BY <1>2, <1>7, <1>8
<1> HIDE DEF head
<1> SUFFICES ASSUME NEW g \in others
             PROVE  /\ \A h \in Present' : lastUse[g] < lastUse'[h]
                    /\ k \in Present' /\ (\A h \in others : lastUse[g] >= lastUse[h]) =>
                         \/ Cardinality(Present') = MaxChunks
                         \/ BytesOf(Present)' + size[g] > MaxBytes
  BY DEF OldestGo
<1>10. \A h \in Present' : lastUse[g] < lastUse'[h]
  BY <1>1, <1>6, <1>8, <1>9
<1>11. ASSUME k \in Present', \A h \in others : lastUse[g] >= lastUse[h],
              Cardinality(Present') # MaxChunks
       PROVE  BytesOf(Present)' + size[g] > MaxBytes
  <2> HIDE DEF others
  <2>1. PICK i \in 1..n : g = all[i]
    BY <1>6, <1>9
  <2>2. n \in 1..Len(all) /\ n - 1 \in 0..Len(all) /\ n - 1 < n /\ all[n] \in head
    BY <1>3, <1>6, <1>7
  <2>3. all[n] \in others
    <3>1. all[n] \in Present \union {k} /\ all[n] \notin Present'
      BY <1>2, <1>8, <2>2
    <3>2. all[n] # k
      BY <1>11, <3>1
    <3> QED
      BY <3>1, <3>2 DEF others
  <2>4. g = all[n]
    <3> SUFFICES ASSUME i < n PROVE FALSE
      BY <2>1, <2>2
    <3>1. u[all[i]] < u[all[n]]
      BY <1>2, <1>3, <1>7, <2>2 DEF Sorted
    <3>2. u[g] = lastUse[g] /\ u[all[n]] = lastUse[all[n]] /\ lastUse[g] >= lastUse[all[n]]
      BY <1>9, <1>11, <2>3
    <3>3. u[g] \in Nat /\ u[all[n]] \in Nat
      BY <1>2, <1>9, <2>3
    <3> QED
      BY <2>1, <3>1, <3>2, <3>3
  <2>5. ~Fits(all, lengths, total, n - 1)
    BY <1>3, <2>2
  <2>6. Len(all) - (n - 1) <= MaxChunks
    <3>1. Cardinality(Present') = Len(order')
      BY <1>2, <1>5, SortedIsInjective DEF Present
    <3>2. Len(order') <= MaxChunks /\ Len(order') # MaxChunks
      BY <1>5, <1>11, <3>1 DEF WithinLimits
    <3>3. Len(all) - n <= MaxChunks /\ Len(all) - n # MaxChunks
      BY <1>6, <3>2
    <3> QED
      BY <1>3, <1>5, <1>7, <3>3
  <2>7. ToSet(SubSeq(all, 1, n - 1)) = head \ {g}
    <3>1. ToSet(SubSeq(all, 1, n - 1)) = {all[j] : j \in 1..n - 1}
      BY <1>cut, <2>2
    <3>2. \A j \in 1..n - 1 : all[j] # all[n]
      <4>1. \A a, b \in 1..Len(all) : all[a] = all[b] => a = b
        BY <1>2, SortedIsInjective
      <4>2. \A j \in 1..n - 1 : j \in 1..Len(all) /\ j # n
        BY <2>2, <1>7
      <4> QED
        BY <2>2, <4>1, <4>2
    <3>3. 1..n = 1..n - 1 \union {n}
      BY <2>2, <1>7
    <3> QED
      BY <1>6, <2>4, <3>1, <3>2, <3>3
  <2>8. \A x \in head : lengths[x] \in Nat
    BY <1>4, <1>7, <1>8
  <2>9. IsFiniteSet(head) /\ g \in head
    BY <1>7, <1>8, <1>9, FS_Subset
  <2>10. SumOf(lengths, head) = lengths[g] + SumOf(lengths, head \ {g})
    BY <2>8, <2>9, SumSplit
  <2>11. SumOf(lengths, head) \in Nat /\ total \in Nat
    <3>1. \A x \in ToSet(all) : lengths[x] \in Nat
      BY <1>4, <1>7
    <3> QED
      BY <1>7, <1>8, <3>1, SumWithout
  <2>12. lengths[g] = size[g] /\ lengths[g] \in Nat
    BY <1>4, <1>9
  <2> HIDE DEF total
  <2>13. ~(total - SumOf(lengths, head \ {g}) <= MaxBytes)
    BY <2>5, <2>6, <2>7 DEF Fits
  <2>14. BytesOf(Present)' = bytes'
    BY <1>5 DEF BytesExact
  <2>15. SumOf(lengths, head \ {g}) \in Int
    <3>1. IsFiniteSet(head \ {g}) /\ \A x \in head \ {g} : lengths[x] \in Nat
      BY <2>8, <2>9, FS_Subset
    <3> QED
      BY <3>1, SumInNat
  <2>16. bytes' = total - SumOf(lengths, head) /\ MaxBytes \in Nat
    BY <1>1, <1>5
  <2> HIDE DEF head
  <2> QED
    BY <2>10, <2>11, <2>12, <2>13, <2>14, <2>15, <2>16
<1> QED
  BY <1>10, <1>11

-----------------------------------------------------------------------------
(* The other calls                                                         *)

LEMMA GetKeeps ==
  ASSUME IInv, NEW k \in Keys, Get(k)
  PROVE  IInv' /\ Present' = Present
<1> DEFINE u == [lastUse EXCEPT ![k] = calls + 1]
<1>1. /\ k \in Present /\ order' = Touched(k) /\ prefetched' = prefetched \ {k}
      /\ size' = size /\ bytes' = bytes
      /\ calls < MaxCalls /\ calls' = calls + 1 /\ lastUse' = u
  BY DEF Get, Call
<1>2. /\ Touched(k) \in Seq(Keys) /\ Sorted(Touched(k), u)
      /\ ToSet(Touched(k)) = Present \union {k}
  BY TouchedProps DEF IInv
<1>3. Present' = Present
  BY <1>1, <1>2 DEF Present
<1>4. TypeOK'
  BY <1>1, <1>2, LimitsAssumption DEF IInv, TypeOK
<1>5. OrderInv'
  <2>1. \A x \in Keys : lastUse'[x] <= calls'
    BY <1>1 DEF IInv, TypeOK, OrderInv
  <2> QED
    BY <1>1, <1>2, <2>1 DEF OrderInv
<1>6. BytesOf(Present)' = BytesOf(Present)
  BY <1>1, <1>3 DEF BytesOf
<1>7. Len(order') <= MaxChunks
  <2>1. /\ order \in Seq(Keys) /\ Sorted(order, lastUse)
        /\ lastUse \in [Keys -> Nat] /\ Len(order) <= MaxChunks
    BY DEF IInv, TypeOK, OrderInv, WithinLimits
  <2>2. Cardinality(Present) = Len(order)
    BY <2>1, SortedIsInjective DEF Present
  <2>3. u \in [Keys -> Nat]
    BY DEF IInv, TypeOK
  <2>4. Cardinality(Present') = Len(order')
    BY <1>1, <1>2, <2>3, SortedIsInjective DEF Present
  <2> QED
    BY <1>3, <2>1, <2>2, <2>4
<1>8. BytesExact' /\ WithinLimits' /\ MarksPresent'
  BY <1>1, <1>3, <1>6, <1>7 DEF IInv, BytesExact, WithinLimits, MarksPresent
<1> QED
  BY <1>3, <1>4, <1>5, <1>8 DEF IInv

(* An invalidation takes the bytes and marks of what it removes.           *)
LEMMA InvalidateKeeps ==
  ASSUME IInv, NEW file, Invalidate(file)
  PROVE  IInv' /\ lastUse' = lastUse
<1> DEFINE gone == {k \in Present : Files[k] = file}
<1>1. /\ calls < MaxCalls /\ calls' = calls + 1
      /\ order' = Without(order, gone)
      /\ bytes' = bytes - BytesOf(gone)
      /\ size' = [k \in Keys |-> IF k \in gone THEN 0 ELSE size[k]]
      /\ prefetched' = prefetched \ gone /\ lastUse' = lastUse
  BY DEF Invalidate, Marks
<1>2. gone \subseteq Present
  OBVIOUS
<1> HIDE DEF gone
<1>3. /\ order \in Seq(Keys) /\ Sorted(order, lastUse) /\ calls \in Nat
      /\ size \in [Keys -> Nat] /\ prefetched \subseteq Present
      /\ bytes = BytesOf(Present)
      /\ Len(order) \in Nat /\ Len(order) <= MaxChunks /\ bytes <= MaxBytes
  BY LenProperties, LimitsAssumption
     DEF IInv, TypeOK, OrderInv, BytesExact, WithinLimits, MarksPresent
<1>4. /\ Present \subseteq Keys /\ IsFiniteSet(Present)
      /\ \A x \in Present : size[x] \in Nat /\ BytesOf(Present) = SumOf(size, Present)
  BY PresentFacts DEF IInv
<1>5. /\ order' \in Seq(Keys) /\ Len(order') <= Len(order)
      /\ Present' = Present \ gone /\ Sorted(order', lastUse)
  BY <1>1, <1>3, WithoutProps DEF Present
<1>6. /\ SumOf(size, Present \ gone) = SumOf(size, Present) - SumOf(size, gone)
      /\ SumOf(size, gone) \in Nat /\ SumOf(size, Present) \in Nat
      /\ SumOf(size, Present \ gone) \in Nat
  BY <1>2, <1>4, SumWithout
<1>7. SumOf(size', Present \ gone) = SumOf(size, Present \ gone)
  <2>1. IsFiniteSet(Present \ gone) /\ \A x \in Present \ gone : size'[x] = size[x]
    BY <1>1, <1>4, FS_Subset
  <2> QED
    BY <2>1, SumSame
<1>8. BytesOf(gone) = SumOf(size, gone) /\ BytesOf(Present)' = SumOf(size', Present \ gone)
  BY <1>5, TotalIsSum DEF BytesOf
<1>9. BytesOf(Present) = SumOf(size, Present)
  BY PresentFacts DEF IInv
<1>10. BytesExact' /\ bytes' \in Nat /\ bytes' <= bytes
  BY <1>1, <1>3, <1>6, <1>7, <1>8, <1>9 DEF BytesExact
<1>11. WithinLimits'
  <2>1. Len(order') \in Nat /\ MaxChunks \in Nat /\ MaxBytes \in Nat /\ bytes \in Nat
    BY <1>5, LenProperties, LimitsAssumption DEF IInv, TypeOK
  <2>2. Len(order') <= MaxChunks /\ bytes' <= MaxBytes
    BY <1>3, <1>5, <1>10, <2>1
  <2>3. BytesOf(Present)' = bytes'
    BY <1>10 DEF BytesExact
  <2> QED
    BY <2>2, <2>3 DEF WithinLimits
<1>12. TypeOK'
  <2>1. prefetched' \subseteq Keys /\ size' \in [Keys -> Nat]
    BY <1>1, <1>3, <1>4
  <2>2. calls' \in 0..MaxCalls /\ lastUse' \in [Keys -> 0..MaxCalls]
    BY <1>1, LimitsAssumption DEF IInv, TypeOK
  <2> QED
    BY <1>5, <1>10, <2>1, <2>2 DEF TypeOK
<1>13. OrderInv'
  <2>1. \A x \in Keys : lastUse'[x] <= calls'
    BY <1>1 DEF IInv, TypeOK, OrderInv
  <2> QED
    BY <1>1, <1>5, <2>1 DEF OrderInv
<1>14. MarksPresent'
  BY <1>1, <1>3, <1>5 DEF MarksPresent
<1> QED
  BY <1>1, <1>10, <1>11, <1>12, <1>13, <1>14 DEF IInv

-----------------------------------------------------------------------------
(* Theorems                                                                *)

(* Every call of the cache preserves the invariant.                        *)
THEOREM Inductive == Spec => []IInv
<1>1. Init => IInv
  <2> SUFFICES ASSUME Init PROVE IInv
    OBVIOUS
  <2>1. Present = {} /\ order \in Seq(Keys) /\ Len(order) = 0
    BY DEF Init, Present, ToSet
  <2>2. BytesOf(Present) = 0
    BY <2>1, SumEmpty, TotalIsSum DEF BytesOf
  <2>3. TypeOK /\ OrderInv
    BY <2>1, LimitsAssumption DEF Init, TypeOK, OrderInv, Sorted
  <2>4. BytesExact /\ WithinLimits /\ MarksPresent
    BY <2>1, <2>2, LimitsAssumption DEF Init, BytesExact, WithinLimits, MarksPresent
  <2> QED
    BY <2>3, <2>4 DEF IInv
<1>2. IInv /\ [Next]_vars => IInv'
  <2> SUFFICES ASSUME IInv, [Next]_vars PROVE IInv'
    OBVIOUS
  <2>1. ASSUME NEW k \in Keys, Get(k) PROVE IInv'
    BY <2>1, GetKeeps
  <2>2. ASSUME NEW k \in Keys, NEW length \in Sizes, NEW p \in BOOLEAN, Put(k, length, p)
        PROVE  IInv'
    <3>1. length \in Nat
      BY LimitsAssumption
    <3> QED
      BY <2>2, <3>1, PutKeeps
  <2>3. ASSUME NEW k \in Keys, Invalidate(Files[k]) PROVE IInv'
    BY <2>3, InvalidateKeeps
  <2>4. CASE UNCHANGED vars
    BY <2>4 DEF vars, IInv, TypeOK, OrderInv, BytesExact, WithinLimits, MarksPresent,
                Present, BytesOf
  <2> QED
    BY <2>1, <2>2, <2>3, <2>4 DEF Next
<1> QED
  BY <1>1, <1>2, PTL DEF Spec

(* The bytes, the order and the marks stay in their types; current_bytes,  *)
(* which put adds to and subtracts from, never goes below zero.            *)
THEOREM TypeCorrect == Spec => []TypeOK
<1>1. IInv => TypeOK
  BY DEF IInv
<1> QED
  BY <1>1, Inductive, PTL

(* current_bytes is the sum of the lengths of the chunks there are, after  *)
(* any sequence of get, put and invalidate.                                *)
THEOREM BytesAreCounted == Spec => []BytesExact
<1>1. IInv => BytesExact
  BY DEF IInv
<1> QED
  BY <1>1, Inductive, PTL

(* Neither limit is exceeded when a call returns, also when a chunk is     *)
(* larger than the whole cache.                                            *)
THEOREM LimitsHold == Spec => []WithinLimits
<1>1. IInv => WithinLimits
  BY DEF IInv
<1> QED
  BY <1>1, Inductive, PTL

(* A mark in prefetch_status is always of a chunk there is.                *)
THEOREM MarksAreOfChunks == Spec => []MarksPresent
<1>1. IInv => MarksPresent
  BY DEF IInv
<1> QED
  BY <1>1, Inductive, PTL

(* _evict_if_needed takes the chunks used longest ago and stops as soon as *)
(* both limits hold.                                                       *)
THEOREM OldestAreEvicted == Spec => EvictsOldest
<1> DEFINE Step == \A k \in Keys : lastUse'[k] # lastUse[k] => OldestGo(k)
<1>1. IInv /\ [Next]_vars => Step
  <2> SUFFICES ASSUME IInv, [Next]_vars, NEW k \in Keys, lastUse'[k] # lastUse[k]
               PROVE  OldestGo(k)
    OBVIOUS
  <2>1. ASSUME NEW j \in Keys, Get(j) PROVE OldestGo(k)
    BY <2>1, GetKeeps DEF OldestGo
  <2>2. ASSUME NEW j \in Keys, NEW length \in Sizes, NEW p \in BOOLEAN, Put(j, length, p)
        PROVE  OldestGo(k)
    <3>1. j = k /\ length \in Nat
      BY <2>2, LimitsAssumption DEF Put, Call, IInv, TypeOK
    <3> QED
      BY <2>2, <3>1, PutEvicts
  <2>3. ASSUME NEW j \in Keys, Invalidate(Files[j]) PROVE FALSE
    BY <2>3, InvalidateKeeps
  <2>4. CASE UNCHANGED vars
    BY <2>4 DEF vars
  <2> QED
    BY <2>1, <2>2, <2>3, <2>4 DEF Next
<1>2. Step <=> \A k \in Keys : lastUse'[k] # lastUse[k] =>
        LET kept == Present'
            gone == (Present \ kept) \ {k}
        IN \A g \in gone :
             /\ \A h \in kept : lastUse[g] < lastUse'[h]
             /\ k \in kept /\ (\A h \in gone : lastUse[g] >= lastUse[h]) =>
                  \/ Cardinality(kept) = MaxChunks
                  \/ BytesOf(Present)' + size[g] > MaxBytes
  BY DEF OldestGo
<1> QED
  BY <1>1, <1>2, Inductive, PTL DEF Spec, EvictsOldest
=============================================================================
