-------------------------- MODULE NamespaceProofs --------------------------
(***************************************************************************)
(* Theorems about Namespace, for any tree of paths, ids, threads, lives of *)
(* an entry and of a call, and number of calls and remote changes.         *)
(*                                                                         *)
(* What the cache says may be wrong, so the invariant says for how long:   *)
(* an entry, the place of a call and each item of a listing lead to the    *)
(* path the id has now, or that path was touched within a time that grows  *)
(* with every directory on the way and with the age of what was read.      *)
(***************************************************************************)
EXTENDS Namespace, FiniteSums, SequenceTheorems

-----------------------------------------------------------------------------
(* The inductive invariant                                                 *)

Life == TTL + Slow
At(t) == thread[t].at

(* p, or a directory on the way to it, was touched in the last n units,    *)
(* the times being times.                                                  *)
SinceIn(times, p, n) == \E k \in 1..Len(p) : times[SubSeq(p, 1, k)] <= n
Since(p, n) == SinceIn(touched, p, n)

(* p is the only path that stands for i, but for those touched lately.     *)
LeadsIn(nodeOf, times, p, i, slack) ==
  \A q \in Paths :
    (q = p <=> i \in HeldIn(nodeOf)[q]) \/ SinceIn(times, q, Len(q) * Life + slack)
Leads(p, i, slack) == LeadsIn(node, touched, p, i, slack)

(* A cached path was right when Drive gave it, or its directory was wrong  *)
(* already; it has aged since then.                                        *)
CachedInv ==
  \A p \in Paths : ResolvePath(p) # NoId => Leads(p, ResolvePath(p), -paths[p].left)

(* A call h is at the directory cur, which it takes for id; it has listed  *)
(* items.                                                                  *)
Placed(h) ==
  \/ h.at \in {"check", "load", "map", "set"}
  \/ h.at = "act" /\ h.op \in {"create", "mkdir"}
PlaceOK(h) ==
  /\ Placed(h) => Leads(h.cur, h.id, h.age)
  /\ h.at \in {"map", "set"} =>
       \A item \in h.items : Leads(Append(h.cur, item.name), item.id, h.age - Life)

(* The entry of p has n units left, at least.                              *)
Kept(p, n) == n <= 0 \/ (ResolvePath(p) # NoId /\ paths[p].left >= n)

(* While a directory is listed, each of its files is still to be mapped,   *)
(* or was, or came after the listing.                                      *)
ListingOK(h) ==
  h.at \in {"map", "set"} /\ h.goals # <<>> =>
    \A p \in Paths \ {Root} : \A i \in Held(p) :
      Front(p) = h.cur /\ node[i].parent = h.id /\ OnDrive(i) =>
        \/ [name |-> Last(p), id |-> i] \in h.items
        \/ Kept(p, TTL - h.age)
        \/ touched[p] <= h.age

(* As long as d is loaded, its files are in the cache.                     *)
LoadedOK(d) ==
  \A p \in Paths \ {Root} : \A i \in Held(p) :
    node[i].parent = d /\ OnDrive(i) /\ loaded[d] > 0 =>
      Kept(p, loaded[d] - Slow) \/ Since(p, Len(p) * Life - loaded[d])

(* The metadata of a mapped file live as long as the path, or will be set; *)
(* or they were invalidated after it was mapped.                           *)
DescribedOK(p) ==
  LET i == ResolvePath(p)
  IN i # NoId => \/ \E t \in Threads : At(t) = "set" /\ thread[t].item = i
                 \/ metadata[i] >= paths[p].left
                 \/ paths[p].left + dropped[i] <= TTL

(* What a call does next has what it needs.                                *)
OnTheWay == {"up", "check", "again", "load", "map", "set"}
RouteOK(h) ==
  /\ h.at \in {"check", "load", "map", "set"} => h.id \in Ids
  /\ h.at = "set" => h.item \in Ids
  /\ h.at \in {"up", "check", "again", "load", "act"} => h.goals # <<>>
  /\ h.at \in OnTheWay /\ h.goals # <<>> => IsPrefix(h.cur, Head(h.goals))
  /\ h.at \in {"check", "again"} => h.cur # Head(h.goals)
  /\ h.at = "act" => h.cur = Head(h.goals)
  /\ h.at = "act" /\ h.op # "rename" => h.id \in Ids
  /\ h.op \in {"create", "mkdir"} =>
       h.path # Root /\ (h.goals # <<>> => h.goals = <<Front(h.path)>>)
  /\ h.op = "rename" =>
       /\ h.to # Root
       /\ h.at \in OnTheWay => Len(h.found) + Len(h.goals) = 3
       /\ h.at = "act" => h.found[1] \in Ids /\ h.found[2] \in Ids
  /\ h.op # "rename" /\ h.at \in OnTheWay /\ h.goals # <<>> =>
       h.found = <<>> \/ (h.cur = Head(h.goals) /\ h.at \notin {"up", "check", "again"})
  /\ h.op # "rename" => Len(h.goals) <= 1
  /\ h.at = "forgetTarget" => h.op = "rename"

RouteInv == \A t \in Threads : RouteOK(thread[t])
PlaceInv == \A t \in Threads : PlaceOK(thread[t])
ListingInv == \A t \in Threads : ListingOK(thread[t])
LoadedInv == \A d \in Ids : LoadedOK(d)
DescribedInv == \A p \in Paths : DescribedOK(p)

(* The types one by one                                                    *)
Items == [name : STRING, id : Ids]
Entries == [id : Ids, left : 1..TTL] \union {NoEntry}
Named == [at : {"none", "local", "drive"}, parent : Ids, name : STRING]
Nodes == Named \union {NoNode}
ThreadRecord ==
  [at : {"idle", "up", "check", "again", "load", "map", "set", "act", "forget",
         "forgetTarget"},
   op : {"getattr", "readdir", "create", "mkdir", "unlink", "rename", "swap"},
   path : Paths, to : Paths, goals : Seq(Paths), cur : Paths,
   id : Ids \union {NoId}, found : Seq(Ids \union {NoId}),
   items : SUBSET Items, item : Ids \union {NoId}, age : 0..Slow]
PathsType == paths \in [Paths -> Entries]
LivesType == metadata \in [Ids -> 0..TTL] /\ loaded \in [Ids -> 0..TTL]
ChildrenType == children \in [Paths -> SUBSET Seq(STRING)]
NodeType == node \in [Ids -> Nodes]
ThreadType == thread \in [Threads -> ThreadRecord]
HistoryType ==
  touched \in [Paths -> Nat] /\ dropped \in [Ids -> 0..TTL] /\ calls \in 0..MaxCalls
Types ==
  /\ PathsType /\ LivesType /\ ChildrenType
  /\ NodeType /\ ThreadType /\ HistoryType

IInv ==
  /\ Types /\ RouteInv
  /\ CachedInv /\ PlaceInv /\ ListingInv /\ LoadedInv /\ DescribedInv
  /\ FoundIsListed

-----------------------------------------------------------------------------
(* Paths                                                                   *)

LEMMA Bounds ==
  /\ TTL \in Nat /\ TTL > 0 /\ Slow \in Nat /\ Life \in Nat /\ MaxCalls \in Nat
  /\ RootId \in Ids /\ NoId \notin Ids
BY TTLAssumption, BoundsAssumption, NodesAssumption, IdsAssumption DEF Life

LEMMA Cut ==
  ASSUME NEW p \in Seq(STRING), NEW n \in 0..Len(p)
  PROVE  /\ SubSeq(p, 1, n) \in Seq(STRING) /\ Len(SubSeq(p, 1, n)) = n
         /\ \A i \in 1..n : SubSeq(p, 1, n)[i] = p[i]
<1>1. Len(p) \in Nat /\ 1 \in Int /\ n \in Int /\ n >= 0
  BY LenProperties
<1>2. \A i \in 1..n : p[i] \in STRING
  BY <1>1, ElementOfSeq
<1>3. /\ SubSeq(p, 1, n) \in Seq(STRING)
      /\ Len(SubSeq(p, 1, n)) = IF 1 <= n THEN n - 1 + 1 ELSE 0
      /\ \A i \in 1..n - 1 + 1 : SubSeq(p, 1, n)[i] = p[1 + i - 1]
  BY <1>1, <1>2, SubSeqProperties
<1>4. n - 1 + 1 = n /\ \A i \in 1..n : 1 + i - 1 = i
  BY <1>1
<1> QED
  BY <1>1, <1>3, <1>4

LEMMA PathFacts ==
  ASSUME NEW p \in Paths
  PROVE  /\ p \in Seq(STRING) /\ Len(p) \in Nat
         /\ p # Root => /\ Len(p) > 0 /\ Front(p) \in Paths
                        /\ Len(Front(p)) = Len(p) - 1
                        /\ Last(p) \in STRING
                        /\ p = Append(Front(p), Last(p))
                        /\ SubSeq(p, 1, Len(p)) = p
                        /\ \A k \in 1..Len(p) - 1 : SubSeq(Front(p), 1, k) = SubSeq(p, 1, k)
<1>1. p \in Seq(STRING)
  BY PathsAssumption, EmptySeq DEF Root
<1>2. Len(p) \in Nat
  BY <1>1, LenProperties
<1> SUFFICES ASSUME p # Root
             PROVE  /\ Len(p) > 0 /\ Front(p) \in Paths
                    /\ Len(Front(p)) = Len(p) - 1
                    /\ Last(p) \in STRING
                    /\ p = Append(Front(p), Last(p))
                    /\ SubSeq(p, 1, Len(p)) = p
                    /\ \A k \in 1..Len(p) - 1 : SubSeq(Front(p), 1, k) = SubSeq(p, 1, k)
  BY <1>1, <1>2
<1>3. Len(p) > 0
  BY <1>1, EmptySeq DEF Root
<1>4. Front(p) \in Paths
  BY PathsAssumption
<1>5. Last(p) \in STRING
  BY <1>1, <1>2, <1>3, ElementOfSeq DEF Last
<1>6. /\ Front(p) \in Seq(STRING) /\ Len(Front(p)) = Len(p) - 1
      /\ \A i \in 1..Len(p) - 1 : Front(p)[i] = p[i]
  <2>1. Len(p) - 1 \in 0..Len(p)
    BY <1>2, <1>3
  <2>2. Front(p) = SubSeq(p, 1, Len(p) - 1)
    BY DEF Front
  <2> QED
    BY <1>1, <2>1, <2>2, Cut
<1>7. p = Append(Front(p), Last(p))
  <2>1. /\ Append(Front(p), Last(p)) \in Seq(STRING)
        /\ Len(Append(Front(p), Last(p))) = Len(p)
        /\ \A i \in 1..Len(p) - 1 : Append(Front(p), Last(p))[i] = p[i]
        /\ Append(Front(p), Last(p))[Len(p)] = p[Len(p)]
    BY <1>2, <1>3, <1>5, <1>6, AppendProperties DEF Last
  <2>2. \A i \in 1..Len(p) : p[i] = Append(Front(p), Last(p))[i]
    BY <1>2, <1>3, <2>1
  <2> QED
    BY <1>1, <2>1, <2>2, SeqEqual
<1>8. SubSeq(p, 1, Len(p)) = p
  BY <1>1, SubSeqFull
<1>9. ASSUME NEW k \in 1..Len(p) - 1
      PROVE  SubSeq(Front(p), 1, k) = SubSeq(p, 1, k)
  <2>1. 1 \in 1..Len(p) /\ Len(p) - 1 \in 1..Len(p)
        /\ 1 \in 1..(Len(p) - 1) - 1 + 1 /\ k \in 1..(Len(p) - 1) - 1 + 1
    BY <1>2, <1>3, <1>9
  <2>2. SubSeq(SubSeq(p, 1, Len(p) - 1), 1, k) = SubSeq(p, 1 + 1 - 1, 1 + k - 1)
    BY <1>1, <2>1, SubSeqOfSubSeq
  <2>3. 1 + 1 - 1 = 1 /\ 1 + k - 1 = k
    BY <1>2, <1>9
  <2> QED
    BY <2>2, <2>3 DEF Front
<1> QED
  BY <1>3, <1>4, <1>5, <1>6, <1>7, <1>8, <1>9

LEMMA RootFacts == Root \in Paths /\ Len(Root) = 0 /\ Root \in Seq(STRING)
BY PathsAssumption, EmptySeq DEF Root

(* The directories on the way to a path are in play.                       *)
LEMMA OnTheWayUp ==
  ASSUME NEW p \in Paths, NEW n \in 0..Len(p)
  PROVE  SubSeq(p, 1, n) \in Paths
<1> DEFINE T == {m \in Nat : m <= Len(p) => SubSeq(p, 1, Len(p) - m) \in Paths}
<1>1. p \in Seq(STRING) /\ Len(p) \in Nat /\ \A k \in 1..Len(p) : p[k] \in STRING
  BY PathFacts, ElementOfSeq
<1>2. 0 \in T
  <2>1. Len(p) - 0 = Len(p) /\ SubSeq(p, 1, Len(p)) = p
    BY <1>1, SubSeqFull
  <2> QED
    BY <2>1
<1>3. ASSUME NEW m \in Nat, m \in T PROVE m + 1 \in T
  <2> SUFFICES ASSUME m + 1 <= Len(p) PROVE SubSeq(p, 1, Len(p) - (m + 1)) \in Paths
    OBVIOUS
  <2> DEFINE q == SubSeq(p, 1, Len(p) - m)
  <2>1. q \in Paths
    BY <1>1, <1>3
  <2>2. Len(q) = Len(p) - m /\ Len(p) - m > 0
    <3>1. Len(p) - m \in 0..Len(p) /\ Len(p) - m > 0
      BY <1>1
    <3> QED
      BY <1>1, <3>1, Cut
  <2> HIDE DEF q
  <2>3. q # Root
    BY <2>2, RootFacts
  <2>4. Front(q) \in Paths
    BY <2>1, <2>3, PathFacts
  <2>5. CASE Len(p) - (m + 1) = 0
    <3>1. SubSeq(p, 1, 0) = <<>>
      BY SubSeqEmpty
    <3> QED
      BY <2>5, <3>1, RootFacts DEF Root
  <2>6. CASE Len(p) - (m + 1) # 0
    <3>1. /\ 1 \in 1..Len(p) /\ Len(p) - m \in 1..Len(p)
          /\ 1 \in 1..(Len(p) - m) - 1 + 1
          /\ Len(p) - (m + 1) \in 1..(Len(p) - m) - 1 + 1
      BY <1>1, <2>6
    <3>2. SubSeq(q, 1, Len(p) - (m + 1)) = SubSeq(p, 1 + 1 - 1, 1 + (Len(p) - (m + 1)) - 1)
      BY <1>1, <3>1, SubSeqOfSubSeq DEF q
    <3>3. 1 + 1 - 1 = 1 /\ 1 + (Len(p) - (m + 1)) - 1 = Len(p) - (m + 1)
          /\ Len(q) - 1 = Len(p) - (m + 1)
      BY <1>1, <2>2
    <3> QED
      BY <2>4, <3>2, <3>3 DEF Front
  <2> QED
    BY <2>5, <2>6
<1>4. Len(p) - n \in Nat /\ Len(p) - (Len(p) - n) = n
  BY <1>1
<1>5. Nat \subseteq T
  BY <1>2, <1>3, NatInduct
<1> QED
  BY <1>1, <1>4, <1>5

LEMMA Longer ==
  ASSUME NEW p \in Seq(STRING), NEW last \in STRING
  PROVE  /\ Append(p, last) \in Seq(STRING)
         /\ Len(Append(p, last)) = Len(p) + 1
         /\ \A i \in 1..Len(p) : Append(p, last)[i] = p[i]
         /\ Append(p, last)[Len(p) + 1] = last
         /\ Append(p, last) # <<>>
<1>1. Append(p, last) \in Seq(STRING) /\ Len(Append(p, last)) = Len(p) + 1
  BY AppendProperties
<1>2. \A i \in 1..Len(p) : Append(p, last)[i] = p[i]
  BY AppendProperties
<1>3. Append(p, last)[Len(p) + 1] = last
  BY AppendProperties
<1>4. Len(p) + 1 # 0 /\ Len(<<>>) = 0
  BY LenProperties, EmptySeq
<1>5. Append(p, last) # <<>>
  BY <1>1, <1>4, Zenon
<1> QED
  BY <1>1, <1>2, <1>3, <1>5

LEMMA AppendFacts ==
  ASSUME NEW p \in Paths, NEW last \in STRING
  PROVE  /\ Append(p, last) # Root /\ Append(p, last) \in Seq(STRING)
         /\ Front(Append(p, last)) = p /\ Last(Append(p, last)) = last
<1>1. p \in Seq(STRING) /\ Len(p) \in Nat
  BY PathFacts
<1>2. /\ Append(p, last) \in Seq(STRING)
      /\ Len(Append(p, last)) = Len(p) + 1
      /\ \A i \in 1..Len(p) : Append(p, last)[i] = p[i]
      /\ Append(p, last)[Len(p) + 1] = last
      /\ Append(p, last) # <<>>
  BY <1>1, Longer
<1>3. /\ Front(Append(p, last)) \in Seq(STRING) /\ Len(Front(Append(p, last))) = Len(p)
      /\ \A i \in 1..Len(p) : Front(Append(p, last))[i] = p[i]
  <2>1. Front(Append(p, last)) = SubSeq(Append(p, last), 1, Len(p))
    BY <1>1, <1>2 DEF Front
  <2>2. Len(p) \in 0..Len(Append(p, last))
    BY <1>1, <1>2
  <2> QED
    BY <1>2, <2>1, <2>2, Cut
<1>4. Front(Append(p, last)) = p
  BY <1>1, <1>3, SeqEqual
<1>5. Append(p, last) # Root
  BY <1>2 DEF Root
<1> QED
  BY <1>1, <1>2, <1>4, <1>5 DEF Last

(* One name further on the way to a path                                   *)
LEMMA NextOnTheWay ==
  ASSUME NEW p \in Paths, NEW goal \in Paths, IsPrefix(p, goal), p # goal
  PROVE  /\ Append(p, goal[Len(p) + 1]) \in Paths
         /\ IsPrefix(Append(p, goal[Len(p) + 1]), goal)
         /\ goal[Len(p) + 1] \in STRING
<1>1. /\ p \in Seq(STRING) /\ Len(p) \in Nat /\ goal \in Seq(STRING) /\ Len(goal) \in Nat
      /\ \A k \in 1..Len(goal) : goal[k] \in STRING
  BY PathFacts, ElementOfSeq
<1>2. Len(p) <= Len(goal) /\ p = SubSeq(goal, 1, Len(p))
  BY <1>1, SubSeqFull DEF IsPrefix
<1>3. Len(p) < Len(goal)
  BY <1>1, <1>2, SubSeqFull
<1>4. goal[Len(p) + 1] \in STRING
  BY <1>1, <1>3
<1> DEFINE q == SubSeq(goal, 1, Len(p) + 1)
<1>5. /\ q \in Seq(STRING) /\ Len(q) = Len(p) + 1
      /\ \A i \in 1..Len(p) + 1 : q[i] = goal[i]
  BY <1>1, <1>3, Cut
<1>6. \A i \in 1..Len(p) : p[i] = goal[i]
  BY <1>1, <1>2, <1>3, Cut
<1>7. /\ Append(p, goal[Len(p) + 1]) \in Seq(STRING)
      /\ Len(Append(p, goal[Len(p) + 1])) = Len(p) + 1
      /\ \A i \in 1..Len(p) : Append(p, goal[Len(p) + 1])[i] = p[i]
      /\ Append(p, goal[Len(p) + 1])[Len(p) + 1] = goal[Len(p) + 1]
  BY <1>1, <1>4, AppendProperties
<1>8. \A i \in 1..Len(p) + 1 : Append(p, goal[Len(p) + 1])[i] = q[i]
  BY <1>1, <1>5, <1>6, <1>7
<1>9. Append(p, goal[Len(p) + 1]) = q
  BY <1>5, <1>7, <1>8, SeqEqual
<1>10. q \in Paths
  BY <1>1, <1>3, OnTheWayUp
<1>11. IsPrefix(q, goal)
  BY <1>1, <1>3, <1>5, SubSeqFull DEF IsPrefix
<1> QED
  BY <1>4, <1>9, <1>10, <1>11

LEMMA FrontOnTheWay ==
  ASSUME NEW p \in Paths, NEW goal \in Paths, IsPrefix(p, goal), p # Root
  PROVE  Front(p) \in Paths /\ IsPrefix(Front(p), goal)
<1>1. /\ Len(p) \in Nat /\ Len(p) > 0 /\ Front(p) \in Paths /\ Len(Front(p)) = Len(p) - 1
      /\ Front(p) \in Seq(STRING) /\ goal \in Seq(STRING) /\ Len(goal) \in Nat
      /\ p \in Seq(STRING)
  BY PathFacts
<1>2. Len(p) <= Len(goal) /\ p = SubSeq(goal, 1, Len(p))
  BY <1>1, SubSeqFull DEF IsPrefix
<1>3. CASE Len(p) = 1
  <2>1. SubSeq(Front(p), 1, Len(Front(p))) = <<>> /\ SubSeq(goal, 1, Len(Front(p))) = <<>>
    BY <1>1, <1>3, SubSeqEmpty
  <2> QED
    BY <1>1, <1>2, <1>3, <2>1 DEF IsPrefix
<1>4. CASE Len(p) > 1
  <2>1. /\ 1 \in 1..Len(goal) /\ Len(p) \in 1..Len(goal)
        /\ 1 \in 1..Len(p) - 1 + 1 /\ Len(p) - 1 \in 1..Len(p) - 1 + 1
    BY <1>1, <1>2, <1>4
  <2>2. SubSeq(SubSeq(goal, 1, Len(p)), 1, Len(p) - 1)
          = SubSeq(goal, 1 + 1 - 1, 1 + (Len(p) - 1) - 1)
    BY <1>1, <2>1, SubSeqOfSubSeq
  <2>3. 1 + 1 - 1 = 1 /\ 1 + (Len(p) - 1) - 1 = Len(p) - 1
    BY <1>1
  <2>4. Front(p) = SubSeq(goal, 1, Len(Front(p)))
    BY <1>1, <1>2, <2>2, <2>3 DEF Front
  <2>5. SubSeq(Front(p), 1, Len(Front(p))) = Front(p)
    BY <1>1, SubSeqFull
  <2> QED
    BY <1>1, <1>2, <2>4, <2>5 DEF IsPrefix
<1> QED
  BY <1>1, <1>3, <1>4

LEMMA OwnPrefix == \A p \in Paths : IsPrefix(p, p)
BY PathFacts DEF IsPrefix

-----------------------------------------------------------------------------
(* A finite set's numbers                                                  *)

LEMMA LargestNumber ==
  ASSUME NEW f \in [Paths -> Nat]
  PROVE  LET S == {f[p] : p \in Paths}
         IN Max(S) \in Nat /\ \A p \in Paths : f[p] <= Max(S)
<1> DEFINE S == {f[p] : p \in Paths}
<1>1. f \in Surjection(Paths, S)
  BY DEF Surjection
<1>2. IsFiniteSet(S)
  BY <1>1, DirectoriesAssumption, FS_Surjection
<1>3. S \subseteq Nat /\ S # {}
  BY RootFacts
<1> QED
  BY <1>2, <1>3, MaxIsMember

(* The tree: HeldIn is a function that looks up the parents first.         *)

HeldFrom(f, nodeOf, p) ==
  IF p = Root THEN {RootId}
  ELSE {i \in Ids \ {RootId} : /\ nodeOf[i].at # "none"
                               /\ nodeOf[i].parent \in f[Front(p)]
                               /\ nodeOf[i].name = Last(p)}
IsHeld(f, nodeOf) == f = [p \in Paths |-> HeldFrom(f, nodeOf, p)]

(* For the paths of at most n names it exists, by n.                       *)
LEMMA HeldExists ==
  ASSUME NEW nodeOf
  PROVE  \E f : IsHeld(f, nodeOf)
<1> DEFINE Agrees(f, n) == \A p \in Paths : Len(p) <= n => f[p] = HeldFrom(f, nodeOf, p)
           T == {n \in Nat : \E f : Agrees(f, n)}
<1>1. 0 \in T
  <2> DEFINE f == [p \in Paths |-> {RootId}]
  <2>1. ASSUME NEW p \in Paths, Len(p) <= 0 PROVE f[p] = HeldFrom(f, nodeOf, p)
    BY <2>1, PathFacts DEF HeldFrom
  <2>2. Agrees(f, 0)
    BY <2>1
  <2> HIDE DEF f
  <2> QED
    BY <2>2
<1>2. ASSUME NEW n \in Nat, n \in T PROVE n + 1 \in T
  <2>1. PICK f : Agrees(f, n)
    BY <1>2
  <2>2. PICK g : g = [p \in Paths |-> HeldFrom(f, nodeOf, p)]
    OBVIOUS
  <2>3. ASSUME NEW p \in Paths, Len(p) <= n + 1
        PROVE  g[p] = HeldFrom(g, nodeOf, p)
    <3>1. g[p] = HeldFrom(f, nodeOf, p)
      BY <2>2
    <3>2. CASE p = Root
      BY <3>1, <3>2 DEF HeldFrom
    <3>3. CASE p # Root
      <4>1. Front(p) \in Paths /\ Len(Front(p)) <= n
        BY <2>3, <3>3, PathFacts
      <4>2. g[Front(p)] = f[Front(p)]
        BY <2>1, <2>2, <4>1
      <4> QED
        BY <3>1, <4>2 DEF HeldFrom
    <3> QED
      BY <3>2, <3>3
  <2>4. Agrees(g, n + 1)
    BY <2>3
  <2> QED
    BY <2>4
<1>3. Nat \subseteq T
  BY <1>1, <1>2, NatInduct
<1> DEFINE length == [p \in Paths |-> Len(p)]
<1>4. length \in [Paths -> Nat] /\ \A p \in Paths : length[p] = Len(p)
  BY PathFacts
<1> HIDE DEF length
<1>5. PICK n \in Nat : \A p \in Paths : Len(p) <= n
  BY <1>4, LargestNumber
<1>6. PICK f : Agrees(f, n)
  BY <1>3
<1> DEFINE g == [p \in Paths |-> f[p]]
<1>7. ASSUME NEW p \in Paths PROVE f[p] = HeldFrom(g, nodeOf, p)
  <2>1. f[p] = HeldFrom(f, nodeOf, p)
    BY <1>5, <1>6
  <2>2. p # Root => g[Front(p)] = f[Front(p)]
    BY PathFacts
  <2> QED
    BY <2>1, <2>2 DEF HeldFrom
<1>8. IsHeld(g, nodeOf)
  BY <1>7 DEF IsHeld
<1> QED
  BY <1>8

LEMMA HeldUnfolds ==
  ASSUME NEW nodeOf, NEW p \in Paths
  PROVE  HeldIn(nodeOf)[p] = HeldFrom(HeldIn(nodeOf), nodeOf, p)
<1>1. HeldIn(nodeOf) = CHOOSE f : IsHeld(f, nodeOf)
  BY DEF HeldIn, IsHeld, HeldFrom
<1>2. IsHeld(HeldIn(nodeOf), nodeOf)
  BY <1>1, HeldExists, Zenon
<1> QED
  BY <1>2 DEF IsHeld

(* The ids of a path are those of its name in the ids of its directory.    *)
LEMMA HeldFacts ==
  ASSUME NEW nodeOf, NEW p \in Paths
  PROVE  /\ p = Root => HeldIn(nodeOf)[p] = {RootId}
         /\ p # Root =>
              HeldIn(nodeOf)[p]
                = {i \in Ids \ {RootId} : /\ nodeOf[i].at # "none"
                                          /\ nodeOf[i].parent \in HeldIn(nodeOf)[Front(p)]
                                          /\ nodeOf[i].name = Last(p)}
         /\ HeldIn(nodeOf)[p] \subseteq Ids
         /\ RootId \in HeldIn(nodeOf)[p] <=> p = Root
<1>1. HeldIn(nodeOf)[p] = HeldFrom(HeldIn(nodeOf), nodeOf, p)
  BY HeldUnfolds
<1>2. CASE p = Root
  BY <1>1, <1>2, Bounds DEF HeldFrom
<1>3. CASE p # Root
  BY <1>1, <1>3, Bounds DEF HeldFrom
<1> QED
  BY <1>2, <1>3

LEMMA SettledFacts ==
  /\ \A p \in Paths : Settled(p) = Len(p) * Life /\ Settled(p) \in Nat
  /\ LongAgo \in Nat
<1>1. \A p \in Paths : Settled(p) = Len(p) * Life /\ Settled(p) \in Nat
  BY PathFacts, Bounds DEF Settled, Life
<1> DEFINE f == [p \in Paths |-> Settled(p)]
<1>2. f \in [Paths -> Nat] /\ \A p \in Paths : f[p] = Settled(p)
  BY <1>1
<1> HIDE DEF f
<1>3. Max({f[p] : p \in Paths}) \in Nat
  BY <1>2, LargestNumber
<1>4. {f[p] : p \in Paths} = {Settled(p) : p \in Paths}
  BY <1>2
<1> QED
  BY <1>1, <1>3, <1>4 DEF LongAgo

-----------------------------------------------------------------------------
(* Times                                                                   *)

LEMMA Times ==
  ASSUME NEW p \in Paths, p # Root
  PROVE  /\ Len(p) * Life \in Nat /\ Len(p) * Life >= Life
         /\ (Len(p) - 1) * Life = Len(p) * Life - Life
<1>1. Len(p) \in Nat /\ Len(p) >= 1 /\ Life \in Nat
  BY PathFacts, Bounds
<1>2. (Len(p) - 1) * Life \in Nat /\ (Len(p) - 1) * Life = Len(p) * Life - Life
  BY <1>1
<1> QED
  BY <1>1, <1>2

LEMMA SinceOwn ==
  ASSUME NEW times, NEW p \in Paths, p # Root, NEW n, times[p] <= n
  PROVE  SinceIn(times, p, n)
<1>1. Len(p) \in 1..Len(p) /\ SubSeq(p, 1, Len(p)) = p
  BY PathFacts
<1> QED
  BY <1>1 DEF SinceIn

LEMMA SinceFront ==
  ASSUME NEW times, NEW p \in Paths, p # Root, NEW n, SinceIn(times, Front(p), n)
  PROVE  SinceIn(times, p, n)
<1>1. PICK k \in 1..Len(p) - 1 : times[SubSeq(Front(p), 1, k)] <= n
  BY PathFacts DEF SinceIn
<1>2. k \in 1..Len(p) /\ SubSeq(Front(p), 1, k) = SubSeq(p, 1, k)
  BY <1>1, PathFacts
<1> QED
  BY <1>1, <1>2 DEF SinceIn

(* Less time since, and more time asked for                                *)
LEMMA SinceMore ==
  ASSUME NEW times \in [Paths -> Nat], NEW more \in [Paths -> Nat], NEW d \in Nat,
         \A p \in Paths : more[p] <= times[p] + d,
         NEW p \in Paths, NEW n \in Int, NEW m \in Int, m >= n + d,
         SinceIn(times, p, n)
  PROVE  SinceIn(more, p, m)
<1>1. PICK k \in 1..Len(p) : times[SubSeq(p, 1, k)] <= n
  BY DEF SinceIn
<1>2. SubSeq(p, 1, k) \in Paths
  BY <1>1, OnTheWayUp, PathFacts
<1>3. more[SubSeq(p, 1, k)] <= m
  BY <1>1, <1>2
<1> QED
  BY <1>3 DEF SinceIn

LEMMA NodeFacts ==
  ASSUME NEW n \in Nodes
  PROVE  /\ n.parent \in Ids
         /\ n.at # "none" => n \in Named /\ n.name \in STRING
<1>1. NoNode.at = "none" /\ NoNode.parent = RootId
  BY Zenon DEF NoNode
<1>2. n \in Named \/ n = NoNode
  BY DEF Nodes
<1> QED
  BY <1>1, <1>2, Bounds DEF Named

(* A node of a listed directory is where the directory is.                 *)
LEMMA ListedLeads ==
  ASSUME NEW nodeOf \in [Ids -> Nodes], NEW times \in [Paths -> Nat],
         NEW p \in Paths, NEW i \in Ids \ {RootId}, NEW slack \in Int,
         nodeOf[i].at # "none",
         LeadsIn(nodeOf, times, p, nodeOf[i].parent, slack)
  PROVE  LeadsIn(nodeOf, times, Append(p, nodeOf[i].name), i, slack - Life)
<1> DEFINE new == Append(p, nodeOf[i].name)
<1>1. nodeOf[i].name \in STRING
  BY NodeFacts
<1>2. new # Root /\ Front(new) = p /\ Last(new) = nodeOf[i].name
  BY <1>1, AppendFacts
<1> HIDE DEF new
<1> SUFFICES ASSUME NEW q \in Paths
             PROVE  \/ q = new <=> i \in HeldIn(nodeOf)[q]
                    \/ SinceIn(times, q, Len(q) * Life + (slack - Life))
  BY DEF LeadsIn, new
<1>3. CASE q = Root
  BY <1>2, <1>3, HeldFacts
<1>4. CASE q # Root
  <2>1. /\ Front(q) \in Paths /\ q = Append(Front(q), Last(q))
        /\ Len(Front(q)) = Len(q) - 1
    BY <1>4, PathFacts
  <2>2. q = new <=> Front(q) = p /\ Last(q) = nodeOf[i].name
    BY <1>2, <2>1 DEF new
  <2>3. i \in HeldIn(nodeOf)[q]
          <=> nodeOf[i].parent \in HeldIn(nodeOf)[Front(q)] /\ nodeOf[i].name = Last(q)
    BY <1>4, HeldFacts
  <2>4. \/ Front(q) = p <=> nodeOf[i].parent \in HeldIn(nodeOf)[Front(q)]
        \/ SinceIn(times, Front(q), (Len(q) - 1) * Life + slack)
    BY <2>1 DEF LeadsIn
  <2>5. ASSUME SinceIn(times, Front(q), (Len(q) - 1) * Life + slack)
        PROVE  SinceIn(times, q, Len(q) * Life + (slack - Life))
    <3>1. (Len(q) - 1) * Life + slack = Len(q) * Life + (slack - Life)
      BY <1>4, Times, Bounds
    <3> QED
      BY <1>4, <2>5, <3>1, SinceFront
  <2> QED
    BY <2>2, <2>3, <2>4, <2>5
<1> QED
  BY <1>3, <1>4

LEMMA RootLeads ==
  ASSUME NEW nodeOf, NEW times, NEW slack
  PROVE  LeadsIn(nodeOf, times, Root, RootId, slack)
BY HeldFacts DEF LeadsIn

(* With more slack it leads there too.                                     *)
LEMMA LeadsMore ==
  ASSUME NEW nodeOf, NEW times \in [Paths -> Nat], NEW p, NEW i,
         NEW slack \in Int, NEW more \in Int, more >= slack,
         LeadsIn(nodeOf, times, p, i, slack)
  PROVE  LeadsIn(nodeOf, times, p, i, more)
<1> SUFFICES ASSUME NEW q \in Paths, SinceIn(times, q, Len(q) * Life + slack)
             PROVE  SinceIn(times, q, Len(q) * Life + more)
  BY DEF LeadsIn
<1>1. Len(q) * Life \in Int
  BY PathFacts, Bounds
<1>2. \A r \in Paths : times[r] <= times[r] + 0
  OBVIOUS
<1>3. /\ Len(q) * Life + slack \in Int /\ Len(q) * Life + more \in Int
      /\ Len(q) * Life + more >= Len(q) * Life + slack + 0
  BY <1>1
<1> QED
  BY <1>2, <1>3, SinceMore

-----------------------------------------------------------------------------
(* What a step may do to the tree and to the cache, time standing still    *)

TreeFrame ==
  /\ NodeType' /\ touched' \in [Paths -> Nat]
  /\ \A p \in Paths : touched'[p] <= touched[p]
  /\ \A p \in Paths :
       \/ p # Root /\ touched'[p] = 0
       \/ /\ HeldIn(node')[p] = HeldIn(node)[p]
          /\ \A i \in HeldIn(node)[p] \ {RootId} : node'[i] = node[i]

(* A path is mapped to where its directory leads, before its metadata are  *)
(* set, or is forgotten; a directory is marked when its files are there.   *)
CacheFrame ==
  /\ PathsType' /\ LivesType' /\ ChildrenType'
  /\ \A p \in Paths :
       \/ paths'[p] = paths[p]
       \/ paths'[p] = NoEntry /\ (p # Root => touched'[p] = 0)
       \/ /\ paths'[p].id # NoId /\ paths'[p].left = TTL
          /\ Leads(p, paths'[p].id, -TTL)
          /\ \E t \in Threads : thread'[t].at = "set" /\ thread'[t].item = paths'[p].id
  /\ \A d \in Ids : loaded'[d] = loaded[d] \/ LoadedOK(d)'
  /\ dropped' \in [Ids -> 0..TTL]
  /\ \A i \in Ids : metadata'[i] >= metadata[i] \/ dropped'[i] = 0
  /\ \A i \in Ids : dropped'[i] <= dropped[i]
  /\ \A t \in Threads : thread[t].at = "set" =>
       \/ thread'[t].at = "set" /\ thread'[t].item = thread[t].item
       \/ metadata'[thread[t].item] = TTL

LEMMA SinceKept ==
  ASSUME Types, TreeFrame, NEW p \in Paths, NEW n \in Int, SinceIn(touched, p, n)
  PROVE  SinceIn(touched', p, n)
<1>1. touched \in [Paths -> Nat] /\ touched' \in [Paths -> Nat]
  BY DEF Types, HistoryType, TreeFrame
<1>2. \A q \in Paths : touched'[q] <= touched[q] + 0
  BY <1>1 DEF TreeFrame
<1> QED
  BY <1>1, <1>2, SinceMore

LEMMA LeadsKept ==
  ASSUME Types, TreeFrame, NEW p, NEW i, NEW slack \in Int, slack >= -Life,
         LeadsIn(node, touched, p, i, slack)
  PROVE  LeadsIn(node', touched', p, i, slack)
<1> SUFFICES ASSUME NEW q \in Paths
             PROVE  \/ q = p <=> i \in HeldIn(node')[q]
                    \/ SinceIn(touched', q, Len(q) * Life + slack)
  BY DEF LeadsIn
<1>1. Len(q) * Life + slack \in Int
  BY PathFacts, Bounds
<1>2. CASE q # Root /\ touched'[q] = 0
  <2>1. touched'[q] <= Len(q) * Life + slack
    BY <1>2, Times, Bounds
  <2> QED
    BY <1>2, <2>1, SinceOwn
<1>3. CASE HeldIn(node')[q] = HeldIn(node)[q]
  <2>1. \/ q = p <=> i \in HeldIn(node)[q]
        \/ SinceIn(touched, q, Len(q) * Life + slack)
    BY DEF LeadsIn
  <2> QED
    BY <1>1, <1>3, <2>1, SinceKept
<1> QED
  BY <1>2, <1>3 DEF TreeFrame

LEMMA PlaceStep ==
  ASSUME Types, TreeFrame, NEW h \in ThreadRecord, PlaceOK(h)
  PROVE  PlaceOK(h)'
<1>1. h.age \in 0..Slow /\ h.age \in Int /\ h.age - Life \in Int
      /\ h.age >= -Life /\ h.age - Life >= -Life
  BY Bounds DEF ThreadRecord
<1>2. Placed(h) => LeadsIn(node', touched', h.cur, h.id, h.age)
  BY <1>1, LeadsKept DEF PlaceOK, Leads
<1>3. ASSUME h.at \in {"map", "set"}, NEW item \in h.items
      PROVE  LeadsIn(node', touched', Append(h.cur, item.name), item.id, h.age - Life)
  BY <1>1, <1>3, LeadsKept DEF PlaceOK, Leads
<1> QED
  BY <1>2, <1>3 DEF PlaceOK, Leads, Placed

LEMMA KeptStep ==
  ASSUME Types, CacheFrame, NEW p \in Paths, p # Root, NEW n \in Int, n <= TTL,
         Kept(p, n)
  PROVE  Kept(p, n)' \/ touched'[p] = 0
BY DEF CacheFrame, Kept, ResolvePath

LEMMA ListingStep ==
  ASSUME Types, TreeFrame, CacheFrame, NEW h \in ThreadRecord, ListingOK(h)
  PROVE  ListingOK(h)'
<1>1. h.age \in 0..Slow /\ TTL - h.age \in Int /\ TTL - h.age <= TTL /\ 0 <= h.age
  BY Bounds DEF ThreadRecord
<1> SUFFICES ASSUME h.at \in {"map", "set"}, h.goals # <<>>,
                    NEW p \in Paths \ {Root}, NEW i \in HeldIn(node')[p],
                    Front(p) = h.cur, node'[i].parent = h.id, OnDrive(i)'
             PROVE  \/ [name |-> Last(p), id |-> i] \in h.items
                    \/ Kept(p, TTL - h.age)'
                    \/ touched'[p] <= h.age
  BY DEF ListingOK, Held
<1>2. CASE touched'[p] = 0
  BY <1>1, <1>2
<1>3. CASE touched'[p] # 0
  <2>1. i \in HeldIn(node)[p] /\ i # RootId
    BY <1>3, HeldFacts DEF TreeFrame
  <2>2. node'[i] = node[i]
    BY <1>3, <2>1 DEF TreeFrame
  <2>3. \/ [name |-> Last(p), id |-> i] \in h.items
        \/ Kept(p, TTL - h.age)
        \/ touched[p] <= h.age
    BY <2>1, <2>2 DEF ListingOK, OnDrive, Held
  <2>4. touched[p] <= h.age => touched'[p] <= h.age
    BY <1>1 DEF TreeFrame, Types, HistoryType
  <2> QED
    BY <1>1, <1>3, <2>3, <2>4, KeptStep
<1> QED
  BY <1>2, <1>3

LEMMA LoadedStep ==
  ASSUME Types, TreeFrame, CacheFrame, NEW d \in Ids, loaded'[d] = loaded[d], LoadedOK(d)
  PROVE  LoadedOK(d)'
<1> PICK n : n = loaded[d]
  OBVIOUS
<1>1. n \in 0..TTL /\ loaded'[d] = n /\ n - Slow \in Int /\ n - Slow <= TTL
  BY Bounds DEF Types, LivesType
<1> SUFFICES ASSUME NEW p \in Paths \ {Root}, NEW i \in HeldIn(node')[p],
                    node'[i].parent = d, OnDrive(i)', n > 0
             PROVE  Kept(p, n - Slow)' \/ SinceIn(touched', p, Len(p) * Life - n)
  BY <1>1 DEF LoadedOK, Held, Since
<1>2. CASE touched'[p] = 0
  <2>1. touched'[p] <= Len(p) * Life - n
    BY <1>1, <1>2, Times, Bounds DEF Life
  <2> QED
    BY <2>1, SinceOwn
<1>3. CASE touched'[p] # 0
  <2>1. i \in HeldIn(node)[p] /\ i # RootId
    BY <1>3, HeldFacts DEF TreeFrame
  <2>2. node'[i] = node[i]
    BY <1>3, <2>1 DEF TreeFrame
  <2>3. Kept(p, n - Slow) \/ SinceIn(touched, p, Len(p) * Life - n)
    BY <2>1, <2>2 DEF LoadedOK, OnDrive, Held, Since
  <2>4. Len(p) * Life - n \in Int
    BY <1>1, PathFacts, Bounds
  <2> QED
    BY <1>1, <1>3, <2>3, <2>4, KeptStep, SinceKept
<1> QED
  BY <1>2, <1>3

LEMMA CachedStep ==
  ASSUME Types, TreeFrame, CacheFrame, CachedInv
  PROVE  CachedInv'
<1> SUFFICES ASSUME NEW p \in Paths, paths'[p].id # NoId
             PROVE  LeadsIn(node', touched', p, paths'[p].id, -paths'[p].left)
  BY DEF CachedInv, ResolvePath, Leads
<1> PICK i, n : i = paths'[p].id /\ n = paths'[p].left
  OBVIOUS
<1>1. paths'[p] # NoEntry
  BY DEF NoEntry
<1>2. n \in 1..TTL /\ -n \in Int /\ -n >= -Life
  BY <1>1, Bounds DEF CacheFrame, PathsType, Entries, Life
<1>3. LeadsIn(node, touched, p, i, -n)
  BY <1>1 DEF CacheFrame, CachedInv, ResolvePath, Leads
<1> QED
  BY <1>2, <1>3, LeadsKept

LEMMA DescribedStep ==
  ASSUME Types, CacheFrame, DescribedInv
  PROVE  DescribedInv'
<1> SUFFICES ASSUME NEW p \in Paths, paths'[p].id # NoId
             PROVE  \/ \E t \in Threads : thread'[t].at = "set"
                                          /\ thread'[t].item = paths'[p].id
                    \/ metadata'[paths'[p].id] >= paths'[p].left
                    \/ paths'[p].left + dropped'[paths'[p].id] <= TTL
  BY DEF DescribedInv, DescribedOK, ResolvePath, At
<1> PICK i, n : i = paths'[p].id /\ n = paths'[p].left
  OBVIOUS
<1>1. paths'[p] # NoEntry
  BY DEF NoEntry
<1>2. i \in Ids /\ n \in 1..TTL
  BY <1>1 DEF CacheFrame, PathsType, Entries
<1>3. /\ metadata[i] \in Nat /\ metadata'[i] \in Nat
      /\ dropped[i] \in Nat /\ dropped'[i] \in Nat
  BY <1>2, Bounds DEF Types, LivesType, HistoryType, CacheFrame
<1>4. \/ \E t \in Threads : thread'[t].at = "set" /\ thread'[t].item = i
      \/ paths[p].id = i /\ paths[p].left = n
  BY <1>1 DEF CacheFrame
<1>5. CASE \E t \in Threads : thread'[t].at = "set" /\ thread'[t].item = i
  BY <1>5
<1>6. CASE paths[p].id = i /\ paths[p].left = n
  <2>1. \/ \E t \in Threads : thread[t].at = "set" /\ thread[t].item = i
        \/ metadata[i] >= n
        \/ n + dropped[i] <= TTL
    BY <1>6 DEF DescribedInv, DescribedOK, ResolvePath, At
  <2>2. CASE \E t \in Threads : thread[t].at = "set" /\ thread[t].item = i
    <3>1. \/ \E t \in Threads : thread'[t].at = "set" /\ thread'[t].item = i
          \/ metadata'[i] = TTL
      BY <2>2 DEF CacheFrame
    <3> QED
      BY <1>2, <3>1, Bounds
  <2>3. CASE metadata[i] >= n
    <3>1. metadata'[i] >= metadata[i] \/ dropped'[i] = 0
      BY <1>2 DEF CacheFrame
    <3> QED
      BY <1>2, <1>3, <2>3, <3>1, Bounds
  <2>4. CASE n + dropped[i] <= TTL
    <3>1. dropped'[i] <= dropped[i]
      BY <1>2 DEF CacheFrame
    <3> QED
      BY <1>2, <1>3, <2>4, <3>1, Bounds
  <2> QED
    BY <2>1, <2>2, <2>3, <2>4
<1> QED
  BY <1>4, <1>5, <1>6

(* Every step but the passing of time is one of these.                     *)
LEMMA FrameStep ==
  ASSUME IInv, TreeFrame, CacheFrame, ThreadType', calls' \in 0..MaxCalls,
         FoundIsListed',
         \A t \in Threads : \/ thread'[t] = thread[t]
                            \/ /\ RouteOK(thread[t])' /\ PlaceOK(thread[t])'
                               /\ ListingOK(thread[t])'
  PROVE  IInv'
<1>1. Types
  BY DEF IInv
<1>2. Types'
  BY DEF Types, HistoryType, TreeFrame, CacheFrame
<1>3. \A t \in Threads : thread[t] \in ThreadRecord
  BY <1>1 DEF Types, ThreadType
<1>4. ASSUME NEW t \in Threads
      PROVE  RouteOK(thread[t])' /\ PlaceOK(thread[t])' /\ ListingOK(thread[t])'
  <2> SUFFICES ASSUME thread'[t] = thread[t]
               PROVE  RouteOK(thread[t])' /\ PlaceOK(thread[t])' /\ ListingOK(thread[t])'
    OBVIOUS
  <2>1. PICK h : h = thread[t]
    OBVIOUS
  <2>2. h \in ThreadRecord /\ RouteOK(h) /\ PlaceOK(h) /\ ListingOK(h) /\ h = thread'[t]
    BY <1>3, <2>1 DEF IInv, RouteInv, PlaceInv, ListingInv
  <2>3. PlaceOK(h)' /\ ListingOK(h)'
    BY <1>1, <2>2, PlaceStep, ListingStep
  <2> QED
    BY <2>2, <2>3 DEF RouteOK, PlaceOK, ListingOK, Placed
<1>5. RouteInv' /\ PlaceInv' /\ ListingInv'
  BY <1>4 DEF RouteInv, PlaceInv, ListingInv
<1>6. CachedInv' /\ DescribedInv'
  BY <1>1, CachedStep, DescribedStep DEF IInv
<1>7. LoadedInv'
  <2> SUFFICES ASSUME NEW d \in Ids, loaded'[d] = loaded[d] PROVE LoadedOK(d)'
    BY DEF LoadedInv, CacheFrame
  <2> QED
    BY <1>1, LoadedStep DEF IInv, LoadedInv
<1> QED
  BY <1>2, <1>5, <1>6, <1>7 DEF IInv

-----------------------------------------------------------------------------
(* Steps of a call that change nothing else                                *)

LEMMA SameTree ==
  ASSUME Types, UNCHANGED nodes
  PROVE  TreeFrame
BY DEF Types, NodeType, HistoryType, TreeFrame, nodes

LEMMA SameCache ==
  ASSUME Types, UNCHANGED <<cache, dropped>>,
         \A t \in Threads : thread[t].at = "set" => thread'[t] = thread[t]
  PROVE  CacheFrame
BY Bounds DEF Types, PathsType, LivesType, ChildrenType, HistoryType, CacheFrame, cache

LEMMA SameListed ==
  ASSUME FoundIsListed, UNCHANGED cache
  PROVE  FoundIsListed'
BY DEF FoundIsListed, ResolvePath, cache

LEMMA RecordOf ==
  ASSUME IInv, NEW t \in Threads
  PROVE  /\ thread[t] \in ThreadRecord /\ RouteOK(thread[t])
         /\ PlaceOK(thread[t]) /\ ListingOK(thread[t])
BY DEF IInv, Types, ThreadType, RouteInv, PlaceInv, ListingInv

LEMMA CallStep ==
  ASSUME IInv, NEW t \in Threads, NEW h \in ThreadRecord,
         thread' = [thread EXCEPT ![t] = h], thread[t].at # "set",
         RouteOK(h), PlaceOK(h), ListingOK(h),
         UNCHANGED <<cache, nodes, dropped>>, calls' \in 0..MaxCalls
  PROVE  IInv'
<1>1. Types /\ thread \in [Threads -> ThreadRecord] /\ FoundIsListed
  BY DEF IInv, Types, ThreadType
<1>2. thread'[t] = h /\ \A u \in Threads \ {t} : thread'[u] = thread[u]
  BY <1>1
<1>3. TreeFrame /\ CacheFrame /\ FoundIsListed'
  BY <1>1, <1>2, SameTree, SameCache, SameListed
<1>4. PlaceOK(h)' /\ ListingOK(h)'
  BY <1>1, <1>3, PlaceStep, ListingStep
<1>5. RouteOK(thread[t])' /\ PlaceOK(thread[t])' /\ ListingOK(thread[t])'
  BY <1>2, <1>4 DEF RouteOK, PlaceOK, ListingOK, Placed
<1>6. ThreadType'
  BY <1>1 DEF ThreadType
<1> QED
  BY <1>2, <1>3, <1>5, <1>6, FrameStep

(* A call that is in no directory                                          *)
LEMMA Elsewhere ==
  ASSUME NEW h, h.at \notin {"check", "load", "map", "set", "act"}
  PROVE  PlaceOK(h) /\ ListingOK(h)
BY DEF PlaceOK, ListingOK, Placed

LEMMA IdleFacts == Idle \in ThreadRecord /\ RouteOK(Idle) /\ PlaceOK(Idle) /\ ListingOK(Idle)
<1>1. Idle \in ThreadRecord
  BY RootFacts, Bounds DEF Idle, ThreadRecord
<1>2. RouteOK(Idle)
  BY DEF RouteOK, Idle, OnTheWay
<1> QED
  BY <1>1, <1>2, Elsewhere DEF Idle

LEMMA ReturnStep ==
  ASSUME IInv, NEW t \in Threads, Return(t), thread[t].at # "set",
         UNCHANGED <<cache, nodes, calls, dropped>>
  PROVE  IInv'
<1>1. calls' \in 0..MaxCalls
  BY DEF IInv, Types, HistoryType
<1> QED
  BY <1>1, IdleFacts, CallStep DEF Return

LEMMA BeginStep ==
  ASSUME IInv, NEW t \in Threads,
         NEW op \in {"getattr", "readdir", "create", "mkdir", "unlink", "rename", "swap"},
         NEW p \in Paths, NEW q \in Paths, NEW goals \in Seq(Paths), goals # <<>>,
         op \in {"create", "mkdir"} => p # Root /\ goals = <<Front(p)>>,
         op = "rename" => q # Root /\ Len(goals) = 3,
         op # "rename" => Len(goals) = 1,
         Begin(t, op, p, q, goals)
  PROVE  IInv'
<1>1. Head(goals) \in Paths
  BY HeadTailProperties
<1>2. PICK h : h = [Idle EXCEPT !.op = op, !.at = "up", !.path = p, !.to = q,
                                !.goals = goals, !.cur = Head(goals)]
  OBVIOUS
<1>3. /\ h.at = "up" /\ h.op = op /\ h.path = p /\ h.to = q /\ h.goals = goals
      /\ h.cur = Head(goals) /\ h.found = <<>>
  BY <1>2 DEF Idle
<1>4. thread[t].at = "idle" /\ calls < MaxCalls /\ calls' = calls + 1
      /\ thread' = [thread EXCEPT ![t] = h] /\ UNCHANGED <<cache, nodes, dropped>>
  BY <1>2 DEF Begin
<1>5. h \in ThreadRecord
  BY <1>1, <1>2, IdleFacts DEF ThreadRecord
<1>6. RouteOK(h)
  <2>1. IsPrefix(Head(goals), Head(goals)) /\ Len(<<>>) = 0
    BY <1>1, OwnPrefix, EmptySeq
  <2>2. op = "rename" => Len(h.found) + Len(h.goals) = 3
    <3>1. op = "rename" => Len(<<>>) + Len(goals) = 3
      BY <2>1
    <3> QED
      BY <1>3, <3>1, Zenon
  <2>3. h.goals # <<>> /\ IsPrefix(h.cur, Head(h.goals)) /\ (op # "rename" => Len(h.goals) <= 1)
    <3>1. 1 <= 1
      OBVIOUS
    <3> QED
      BY <1>3, <2>1, <3>1, Zenon
  <2>4. op \in {"create", "mkdir"} => h.path # Root /\ h.goals = <<Front(h.path)>>
    BY <1>3
  <2>5. op = "rename" => h.to # Root /\ Len(h.found) + Len(h.goals) = 3
    BY <1>3, <2>2
  <2> QED
    BY <1>3, <2>3, <2>4, <2>5, Zenon DEF RouteOK
<1>7. calls' \in 0..MaxCalls
  BY <1>4, Bounds DEF IInv, Types, HistoryType
<1> QED
  BY <1>3, <1>4, <1>5, <1>6, <1>7, Elsewhere, CallStep

LEMMA UseStep ==
  ASSUME IInv, NEW t \in Threads, Use(t)
  PROVE  IInv'
<1>1. ASSUME NEW p \in Paths
      PROVE  <<p>> \in Seq(Paths) /\ <<p>> # <<>> /\ Len(<<p>>) = 1
  OBVIOUS
<1>2. ASSUME NEW p \in Paths, Getattr(t, p) PROVE IInv'
  BY <1>1, <1>2, RootFacts, BeginStep DEF Getattr
<1>3. ASSUME NEW p \in Paths, Readdir(t, p) PROVE IInv'
  BY <1>1, <1>3, RootFacts, BeginStep DEF Readdir
<1>4. ASSUME NEW p \in Paths \ {Root}, Create(t, p) PROVE IInv'
  BY <1>1, <1>4, RootFacts, PathFacts, BeginStep DEF Create
<1>5. ASSUME NEW p \in Paths \ {Root}, Mkdir(t, p) PROVE IInv'
  BY <1>1, <1>5, RootFacts, PathFacts, BeginStep DEF Mkdir
<1>6. ASSUME NEW p \in Paths, Unlink(t, p) PROVE IInv'
  BY <1>1, <1>6, RootFacts, BeginStep DEF Unlink
<1>7. ASSUME NEW p \in Paths, RenameSwap(t, p) PROVE IInv'
  BY <1>1, <1>7, RootFacts, BeginStep DEF RenameSwap
<1>8. ASSUME NEW p \in Paths \ {Root}, NEW q \in Paths \ {Root}, Rename(t, p, q) PROVE IInv'
  <2>1. Front(p) \in Paths /\ Front(q) \in Paths
    BY PathFacts
  <2>2. /\ <<p, Front(q), Front(p)>> \in Seq(Paths) /\ <<p, Front(q), Front(p)>> # <<>>
        /\ Len(<<p, Front(q), Front(p)>>) = 3
    BY <2>1
  <2> QED
    BY <1>8, <2>2, BeginStep DEF Rename
<1>9. CASE \E p \in Paths \ Directories : UseFile(t, p)
  <2>1. PICK p \in Paths \ {Root} : UseFile(t, p)
    BY <1>9, DirectoriesAssumption
  <2> QED
    BY <1>2, <1>4, <1>6, <1>7, <2>1 DEF UseFile
<1>10. CASE \E p \in Directories \ {Root} : UseDirectory(t, p)
  <2>1. PICK p \in Paths \ {Root} : UseDirectory(t, p)
    BY <1>10, DirectoriesAssumption
  <2> QED
    BY <1>2, <1>3, <1>5, <1>6, <2>1 DEF UseDirectory
<1> QED
  BY <1>8, <1>9, <1>10 DEF Use

(* Where a cached path, or the root, leads                                 *)
LEMMA CachedLeads ==
  ASSUME IInv, NEW p \in Paths, paths[p].id # NoId, NEW age \in 0..Slow
  PROVE  paths[p].id \in Ids /\ Leads(p, paths[p].id, age)
<1>1. paths[p] \in Entries /\ paths[p] # NoEntry
  BY DEF IInv, Types, PathsType, NoEntry
<1>2. paths[p].id \in Ids /\ paths[p].left \in 1..TTL
  BY <1>1 DEF Entries
<1>3. LeadsIn(node, touched, p, paths[p].id, -paths[p].left)
  BY DEF IInv, CachedInv, Leads, ResolvePath
<1>4. age \in Int /\ -paths[p].left \in Int /\ age >= -paths[p].left
  BY <1>2, Bounds
<1>5. touched \in [Paths -> Nat]
  BY DEF IInv, Types, HistoryType
<1> QED
  BY <1>2, <1>3, <1>4, <1>5, LeadsMore DEF Leads

(* A call resolves its goal: to an id that leads there, or to none.        *)
LEMMA ResolvedStep ==
  ASSUME IInv, NEW t \in Threads, thread[t].at \in {"up", "check", "again"},
         NEW id \in Ids \union {NoId}, Resolved(t, id),
         id # NoId => Leads(Goal(t), id, thread[t].age),
         UNCHANGED <<cache, nodes, calls, dropped>>
  PROVE  IInv'
<1>1. PICK h : h = thread[t]
  OBVIOUS
<1>2. h \in ThreadRecord /\ RouteOK(h) /\ h.at \in {"up", "check", "again"}
  BY <1>1, RecordOf
<1>3. /\ h.goals \in Seq(Paths) /\ h.goals # <<>> /\ h.found \in Seq(Ids \union {NoId})
      /\ Head(h.goals) \in Paths /\ Tail(h.goals) \in Seq(Paths)
      /\ Len(Tail(h.goals)) = Len(h.goals) - 1 /\ Len(h.goals) \in Nat \ {0}
      /\ Len(h.found) \in Nat
  BY <1>2, HeadTailProperties, LenProperties, EmptySeq DEF ThreadRecord, RouteOK
<1>10. PICK goals, more, so, after :
         /\ goals = h.goals /\ more = Len(goals) /\ so = Len(h.found)
         /\ after = Len(Tail(goals))
  OBVIOUS
<1>11. more \in Nat /\ more >= 1 /\ so \in Nat /\ after = more - 1
  <2>1. more \in Nat \ {0} /\ so \in Nat /\ after = more - 1
    BY <1>3, <1>10
  <2> QED
    BY <2>1
<1>4. PICK found : found = Append(h.found, id)
  OBVIOUS
<1>5. /\ found \in Seq(Ids \union {NoId}) /\ Len(found) = Len(h.found) + 1
      /\ DOMAIN found = 1..Len(h.found) + 1
      /\ found[Len(h.found) + 1] = id
      /\ \A n \in 1..Len(h.found) + 1 : found[n] \in Ids \union {NoId}
  BY <1>3, <1>4, AppendProperties, LenProperties, ElementOfSeq
<1> DEFINE missing == \E n \in DOMAIN found : n < 3 /\ found[n] = NoId
<1>6. thread[t].at # "set" /\ calls' \in 0..MaxCalls
  BY <1>1, <1>2 DEF IInv, Types, HistoryType
<1>7. CASE h.op = "getattr" \/ (missing /\ (h.op = "rename" => Len(found) > 1))
  <2>1. Return(t)
    BY <1>1, <1>4, <1>7 DEF Resolved, Return
  <2> QED
    BY <1>6, <2>1, ReturnStep
<1>8. CASE /\ h.op # "getattr" /\ ~(missing /\ (h.op = "rename" => Len(found) > 1))
           /\ more > 1
  <2>1. PICK g : g = [h EXCEPT !.at = "up", !.goals = Tail(h.goals),
                               !.cur = Head(Tail(h.goals)), !.found = found]
    OBVIOUS
  <2>2. thread' = [thread EXCEPT ![t] = g]
    BY <1>1, <1>4, <1>8, <1>10, <2>1 DEF Resolved
  <2>3. Tail(h.goals) # <<>> /\ Head(Tail(h.goals)) \in Paths
    <3>1. after > 0 /\ after # 0
      BY <1>8, <1>11
    <3>2. Tail(h.goals) # <<>>
      BY <1>10, <3>1, EmptySeq, Zenon
    <3> QED
      BY <1>3, <3>2, HeadTailProperties
  <2>4. g \in ThreadRecord
    BY <1>2, <1>3, <1>5, <2>1, <2>3 DEF ThreadRecord
  <2>5. /\ g.at = "up" /\ g.op = h.op /\ g.goals = Tail(h.goals)
        /\ g.cur = Head(Tail(h.goals)) /\ g.found = found /\ g.to = h.to
    BY <1>2, <2>1 DEF ThreadRecord
  <2>6. h.op = "rename"
    BY <1>2, <1>8, <1>10, <1>11 DEF RouteOK
  <2>7. RouteOK(g)
    <3>1. so + more = 3 /\ h.to # Root
      BY <1>2, <1>10, <2>6 DEF RouteOK, OnTheWay
    <3>2. Len(g.found) = so + 1 /\ Len(g.goals) = after
      BY <1>5, <1>10, <2>5
    <3>3. Len(g.found) + Len(g.goals) = 3
      <4>1. (so + 1) + after = 3
        BY <1>11, <3>1
      <4> QED
        BY <3>2, <4>1, Zenon
    <3> QED
      BY <2>3, <2>5, <2>6, <3>1, <3>3, OwnPrefix DEF RouteOK
  <2> QED
    BY <1>6, <2>2, <2>4, <2>5, <2>7, Elsewhere, CallStep
<1>9. CASE /\ h.op # "getattr" /\ ~(missing /\ (h.op = "rename" => Len(found) > 1))
           /\ ~(more > 1)
  <2>1. PICK at : at = IF h.op = "readdir" THEN "load" ELSE "act"
    OBVIOUS
  <2>2. PICK g : g = [h EXCEPT !.at = at, !.found = found, !.id = id, !.cur = Head(h.goals)]
    OBVIOUS
  <2>3. thread' = [thread EXCEPT ![t] = g]
    BY <1>1, <1>4, <1>9, <1>10, <2>1, <2>2 DEF Resolved, Goal
  <2>4. g \in ThreadRecord
    BY <1>2, <1>3, <1>5, <2>1, <2>2 DEF ThreadRecord
  <2>5. /\ g.at = at /\ g.op = h.op /\ g.goals = h.goals /\ g.path = h.path
        /\ g.cur = Head(h.goals) /\ g.found = found /\ g.to = h.to /\ g.id = id
        /\ g.age = h.age
    BY <1>2, <2>2 DEF ThreadRecord
  <2>6. more = 1
    <3>1. ~(more > 1)
      BY <1>9
    <3> QED
      BY <1>11, <3>1
  <2>7. h.op # "rename" => id \in Ids
    <3> SUFFICES ASSUME h.op # "rename" PROVE id # NoId
      OBVIOUS
    <3>1. h.found = <<>> /\ ~missing
      BY <1>2, <1>3, <1>9, <1>10 DEF RouteOK, OnTheWay
    <3>2. Len(h.found) = 0
      BY <3>1, EmptySeq
    <3>3. 1 \in DOMAIN found /\ 1 < 3 /\ found[1] = id
      BY <1>5, <3>2
    <3> QED
      BY <3>1, <3>3
  <2>8. h.op = "rename" => found[1] \in Ids /\ found[2] \in Ids
    <3> SUFFICES ASSUME h.op = "rename" PROVE found[1] \in Ids /\ found[2] \in Ids
      OBVIOUS
    <3>1. so + more = 3
      BY <1>2, <1>10 DEF RouteOK, OnTheWay
    <3>4. Len(h.found) = 2
      <4>1. so = 2
        BY <1>11, <2>6, <3>1
      <4> QED
        BY <1>10, <4>1, Zenon
    <3>2. ~missing
      BY <1>5, <1>9, <3>4
    <3>3. 1 \in DOMAIN found /\ 2 \in DOMAIN found /\ 1 < 3 /\ 2 < 3
      BY <1>5, <3>4
    <3> QED
      BY <1>5, <3>2, <3>3
  <2>9. RouteOK(g)
    <3>1. IsPrefix(g.cur, Head(g.goals)) /\ Len(g.goals) <= 1
      BY <1>3, <1>10, <2>5, <2>6, OwnPrefix
    <3>2. at \in {"load", "act"} /\ (at = "load" <=> h.op = "readdir")
      BY <2>1
    <3>3. h.op = "rename" => h.to # Root
      BY <1>2 DEF RouteOK
    <3>4. h.op \in {"create", "mkdir"} =>
            h.path # Root /\ (h.goals # <<>> => h.goals = <<Front(h.path)>>)
      BY <1>2 DEF RouteOK
    <3> QED
      BY <1>3, <2>5, <2>7, <2>8, <3>1, <3>2, <3>3, <3>4 DEF RouteOK, OnTheWay
  <2>10. PlaceOK(g) /\ ListingOK(g)
    <3>1. Placed(g) => h.op # "rename"
      BY <2>1, <2>5 DEF Placed
    <3>2. Placed(g) => Leads(g.cur, g.id, g.age)
      BY <1>1, <2>5, <2>7, <3>1, Bounds DEF Goal
    <3> QED
      BY <2>1, <2>5, <3>2 DEF PlaceOK, ListingOK
  <2> QED
    BY <1>6, <2>3, <2>4, <2>9, <2>10, CallStep
<1> QED
  BY <1>7, <1>8, <1>9

LEMMA UpStep ==
  ASSUME IInv, NEW t \in Threads, Up(t)
  PROVE  IInv'
<1>1. PICK h : h = thread[t]
  OBVIOUS
<1>2. h \in ThreadRecord /\ RouteOK(h) /\ h.at = "up"
  BY <1>1, RecordOf DEF Up
<1>3. h.goals # <<>> /\ Head(h.goals) \in Paths /\ IsPrefix(h.cur, Head(h.goals))
  BY <1>2, HeadTailProperties DEF ThreadRecord, RouteOK, OnTheWay
<1>4. h.cur \in Paths /\ h.age \in 0..Slow
  BY <1>2 DEF ThreadRecord
<1>5. PICK id : id = IF h.cur = Root THEN RootId ELSE ResolvePath(h.cur)
  OBVIOUS
<1>6. id \in Ids \union {NoId} /\ (id # NoId => id \in Ids /\ Leads(h.cur, id, h.age))
  <2>1. CASE h.cur = Root
    BY <1>5, <2>1, RootLeads, Bounds DEF Leads
  <2>2. CASE h.cur # Root
    BY <1>4, <1>5, <2>2, CachedLeads DEF ResolvePath
  <2> QED
    BY <2>1, <2>2
<1>7. calls' \in 0..MaxCalls /\ UNCHANGED <<cache, nodes, calls, dropped>>
  BY DEF Up, IInv, Types, HistoryType
<1>8. CASE id # NoId /\ h.cur = Goal(t)
  <2>1. Resolved(t, id)
    BY <1>1, <1>5, <1>8 DEF Up
  <2> QED
    BY <1>1, <1>2, <1>6, <1>7, <1>8, <2>1, ResolvedStep
<1>9. CASE id = NoId
  <2>1. PICK g : g = [h EXCEPT !.cur = Front(h.cur)]
    OBVIOUS
  <2>2. thread' = [thread EXCEPT ![t] = g]
    BY <1>1, <1>5, <1>9, <2>1 DEF Up
  <2>3. Front(h.cur) \in Paths /\ IsPrefix(Front(h.cur), Head(h.goals))
    BY <1>3, <1>4, <1>5, <1>9, FrontOnTheWay, Bounds
  <2>4. g \in ThreadRecord
    BY <1>2, <2>1, <2>3 DEF ThreadRecord
  <2>5. /\ g.at = "up" /\ g.cur = Front(h.cur) /\ g.goals = h.goals /\ g.op = h.op
        /\ g.path = h.path /\ g.to = h.to /\ g.found = h.found
    BY <1>2, <2>1 DEF ThreadRecord
  <2>6. RouteOK(g)
    BY <1>2, <1>3, <2>3, <2>5 DEF RouteOK, OnTheWay
  <2> QED
    BY <1>1, <1>2, <1>7, <2>2, <2>4, <2>5, <2>6, Elsewhere, CallStep
<1>10. CASE id # NoId /\ h.cur # Goal(t)
  <2>1. PICK g : g = [h EXCEPT !.at = "check", !.id = id]
    OBVIOUS
  <2>2. thread' = [thread EXCEPT ![t] = g]
    BY <1>1, <1>5, <1>10, <2>1 DEF Up
  <2>3. g \in ThreadRecord
    BY <1>2, <1>6, <2>1 DEF ThreadRecord
  <2>4. /\ g.at = "check" /\ g.cur = h.cur /\ g.goals = h.goals /\ g.op = h.op
        /\ g.path = h.path /\ g.to = h.to /\ g.found = h.found /\ g.id = id
        /\ g.age = h.age
    BY <1>2, <2>1 DEF ThreadRecord
  <2>5. RouteOK(g)
    BY <1>1, <1>2, <1>3, <1>6, <1>10, <2>4 DEF RouteOK, OnTheWay, Goal
  <2>6. PlaceOK(g) /\ ListingOK(g)
    BY <1>6, <1>10, <2>4 DEF PlaceOK, ListingOK
  <2> QED
    BY <1>1, <1>2, <1>7, <2>2, <2>3, <2>5, <2>6, CallStep
<1> QED
  BY <1>8, <1>9, <1>10

LEMMA CheckStep ==
  ASSUME IInv, NEW t \in Threads, Check(t)
  PROVE  IInv'
<1>1. PICK h : h = thread[t]
  OBVIOUS
<1>2. h \in ThreadRecord /\ RouteOK(h) /\ PlaceOK(h) /\ h.at = "check"
  BY <1>1, RecordOf DEF Check
<1>3. calls' \in 0..MaxCalls /\ UNCHANGED <<cache, nodes, calls, dropped>>
  BY DEF Check, IInv, Types, HistoryType
<1>4. CASE IsLoaded(h.id)
  BY <1>1, <1>2, <1>3, <1>4, ResolvedStep DEF Check
<1>5. CASE ~IsLoaded(h.id)
  <2>1. PICK g : g = [h EXCEPT !.at = "load"]
    OBVIOUS
  <2>2. thread' = [thread EXCEPT ![t] = g]
    BY <1>1, <1>5, <2>1 DEF Check, Goto
  <2>3. g \in ThreadRecord
    BY <1>2, <2>1 DEF ThreadRecord
  <2>4. /\ g.at = "load" /\ g.cur = h.cur /\ g.goals = h.goals /\ g.op = h.op
        /\ g.path = h.path /\ g.to = h.to /\ g.found = h.found /\ g.id = h.id
        /\ g.age = h.age
    BY <1>2, <2>1 DEF ThreadRecord
  <2>5. RouteOK(g)
    BY <1>2, <2>4 DEF RouteOK, OnTheWay
  <2>6. PlaceOK(g) /\ ListingOK(g)
    BY <1>2, <2>4 DEF PlaceOK, ListingOK, Placed
  <2> QED
    BY <1>1, <1>2, <1>3, <2>2, <2>3, <2>5, <2>6, CallStep
<1> QED
  BY <1>4, <1>5

LEMMA AgainStep ==
  ASSUME IInv, NEW t \in Threads, Again(t)
  PROVE  IInv'
<1>1. PICK h : h = thread[t]
  OBVIOUS
<1>2. h \in ThreadRecord /\ RouteOK(h) /\ h.at = "again"
  BY <1>1, RecordOf DEF Again
<1>3. /\ h.goals # <<>> /\ Head(h.goals) \in Paths /\ IsPrefix(h.cur, Head(h.goals))
      /\ h.cur # Head(h.goals)
  BY <1>2, HeadTailProperties DEF ThreadRecord, RouteOK, OnTheWay
<1>4. h.cur \in Paths /\ h.age \in 0..Slow
  BY <1>2 DEF ThreadRecord
<1>5. PICK next : next = Next1(t)
  OBVIOUS
<1>6. next \in Paths /\ IsPrefix(next, Head(h.goals))
  BY <1>1, <1>3, <1>4, <1>5, NextOnTheWay DEF Next1, Goal
<1>7. PICK id : id = ResolvePath(next)
  OBVIOUS
<1>8. id \in Ids \union {NoId} /\ (id # NoId => id \in Ids /\ Leads(next, id, h.age))
  BY <1>4, <1>6, <1>7, CachedLeads DEF ResolvePath
<1>9. calls' \in 0..MaxCalls /\ UNCHANGED <<cache, nodes, calls, dropped>>
  BY DEF Again, IInv, Types, HistoryType
<1>10. CASE id = NoId \/ next = Goal(t)
  <2>1. Resolved(t, id)
    BY <1>5, <1>7, <1>10 DEF Again
  <2> QED
    BY <1>1, <1>2, <1>8, <1>9, <1>10, <2>1, ResolvedStep
<1>11. CASE id # NoId /\ next # Goal(t)
  <2>1. PICK g : g = [h EXCEPT !.at = "check", !.cur = next, !.id = id]
    OBVIOUS
  <2>2. thread' = [thread EXCEPT ![t] = g]
    <3>1. thread' = [thread EXCEPT ![t].at = "check", ![t].cur = next, ![t].id = id]
      BY <1>5, <1>7, <1>11 DEF Again
    <3> QED
      BY <1>1, <2>1, <3>1 DEF IInv, Types, ThreadType
  <2>3. g \in ThreadRecord
    BY <1>2, <1>6, <1>8, <2>1 DEF ThreadRecord
  <2>4. /\ g.at = "check" /\ g.cur = next /\ g.goals = h.goals /\ g.op = h.op
        /\ g.path = h.path /\ g.to = h.to /\ g.found = h.found /\ g.id = id
        /\ g.age = h.age
    BY <1>2, <2>1 DEF ThreadRecord
  <2>5. RouteOK(g)
    BY <1>1, <1>2, <1>3, <1>6, <1>8, <1>11, <2>4 DEF RouteOK, OnTheWay, Goal
  <2>6. PlaceOK(g) /\ ListingOK(g)
    BY <1>8, <1>11, <2>4 DEF PlaceOK, ListingOK
  <2> QED
    BY <1>1, <1>2, <1>9, <2>2, <2>3, <2>5, <2>6, CallStep
<1> QED
  BY <1>10, <1>11

(* After a directory was listed the call returns or goes on.               *)
LEMMA AfterLoadCall ==
  ASSUME IInv, NEW t \in Threads, thread[t].at \in {"load", "map"},
         thread[t].goals # <<>>, AfterLoad(t)
  PROVE  \E g \in ThreadRecord :
           /\ thread' = [thread EXCEPT ![t] = g]
           /\ RouteOK(g) /\ g.at \in {"idle", "again"}
<1>1. PICK h : h = thread[t]
  OBVIOUS
<1>2. h \in ThreadRecord /\ RouteOK(h) /\ h.at \in {"load", "map"} /\ h.goals # <<>>
  BY <1>1, RecordOf
<1>3. CASE h.cur = Goal(t)
  BY <1>1, <1>3, IdleFacts DEF AfterLoad, Return, Idle
<1>4. CASE h.cur # Goal(t)
  <2>1. PICK g : g = [h EXCEPT !.at = "again"]
    OBVIOUS
  <2>2. thread' = [thread EXCEPT ![t] = g]
    BY <1>1, <1>4, <2>1 DEF AfterLoad, Goto
  <2>3. g \in ThreadRecord
    BY <1>2, <2>1 DEF ThreadRecord
  <2>4. /\ g.at = "again" /\ g.cur = h.cur /\ g.goals = h.goals /\ g.op = h.op
        /\ g.path = h.path /\ g.to = h.to /\ g.found = h.found
    BY <1>2, <2>1 DEF ThreadRecord
  <2>5. RouteOK(g)
    BY <1>1, <1>2, <1>4, <2>4 DEF RouteOK, OnTheWay, Goal
  <2> QED
    BY <2>2, <2>3, <2>4, <2>5
<1> QED
  BY <1>3, <1>4

LEMMA LoadedAlreadyStep ==
  ASSUME IInv, NEW t \in Threads, LoadedAlready(t)
  PROVE  IInv'
<1>1. thread[t].goals # <<>> /\ thread[t].at = "load"
  BY RecordOf DEF LoadedAlready, RouteOK
<1>2. PICK g \in ThreadRecord :
        /\ thread' = [thread EXCEPT ![t] = g]
        /\ RouteOK(g) /\ g.at \in {"idle", "again"}
  BY <1>1, AfterLoadCall DEF LoadedAlready
<1>3. calls' \in 0..MaxCalls
  BY DEF LoadedAlready, IInv, Types, HistoryType
<1> QED
  BY <1>1, <1>2, <1>3, Elsewhere, CallStep DEF LoadedAlready

LEMMA MadeStep ==
  ASSUME IInv, NEW t \in Threads, Made(t) \/ CallFails(t)
  PROVE  IInv'
BY ReturnStep DEF Made, CallFails

(* Drive's answer: where the directory leads, there are its items.         *)
LEMMA ListStep ==
  ASSUME IInv, NEW t \in Threads, List(t)
  PROVE  IInv'
<1>1. PICK h : h = thread[t]
  OBVIOUS
<1>2. h \in ThreadRecord /\ RouteOK(h) /\ PlaceOK(h) /\ h.at = "load"
  BY <1>1, RecordOf DEF List
<1>3. calls' \in 0..MaxCalls /\ UNCHANGED <<cache, nodes, calls, dropped>>
  BY DEF List, IInv, Types, HistoryType
<1>4. CASE Return(t)
  BY <1>1, <1>2, <1>3, <1>4, ReturnStep
<1>5. CASE thread' = [thread EXCEPT ![t].at = "map", ![t].items = Listing(h.id)]
  <2>1. PICK g : g = [h EXCEPT !.at = "map", !.items = Listing(h.id)]
    OBVIOUS
  <2>2. thread' = [thread EXCEPT ![t] = g]
    BY <1>1, <1>5, <2>1 DEF IInv, Types, ThreadType
  <2>3. Listing(h.id) \subseteq Items
    <3>1. ASSUME NEW j \in Ids \ {RootId}, OnDrive(j) PROVE node[j].name \in STRING
      <4>1. node[j] \in Nodes /\ node[j].at = "drive"
        BY <3>1 DEF OnDrive, IInv, Types, NodeType
      <4> QED
        BY <4>1, NodeFacts
    <3> QED
      BY <3>1 DEF Listing, Items
  <2>4. g \in ThreadRecord
    BY <1>2, <2>1, <2>3 DEF ThreadRecord
  <2>5. /\ g.at = "map" /\ g.cur = h.cur /\ g.goals = h.goals /\ g.op = h.op
        /\ g.path = h.path /\ g.to = h.to /\ g.found = h.found /\ g.id = h.id
        /\ g.age = h.age /\ g.items = Listing(h.id)
    BY <1>2, <2>1 DEF ThreadRecord
  <2>6. RouteOK(g)
    BY <1>2, <2>5 DEF RouteOK, OnTheWay
  <2>7. PlaceOK(g)
    <3>1. Leads(h.cur, h.id, h.age) /\ h.id \in Ids /\ h.cur \in Paths /\ h.age \in Int
      BY <1>2, Bounds DEF PlaceOK, Placed, ThreadRecord, RouteOK
    <3>2. ASSUME NEW item \in Listing(h.id)
          PROVE  Leads(Append(h.cur, item.name), item.id, h.age - Life)
      <4>1. PICK j \in Ids \ {RootId} :
              OnDrive(j) /\ node[j].parent = h.id /\ item = [name |-> node[j].name, id |-> j]
        BY <3>2 DEF Listing
      <4>2. node[j].at # "none" /\ item.name = node[j].name /\ item.id = j
        BY <4>1 DEF OnDrive
      <4>3. node \in [Ids -> Nodes] /\ touched \in [Paths -> Nat]
        BY DEF IInv, Types, NodeType, HistoryType
      <4>4. LeadsIn(node, touched, h.cur, node[j].parent, h.age)
        BY <3>1, <4>1 DEF Leads
      <4> QED
        BY <3>1, <4>2, <4>3, <4>4, ListedLeads DEF Leads
    <3> QED
      BY <2>5, <3>1, <3>2 DEF PlaceOK
  <2>8. ListingOK(g)
    <3> SUFFICES ASSUME NEW p \in Paths \ {Root}, NEW i \in Held(p),
                        Front(p) = h.cur, node[i].parent = h.id, OnDrive(i)
                 PROVE  [name |-> Last(p), id |-> i] \in Listing(h.id)
      BY <2>5 DEF ListingOK
    <3>1. i \in Ids \ {RootId} /\ node[i].name = Last(p)
      BY HeldFacts DEF Held
    <3> QED
      BY <3>1 DEF Listing
  <2> QED
    BY <1>1, <1>2, <1>3, <2>2, <2>4, <2>6, <2>7, <2>8, CallStep
<1> QED
  BY <1>1, <1>4, <1>5 DEF List

-----------------------------------------------------------------------------
(* Steps that change the cache                                             *)

LEMMA CallFrame ==
  ASSUME IInv, TreeFrame, CacheFrame, FoundIsListed', calls' \in 0..MaxCalls,
         NEW t \in Threads, NEW h \in ThreadRecord, thread' = [thread EXCEPT ![t] = h],
         RouteOK(h), PlaceOK(h)', ListingOK(h)'
  PROVE  IInv'
<1>1. thread \in [Threads -> ThreadRecord]
  BY DEF IInv, Types, ThreadType
<1>2. thread'[t] = h /\ (\A u \in Threads \ {t} : thread'[u] = thread[u]) /\ ThreadType'
  BY <1>1 DEF ThreadType
<1>3. RouteOK(thread[t])' /\ PlaceOK(thread[t])' /\ ListingOK(thread[t])'
  <2>1. RouteOK(thread[t])'
    BY <1>2 DEF RouteOK
  <2>2. PlaceOK(thread[t])'
    BY <1>2 DEF PlaceOK, Placed
  <2>3. ListingOK(thread[t])'
    BY <1>2 DEF ListingOK
  <2> QED
    BY <2>1, <2>2, <2>3
<1> QED
  BY <1>2, <1>3, FrameStep

LEMMA KeptLess ==
  ASSUME IInv, NEW p \in Paths, NEW n \in Int, NEW m \in Int, m <= n, Kept(p, n)
  PROVE  Kept(p, m)
<1> PICK left : left = paths[p].left
  OBVIOUS
<1>1. left \in Int
  BY DEF IInv, Types, PathsType, Entries, NoEntry
<1>2. n <= 0 \/ (ResolvePath(p) # NoId /\ left >= n)
  BY DEF Kept
<1>3. m <= 0 \/ (ResolvePath(p) # NoId /\ left >= m)
  BY <1>1, <1>2
<1> QED
  BY <1>3 DEF Kept

LEMMA MapItemStep ==
  ASSUME IInv, NEW t \in Threads, MapItem(t)
  PROVE  IInv'
<1>1. PICK h : h = thread[t]
  OBVIOUS
<1>2. /\ h \in ThreadRecord /\ RouteOK(h) /\ PlaceOK(h) /\ ListingOK(h) /\ h.at = "map"
      /\ Types /\ FoundIsListed
  BY <1>1, RecordOf DEF MapItem, IInv
<1>3. PICK item \in h.items :
        /\ MapPath(Append(h.cur, item.name), item.id)
        /\ thread' = [thread EXCEPT ![t].at = "set", ![t].item = item.id,
                                    ![t].items = @ \ {item}]
  BY <1>1 DEF MapItem
<1>4. UNCHANGED <<metadata, loaded, nodes, calls, dropped>>
  BY DEF MapItem
<1>5. /\ h.items \subseteq Items /\ item \in Items /\ item.name \in STRING /\ item.id \in Ids
      /\ h.cur \in Paths /\ h.age \in 0..Slow
  BY <1>2 DEF ThreadRecord, Items
<1>6. PICK new : new = Append(h.cur, item.name)
  OBVIOUS
<1>7. new # Root /\ new \in Seq(STRING) /\ Front(new) = h.cur /\ Last(new) = item.name
  BY <1>5, <1>6, AppendFacts
<1>8. /\ paths' = [paths EXCEPT ![new] = [id |-> item.id, left |-> TTL]]
      /\ children' = [children EXCEPT ![h.cur] = @ \union {new}]
  BY <1>3, <1>6, <1>7 DEF MapPath
<1>9. PICK g : g = [h EXCEPT !.at = "set", !.item = item.id, !.items = h.items \ {item}]
  OBVIOUS
<1>10. thread' = [thread EXCEPT ![t] = g]
  BY <1>1, <1>2, <1>3, <1>9 DEF Types, ThreadType
<1>11. g \in ThreadRecord
  BY <1>2, <1>5, <1>9 DEF ThreadRecord
<1>12. /\ g.at = "set" /\ g.cur = h.cur /\ g.goals = h.goals /\ g.op = h.op
       /\ g.path = h.path /\ g.to = h.to /\ g.found = h.found /\ g.id = h.id
       /\ g.age = h.age /\ g.item = item.id /\ g.items = h.items \ {item}
  BY <1>2, <1>9 DEF ThreadRecord
<1>13. TreeFrame
  BY <1>2, <1>4, SameTree
<1>14. paths \in [Paths -> Entries] /\ children \in [Paths -> SUBSET Seq(STRING)]
  BY <1>2 DEF Types, PathsType, ChildrenType
<1>15. \A p \in Paths : p # new => paths'[p] = paths[p]
  BY <1>8, <1>14
<1>16. new \in Paths => paths'[new].id = item.id /\ paths'[new].left = TTL
  BY <1>8, <1>14
<1>17. thread'[t] = g /\ \A u \in Threads \ {t} : thread'[u] = thread[u]
  BY <1>2, <1>10 DEF Types, ThreadType
<1>18. CacheFrame
  <2>1. PathsType'
    <3>1. [id |-> item.id, left |-> TTL] \in Entries
      BY <1>5, Bounds DEF Entries
    <3> QED
      BY <1>8, <1>14, <3>1 DEF PathsType
  <2>2. LivesType' /\ ChildrenType'
    BY <1>2, <1>4, <1>7, <1>8, <1>14 DEF Types, LivesType, ChildrenType
  <2>3. Leads(new, item.id, -TTL)
    <3>1. LeadsIn(node, touched, new, item.id, h.age - Life)
      BY <1>2, <1>6 DEF PlaceOK, Leads
    <3>2. h.age - Life \in Int /\ -TTL \in Int /\ -TTL >= h.age - Life
      BY <1>5, Bounds DEF Life
    <3> QED
      BY <1>2, <3>1, <3>2, LeadsMore DEF Leads, Types, HistoryType
  <2>4. ASSUME NEW p \in Paths
        PROVE  \/ paths'[p] = paths[p]
               \/ /\ paths'[p].id # NoId /\ paths'[p].left = TTL
                  /\ Leads(p, paths'[p].id, -TTL)
                  /\ \E u \in Threads : thread'[u].at = "set" /\ thread'[u].item = paths'[p].id
    <3>1. thread'[t].at = "set" /\ thread'[t].item = item.id
      BY <1>12, <1>17
    <3> QED
      BY <1>5, <1>15, <1>16, <2>3, <3>1, Bounds
  <2>5. \A u \in Threads : thread[u].at = "set" => thread'[u] = thread[u]
    BY <1>1, <1>2, <1>17
  <2> QED
    BY <1>2, <1>4, <2>1, <2>2, <2>4, <2>5, Bounds
      DEF CacheFrame, Types, LivesType, HistoryType
<1>19. RouteOK(g)
  BY <1>2, <1>5, <1>12 DEF RouteOK, OnTheWay
<1>20. PlaceOK(g)'
  <2>1. PlaceOK(g)
    BY <1>2, <1>12 DEF PlaceOK, Placed
  <2> QED
    BY <1>2, <1>11, <1>13, <2>1, PlaceStep
<1>21. ListingOK(g)'
  <2>1. ListingOK(h)'
    BY <1>2, <1>13, <1>18, ListingStep
  <2> SUFFICES ASSUME h.goals # <<>>, NEW p \in Paths \ {Root}, NEW i \in Held(p)',
                      Front(p) = h.cur, node'[i].parent = h.id, OnDrive(i)'
               PROVE  \/ [name |-> Last(p), id |-> i] \in h.items \ {item}
                      \/ Kept(p, TTL - h.age)'
                      \/ touched'[p] <= h.age
    BY <1>12 DEF ListingOK
  <2>2. \/ [name |-> Last(p), id |-> i] \in h.items
        \/ Kept(p, TTL - h.age)'
        \/ touched'[p] <= h.age
    BY <1>2, <2>1 DEF ListingOK
  <2>3. CASE [name |-> Last(p), id |-> i] = item
    <3>1. Last(p) = item.name
      BY <2>3
    <3>2. p = new
      BY <1>6, <3>1, PathFacts
    <3>3. paths'[p].id # NoId /\ paths'[p].left >= TTL - h.age
      BY <1>5, <1>16, <3>2, Bounds
    <3> QED
      BY <3>3 DEF Kept, ResolvePath
  <2> QED
    BY <2>2, <2>3
<1>22. FoundIsListed'
  <2> SUFFICES ASSUME NEW p \in Paths \ {Root}, paths'[p].id # NoId
               PROVE  p \in children'[Front(p)]
    BY DEF FoundIsListed, ResolvePath
  <2>1. CASE p = new
    BY <1>5, <1>7, <1>8, <1>14, <2>1
  <2>2. CASE p # new
    <3>1. Front(p) \in Paths /\ p \in children[Front(p)]
      BY <1>2, <1>15, <2>2, PathFacts DEF FoundIsListed, ResolvePath
    <3> QED
      BY <1>8, <1>14, <3>1
  <2> QED
    BY <2>1, <2>2
<1>23. calls' \in 0..MaxCalls
  BY <1>2, <1>4 DEF Types, HistoryType
<1> QED
  BY <1>10, <1>11, <1>13, <1>18, <1>19, <1>20, <1>21, <1>22, <1>23, CallFrame

LEMMA SetItemStep ==
  ASSUME IInv, NEW t \in Threads, SetItem(t)
  PROVE  IInv'
<1>1. PICK h : h = thread[t]
  OBVIOUS
<1>2. /\ h \in ThreadRecord /\ RouteOK(h) /\ PlaceOK(h) /\ ListingOK(h) /\ h.at = "set"
      /\ Types /\ FoundIsListed
  BY <1>1, RecordOf DEF SetItem, IInv
<1>3. /\ metadata' = [metadata EXCEPT ![h.item] = TTL]
      /\ UNCHANGED <<paths, loaded, children, nodes, calls, dropped>>
  BY <1>1 DEF SetItem, SetMetadata
<1>4. PICK g : g = [h EXCEPT !.at = "map", !.item = NoId]
  OBVIOUS
<1>5. thread' = [thread EXCEPT ![t] = g]
  BY <1>1, <1>2, <1>4 DEF SetItem, Types, ThreadType
<1>6. g \in ThreadRecord
  BY <1>2, <1>4 DEF ThreadRecord
<1>7. /\ g.at = "map" /\ g.cur = h.cur /\ g.goals = h.goals /\ g.op = h.op
      /\ g.path = h.path /\ g.to = h.to /\ g.found = h.found /\ g.id = h.id
      /\ g.age = h.age /\ g.items = h.items
  BY <1>2, <1>4 DEF ThreadRecord
<1>8. RouteOK(g)
  BY <1>2, <1>7 DEF RouteOK, OnTheWay
<1>9. PlaceOK(g) /\ ListingOK(g)
  BY <1>2, <1>7 DEF PlaceOK, ListingOK, Placed
<1>10. TreeFrame
  BY <1>2, <1>3, SameTree
<1>11. CacheFrame
  <2>1. h.item \in Ids /\ metadata \in [Ids -> 0..TTL]
    BY <1>2 DEF RouteOK, Types, LivesType
  <2>2. metadata'[h.item] = TTL /\ \A i \in Ids : metadata'[i] >= metadata[i]
    BY <1>3, <2>1, Bounds
  <2>3. metadata' \in [Ids -> 0..TTL]
    BY <1>3, <2>1, Bounds
  <2>4. \A u \in Threads : u # t => thread'[u] = thread[u]
    BY <1>2, <1>5 DEF Types, ThreadType
  <2>5. \A u \in Threads : thread[u].at = "set" =>
          \/ thread'[u].at = "set" /\ thread'[u].item = thread[u].item
          \/ metadata'[thread[u].item] = TTL
    BY <1>1, <2>2, <2>4
  <2> QED
    BY <1>2, <1>3, <2>2, <2>3, <2>5, Bounds
      DEF CacheFrame, Types, PathsType, LivesType, ChildrenType, HistoryType
<1>12. PlaceOK(g)' /\ ListingOK(g)'
  BY <1>2, <1>6, <1>9, <1>10, <1>11, PlaceStep, ListingStep
<1>13. FoundIsListed' /\ calls' \in 0..MaxCalls
  BY <1>2, <1>3 DEF FoundIsListed, ResolvePath, Types, HistoryType
<1> QED
  BY <1>5, <1>6, <1>8, <1>10, <1>11, <1>12, <1>13, CallFrame

(* A directory is called loaded when all its items are mapped.             *)
LEMMA MarkStep ==
  ASSUME IInv, NEW t \in Threads, Mark(t)
  PROVE  IInv'
<1>1. PICK h : h = thread[t]
  OBVIOUS
<1>2. /\ h \in ThreadRecord /\ RouteOK(h) /\ PlaceOK(h) /\ ListingOK(h)
      /\ h.at = "map" /\ h.items = {} /\ h.goals # <<>>
      /\ Types /\ FoundIsListed
  BY <1>1, RecordOf DEF Mark, IInv
<1>3. /\ loaded' = [loaded EXCEPT ![h.id] = TTL]
      /\ UNCHANGED <<paths, metadata, children, nodes, calls, dropped>>
  BY <1>1 DEF Mark, MarkLoaded
<1>4. PICK g \in ThreadRecord :
        /\ thread' = [thread EXCEPT ![t] = g]
        /\ RouteOK(g) /\ g.at \in {"idle", "again"}
  BY <1>1, <1>2, AfterLoadCall DEF Mark
<1>5. h.id \in Ids /\ h.cur \in Paths /\ h.age \in 0..Slow /\ h.age \in Int
  BY <1>2, Bounds DEF RouteOK, ThreadRecord
<1>6. TreeFrame
  BY <1>2, <1>3, SameTree
<1>7. loaded \in [Ids -> 0..TTL] /\ loaded'[h.id] = TTL
  BY <1>2, <1>3, <1>5 DEF Types, LivesType
<1>8. LoadedOK(h.id)'
  <2> SUFFICES ASSUME NEW p \in Paths \ {Root}, NEW i \in Held(p),
                      node[i].parent = h.id, OnDrive(i)
               PROVE  Kept(p, TTL - Slow) \/ Since(p, Len(p) * Life - TTL)
    BY <1>3, <1>7 DEF LoadedOK, Held, OnDrive, Kept, ResolvePath, Since, nodes
  <2>1. /\ Len(p) * Life \in Nat /\ Len(p) * Life >= Life
        /\ (Len(p) - 1) * Life = Len(p) * Life - Life
    BY Times
  <2>2. Front(p) \in Paths /\ Len(Front(p)) = Len(p) - 1
    BY PathFacts
  <2>3. h.id \in HeldIn(node)[Front(p)]
    BY HeldFacts DEF Held
  <2>4. LeadsIn(node, touched, h.cur, h.id, h.age)
    BY <1>2 DEF PlaceOK, Placed, Leads
  <2>5. touched \in [Paths -> Nat]
    BY <1>2 DEF Types, HistoryType
  <2>6. CASE Front(p) = h.cur
    <3>1. Kept(p, TTL - h.age) \/ touched[p] <= h.age
      BY <1>2, <2>6 DEF ListingOK
    <3>2. CASE Kept(p, TTL - h.age)
      <4>1. TTL - h.age \in Int /\ TTL - Slow \in Int /\ TTL - Slow <= TTL - h.age
        BY <1>5, Bounds
      <4> QED
        BY <3>2, <4>1, KeptLess
    <3>3. CASE touched[p] <= h.age
      <4>1. touched[p] <= Len(p) * Life - TTL
        <5>1. PICK own, life : own = Len(p) * Life /\ life = Life
          OBVIOUS
        <5>2. own \in Nat /\ own >= life /\ life = TTL + Slow
          BY <2>1, <5>1 DEF Life
        <5>3. touched[p] <= own - TTL
          BY <1>5, <2>5, <3>3, <5>2, Bounds
        <5> QED
          BY <5>1, <5>3
      <4> QED
        BY <4>1, SinceOwn DEF Since
    <3> QED
      BY <3>1, <3>2, <3>3
  <2>7. CASE Front(p) # h.cur
    <3>1. SinceIn(touched, Front(p), (Len(p) - 1) * Life + h.age)
      BY <2>2, <2>3, <2>4, <2>7 DEF LeadsIn
    <3>2. /\ (Len(p) - 1) * Life + h.age \in Int /\ Len(p) * Life - TTL \in Int
          /\ Len(p) * Life - TTL >= ((Len(p) - 1) * Life + h.age) + 0
      <4>1. PICK own, front, life : /\ own = Len(p) * Life /\ front = (Len(p) - 1) * Life
                                    /\ life = Life
        OBVIOUS
      <4>2. own \in Nat /\ front = own - life /\ life = TTL + Slow
        BY <2>1, <4>1 DEF Life
      <4>3. front + h.age \in Int /\ own - TTL \in Int /\ own - TTL >= (front + h.age) + 0
        BY <1>5, <4>2, Bounds
      <4> QED
        BY <4>1, <4>3
    <3>3. \A q \in Paths : touched[q] <= touched[q] + 0
      BY <2>5
    <3>4. SinceIn(touched, Front(p), Len(p) * Life - TTL)
      BY <2>2, <2>5, <3>1, <3>2, <3>3, SinceMore
    <3> QED
      BY <3>4, SinceFront DEF Since
  <2> QED
    BY <2>6, <2>7
<1>9. CacheFrame
  <2>1. \A d \in Ids : loaded'[d] = loaded[d] \/ LoadedOK(d)'
    BY <1>3, <1>7, <1>8
  <2>2. loaded' \in [Ids -> 0..TTL]
    BY <1>3, <1>5, <1>7, Bounds
  <2>3. \A u \in Threads : thread[u].at = "set" => thread'[u] = thread[u]
    BY <1>1, <1>2, <1>4 DEF Types, ThreadType
  <2> QED
    BY <1>2, <1>3, <2>1, <2>2, <2>3, Bounds
      DEF CacheFrame, Types, PathsType, LivesType, ChildrenType, HistoryType
<1>10. PlaceOK(g)' /\ ListingOK(g)'
  <2>1. PlaceOK(g) /\ ListingOK(g)
    BY <1>4, Elsewhere
  <2> QED
    BY <1>2, <1>6, <1>9, <2>1, PlaceStep, ListingStep
<1>11. FoundIsListed' /\ calls' \in 0..MaxCalls
  BY <1>2, <1>3 DEF FoundIsListed, ResolvePath, Types, HistoryType
<1> QED
  BY <1>4, <1>6, <1>9, <1>10, <1>11, CallFrame

LEMMA DescribeStep ==
  ASSUME IInv, NEW t \in Threads, Describe(t)
  PROVE  IInv'
<1>1. PICK h : h = thread[t]
  OBVIOUS
<1>2. h \in ThreadRecord /\ RouteOK(h) /\ h.at = "act" /\ h.op = "swap" /\ Types /\ FoundIsListed
  BY <1>1, RecordOf DEF Describe, IInv
<1>3. UNCHANGED <<paths, loaded, children, nodes, calls, dropped>>
  BY DEF Describe
<1>4. PICK g : g = [h EXCEPT !.at = "forget"]
  OBVIOUS
<1>5. thread' = [thread EXCEPT ![t] = g]
  BY <1>1, <1>4 DEF Describe, Goto
<1>6. g \in ThreadRecord
  BY <1>2, <1>4 DEF ThreadRecord
<1>7. g.at = "forget" /\ g.op = "swap" /\ g.goals = h.goals
  BY <1>2, <1>4 DEF ThreadRecord
<1>8. RouteOK(g)
  BY <1>2, <1>7 DEF RouteOK, OnTheWay
<1>9. PlaceOK(g) /\ ListingOK(g)
  BY <1>7, Elsewhere
<1>10. TreeFrame
  BY <1>2, <1>3, SameTree
<1>11. CacheFrame
  <2>1. h.id \in Ids /\ metadata \in [Ids -> 0..TTL]
    BY <1>2 DEF RouteOK, Types, LivesType
  <2>2. metadata' = [metadata EXCEPT ![h.id] = TTL] \/ metadata' = metadata
    BY <1>1 DEF Describe, SetMetadata
  <2>3. metadata' \in [Ids -> 0..TTL] /\ \A i \in Ids : metadata'[i] >= metadata[i]
    BY <2>1, <2>2, Bounds
  <2>4. \A u \in Threads : thread[u].at = "set" => thread'[u] = thread[u]
    BY <1>1, <1>2, <1>5 DEF Types, ThreadType
  <2> QED
    BY <1>2, <1>3, <2>3, <2>4, Bounds
      DEF CacheFrame, Types, PathsType, LivesType, ChildrenType, HistoryType
<1>12. PlaceOK(g)' /\ ListingOK(g)'
  BY <1>2, <1>6, <1>9, <1>10, <1>11, PlaceStep, ListingStep
<1>13. FoundIsListed' /\ calls' \in 0..MaxCalls
  BY <1>2, <1>3 DEF FoundIsListed, ResolvePath, Types, HistoryType
<1> QED
  BY <1>5, <1>6, <1>8, <1>10, <1>11, <1>12, <1>13, CallFrame

LEMMA InvalidateFrame ==
  ASSUME IInv, NEW p \in Paths, Invalidate(p),
         \A t \in Threads : thread[t].at = "set" => thread'[t] = thread[t]
  PROVE  TreeFrame /\ CacheFrame /\ FoundIsListed' /\ calls' \in 0..MaxCalls
<1>1. Types /\ FoundIsListed
  BY DEF IInv
<1>2. PICK id : id = ResolvePath(p)
  OBVIOUS
<1>3. /\ paths' = [paths EXCEPT ![p] = NoEntry]
      /\ metadata' = IF id = NoId THEN metadata ELSE [metadata EXCEPT ![id] = 0]
      /\ children' = IF p = Root THEN children
                     ELSE [children EXCEPT ![Front(p)] = @ \ {p}]
      /\ touched' = [touched EXCEPT ![p] = 0]
      /\ dropped' = [i \in Ids |-> IF i = id THEN 0 ELSE dropped[i]]
      /\ UNCHANGED <<loaded, node, calls>>
  BY <1>2 DEF Invalidate, InvalidatePath
<1>4. /\ paths \in [Paths -> Entries] /\ touched \in [Paths -> Nat]
      /\ metadata \in [Ids -> 0..TTL] /\ dropped \in [Ids -> 0..TTL]
      /\ children \in [Paths -> SUBSET Seq(STRING)]
  BY <1>1 DEF Types, PathsType, LivesType, ChildrenType, HistoryType
<1>5. TreeFrame
  <2>1. touched' \in [Paths -> Nat] /\ \A q \in Paths : touched'[q] <= touched[q]
    BY <1>3, <1>4
  <2>2. NodeType'
    BY <1>1, <1>3 DEF Types, NodeType
  <2> QED
    BY <1>3, <2>1, <2>2 DEF TreeFrame
<1>6. CacheFrame
  <2>1. PathsType'
    BY <1>3, <1>4 DEF PathsType, Entries
  <2>2. LivesType'
    <3>1. metadata' \in [Ids -> 0..TTL]
      <4>1. 0 \in 0..TTL
        BY Bounds
      <4>2. [metadata EXCEPT ![id] = 0] \in [Ids -> 0..TTL]
        BY <1>4, <4>1
      <4> QED
        BY <1>3, <1>4, <4>2
    <3> QED
      BY <1>1, <1>3, <3>1 DEF Types, LivesType
  <2>3. ChildrenType'
    BY <1>3, <1>4 DEF ChildrenType
  <2>4. \A q \in Paths : \/ paths'[q] = paths[q]
                         \/ paths'[q] = NoEntry /\ (q # Root => touched'[q] = 0)
    BY <1>3, <1>4
  <2>5. dropped' \in [Ids -> 0..TTL] /\ \A i \in Ids : dropped'[i] <= dropped[i]
    BY <1>3, <1>4, Bounds
  <2>6. \A i \in Ids : metadata'[i] >= metadata[i] \/ dropped'[i] = 0
    BY <1>3, <1>4, Bounds
  <2> QED
    BY <1>3, <2>1, <2>2, <2>3, <2>4, <2>5, <2>6 DEF CacheFrame
<1>7. FoundIsListed'
  <2> SUFFICES ASSUME NEW q \in Paths \ {Root}, paths'[q].id # NoId
               PROVE  q \in children'[Front(q)]
    BY DEF FoundIsListed, ResolvePath
  <2>1. q # p /\ paths'[q] = paths[q]
    BY <1>3, <1>4 DEF NoEntry
  <2>2. Front(q) \in Paths /\ q \in children[Front(q)]
    BY <1>1, <2>1, PathFacts DEF FoundIsListed, ResolvePath
  <2> QED
    BY <1>3, <1>4, <2>1, <2>2
<1>8. calls' \in 0..MaxCalls
  BY <1>1, <1>3 DEF Types, HistoryType
<1> QED
  BY <1>5, <1>6, <1>7, <1>8

LEMMA ForgetStep ==
  ASSUME IInv, NEW t \in Threads, Forget(t)
  PROVE  IInv'
<1>1. PICK h : h = thread[t]
  OBVIOUS
<1>2. h \in ThreadRecord /\ RouteOK(h) /\ h.at = "forget" /\ Types
  BY <1>1, RecordOf DEF Forget, IInv
<1>3. PICK g \in ThreadRecord :
        /\ thread' = [thread EXCEPT ![t] = g]
        /\ RouteOK(g) /\ g.at \in {"idle", "forgetTarget"}
  <2>1. CASE h.op = "rename"
    <3>1. PICK g : g = [h EXCEPT !.at = "forgetTarget"]
      OBVIOUS
    <3>2. thread' = [thread EXCEPT ![t] = g]
      BY <1>1, <2>1, <3>1 DEF Forget, Goto
    <3>3. g \in ThreadRecord
      BY <1>2, <3>1 DEF ThreadRecord
    <3>4. g.at = "forgetTarget" /\ g.op = "rename" /\ g.to = h.to
      BY <1>2, <2>1, <3>1 DEF ThreadRecord
    <3>5. RouteOK(g)
      BY <1>2, <2>1, <3>4 DEF RouteOK, OnTheWay
    <3> QED
      BY <3>2, <3>3, <3>4, <3>5
  <2>2. CASE h.op # "rename"
    BY <1>1, <2>2, IdleFacts DEF Forget, Return, Idle
  <2> QED
    BY <2>1, <2>2
<1>4. h.path \in Paths /\ Invalidate(h.path)
  BY <1>1, <1>2 DEF Forget, ThreadRecord
<1>5. \A u \in Threads : thread[u].at = "set" => thread'[u] = thread[u]
  BY <1>1, <1>2, <1>3 DEF Types, ThreadType
<1>6. TreeFrame /\ CacheFrame /\ FoundIsListed' /\ calls' \in 0..MaxCalls
  BY <1>4, <1>5, InvalidateFrame
<1>7. PlaceOK(g)' /\ ListingOK(g)'
  <2>1. PlaceOK(g) /\ ListingOK(g)
    BY <1>3, Elsewhere
  <2> QED
    BY <1>2, <1>6, <2>1, PlaceStep, ListingStep
<1> QED
  BY <1>3, <1>6, <1>7, CallFrame

LEMMA ForgetTargetStep ==
  ASSUME IInv, NEW t \in Threads, ForgetTarget(t)
  PROVE  IInv'
<1>1. PICK h : h = thread[t]
  OBVIOUS
<1>2. h \in ThreadRecord /\ RouteOK(h) /\ h.at = "forgetTarget" /\ Types
  BY <1>1, RecordOf DEF ForgetTarget, IInv
<1>3. thread' = [thread EXCEPT ![t] = Idle]
  BY DEF ForgetTarget, Return
<1>4. h.to \in Paths /\ h.to # Root
  BY <1>2 DEF RouteOK, ThreadRecord
<1>5. Front(h.to) \in Paths /\ Invalidate(Front(h.to))
  BY <1>1, <1>4, PathFacts DEF ForgetTarget
<1>6. \A u \in Threads : thread[u].at = "set" => thread'[u] = thread[u]
  BY <1>1, <1>2, <1>3 DEF Types, ThreadType
<1>7. TreeFrame /\ CacheFrame /\ FoundIsListed' /\ calls' \in 0..MaxCalls
  BY <1>5, <1>6, InvalidateFrame
<1>8. PlaceOK(Idle)' /\ ListingOK(Idle)'
  BY <1>2, <1>7, IdleFacts, PlaceStep, ListingStep
<1> QED
  BY <1>3, <1>7, <1>8, IdleFacts, CallFrame

-----------------------------------------------------------------------------
(* Steps that change the tree                                              *)

LEMMA BecomesFrame ==
  ASSUME Types, NEW nodeOf \in [Ids -> Nodes], Becomes(nodeOf)
  PROVE  TreeFrame /\ node' = nodeOf
<1> DEFINE Same(p) == /\ HeldIn(nodeOf)[p] = Held(p)
                      /\ \A i \in Held(p) : nodeOf[i] = node[i]
<1>1. node' = nodeOf /\ touched' = [p \in Paths |-> IF Same(p) THEN touched[p] ELSE 0]
  BY DEF Becomes
<1>2. touched \in [Paths -> Nat]
  BY DEF Types, HistoryType
<1>3. touched' \in [Paths -> Nat]
      /\ \A p \in Paths : touched'[p] <= touched[p] /\ (touched'[p] = 0 \/ Same(p))
  <2> HIDE DEF Same
  <2> QED
    BY <1>1, <1>2
<1>4. ASSUME NEW p \in Paths
      PROVE  \/ p # Root /\ touched'[p] = 0
             \/ /\ HeldIn(nodeOf)[p] = HeldIn(node)[p]
                /\ \A i \in HeldIn(node)[p] \ {RootId} : nodeOf[i] = node[i]
  <2>1. CASE p = Root
    BY <2>1, HeldFacts
  <2>2. CASE p # Root
    BY <1>3, <2>2 DEF Held
  <2> QED
    BY <2>1, <2>2
<1>5. NodeType'
  BY <1>1 DEF NodeType
<1> HIDE DEF Same
<1> QED
  BY <1>1, <1>3, <1>4, <1>5 DEF TreeFrame

(* A remote change, or an upload                                           *)
LEMMA RemoteStep ==
  ASSUME IInv, NEW nodeOf \in [Ids -> Nodes], Becomes(nodeOf),
         UNCHANGED <<cache, thread, dropped>>, calls' \in 0..MaxCalls
  PROVE  IInv'
<1>1. Types /\ FoundIsListed
  BY DEF IInv
<1>2. TreeFrame /\ CacheFrame /\ FoundIsListed'
  BY <1>1, BecomesFrame, SameCache, SameListed
<1>3. ThreadType'
  BY <1>1 DEF Types, ThreadType
<1> QED
  BY <1>2, <1>3, FrameStep

(* A call changes the tree, and forgets the path next.                     *)
LEMMA ChangeStep ==
  ASSUME IInv, NEW t \in Threads, thread[t].at = "act",
         NEW nodeOf \in [Ids -> Nodes], Becomes(nodeOf),
         thread' = [thread EXCEPT ![t].at = "forget"],
         UNCHANGED <<cache, calls, dropped>>
  PROVE  IInv'
<1>1. PICK h : h = thread[t]
  OBVIOUS
<1>2. h \in ThreadRecord /\ RouteOK(h) /\ h.at = "act" /\ Types /\ FoundIsListed
  BY <1>1, RecordOf DEF IInv
<1>3. PICK g : g = [h EXCEPT !.at = "forget"]
  OBVIOUS
<1>4. thread' = [thread EXCEPT ![t] = g]
  BY <1>1, <1>3
<1>5. g \in ThreadRecord
  BY <1>2, <1>3 DEF ThreadRecord
<1>6. /\ g.at = "forget" /\ g.op = h.op /\ g.goals = h.goals /\ g.path = h.path /\ g.to = h.to
  BY <1>2, <1>3 DEF ThreadRecord
<1>7. RouteOK(g)
  BY <1>2, <1>6 DEF RouteOK, OnTheWay
<1>8. \A u \in Threads : thread[u].at = "set" => thread'[u] = thread[u]
  BY <1>1, <1>2, <1>4 DEF Types, ThreadType
<1>9. TreeFrame /\ CacheFrame /\ FoundIsListed' /\ calls' \in 0..MaxCalls
  BY <1>2, <1>8, BecomesFrame, SameCache, SameListed DEF Types, HistoryType
<1>10. PlaceOK(g)' /\ ListingOK(g)'
  BY <1>2, <1>5, <1>6, <1>9, Elsewhere, PlaceStep, ListingStep
<1> QED
  BY <1>4, <1>5, <1>7, <1>9, <1>10, CallFrame

LEMMA WithoutType ==
  ASSUME Types, NEW i \in Ids
  PROVE  Without(i) \in [Ids -> Nodes]
<1>1. node \in [Ids -> Nodes]
  BY DEF Types, NodeType
<1>2. ASSUME NEW j \in Ids
      PROVE  /\ node[j] \in Nodes
             /\ node[j].at = "drive" => [node[j] EXCEPT !.at = "none"] \in Nodes
  <2>1. node[j] \in Nodes /\ (node[j].at = "drive" => node[j] \in Named)
    BY <1>1, NodeFacts
  <2>2. \A n \in Named : [n EXCEPT !.at = "none"] \in Named
    BY DEF Named
  <2> QED
    BY <2>1, <2>2 DEF Nodes
<1> QED
  BY <1>2 DEF Without

LEMMA NodeIsOne ==
  ASSUME NEW at \in {"none", "local", "drive"}, NEW i \in Ids, NEW name \in STRING
  PROVE  /\ Node(at, i, name) \in Nodes
         /\ Node(at, i, name).at = at /\ Node(at, i, name).parent = i
         /\ Node(at, i, name).name = name
BY DEF Node, Nodes, Named

LEMMA DeleteStep ==
  ASSUME IInv, NEW t \in Threads, Delete(t)
  PROVE  IInv'
<1>1. thread[t].id \in Ids /\ Types
  BY RecordOf DEF Delete, RouteOK, IInv
<1>2. Without(thread[t].id) \in [Ids -> Nodes]
  BY <1>1, WithoutType
<1> QED
  BY <1>2, ChangeStep DEF Delete

LEMMA MoveStep ==
  ASSUME IInv, NEW t \in Threads, Move(t)
  PROVE  IInv'
<1>1. PICK h : h = thread[t]
  OBVIOUS
<1>2. h \in ThreadRecord /\ RouteOK(h) /\ h.at = "act" /\ h.op = "rename"
  BY <1>1, RecordOf DEF Move
<1>3. h.to \in Paths /\ h.to # Root /\ h.found[1] \in Ids /\ h.found[2] \in Ids
  BY <1>2 DEF RouteOK, ThreadRecord
<1>4. Last(h.to) \in STRING
  BY <1>3, PathFacts
<1>5. PICK moved : moved = Node("drive", h.found[2], Last(h.to))
  OBVIOUS
<1>6. moved \in Nodes
  BY <1>3, <1>4, <1>5, NodeIsOne
<1>7. [node EXCEPT ![h.found[1]] = moved] \in [Ids -> Nodes]
  BY <1>3, <1>6 DEF IInv, Types, NodeType
<1>8. /\ Becomes([node EXCEPT ![h.found[1]] = moved])
      /\ thread' = [thread EXCEPT ![t].at = "forget"] /\ UNCHANGED <<cache, calls, dropped>>
  BY <1>1, <1>5 DEF Move, Goto
<1> QED
  BY <1>1, <1>2, <1>7, <1>8, ChangeStep

LEMMA MakeStep ==
  ASSUME IInv, NEW t \in Threads, Make(t)
  PROVE  IInv'
<1>1. PICK h : h = thread[t]
  OBVIOUS
<1>2. /\ h \in ThreadRecord /\ RouteOK(h) /\ PlaceOK(h)
      /\ h.at = "act" /\ h.op \in {"create", "mkdir"} /\ Types /\ FoundIsListed
  BY <1>1, RecordOf DEF Make, IInv
<1>3. PICK at : at = IF h.op = "create" THEN "local" ELSE "drive"
  OBVIOUS
<1>4. PICK i \in Fresh :
        /\ Becomes([node EXCEPT ![i] = Node(at, h.id, Last(h.path))])
        /\ thread' = [thread EXCEPT ![t].at = "map",
               ![t].cur = Front(h.path), ![t].goals = <<>>,
               ![t].items = {[name |-> Last(h.path), id |-> i]}]
  BY <1>1, <1>3 DEF Make
<1>5. i \in Ids /\ i # RootId
  BY DEF Fresh
<1>6. h.path \in Paths /\ h.path # Root /\ h.id \in Ids /\ h.age \in 0..Slow
      /\ h.goals = <<Front(h.path)>> /\ h.cur = Head(h.goals)
  BY <1>2 DEF RouteOK, ThreadRecord
<1>7. Last(h.path) \in STRING /\ Front(h.path) \in Paths /\ h.cur = Front(h.path)
  BY <1>6, PathFacts
<1>8. PICK made : made = Node(at, h.id, Last(h.path))
  OBVIOUS
<1>9. made \in Nodes /\ made.at # "none" /\ made.parent = h.id /\ made.name = Last(h.path)
  BY <1>3, <1>6, <1>7, <1>8, NodeIsOne
<1>10. PICK nodeOf : nodeOf = [node EXCEPT ![i] = made]
  OBVIOUS
<1>11. nodeOf \in [Ids -> Nodes] /\ nodeOf[i] = made
  BY <1>2, <1>5, <1>9, <1>10 DEF Types, NodeType
<1>12. TreeFrame /\ node' = nodeOf
  BY <1>2, <1>4, <1>8, <1>10, <1>11, BecomesFrame
<1>13. PICK items : items = {[name |-> Last(h.path), id |-> i]}
  OBVIOUS
<1>14. items \in SUBSET Items
  BY <1>5, <1>7, <1>13 DEF Items
<1>15. PICK g : g = [h EXCEPT !.at = "map", !.cur = Front(h.path), !.goals = <<>>,
                              !.items = items]
  OBVIOUS
<1>16. thread' = [thread EXCEPT ![t] = g]
  BY <1>1, <1>2, <1>4, <1>13, <1>15 DEF Types, ThreadType
<1>17. g \in ThreadRecord
  <2>1. <<>> \in Seq(Paths)
    BY EmptySeq
  <2> QED
    BY <1>2, <1>7, <1>14, <1>15, <2>1 DEF ThreadRecord
<1>18. /\ g.at = "map" /\ g.op = h.op /\ g.path = h.path /\ g.id = h.id /\ g.age = h.age
       /\ g.cur = h.cur /\ g.goals = <<>> /\ g.items = items
  BY <1>2, <1>7, <1>15 DEF ThreadRecord
<1>19. RouteOK(g)
  <2>1. Len(<<>>) <= 1
    BY EmptySeq
  <2> QED
    BY <1>2, <1>6, <1>18, <2>1 DEF RouteOK, OnTheWay
<1>20. UNCHANGED <<cache, calls, dropped>>
  BY DEF Make
<1>21. \A u \in Threads : thread[u].at = "set" => thread'[u] = thread[u]
  BY <1>1, <1>2, <1>16 DEF Types, ThreadType
<1>22. CacheFrame /\ FoundIsListed' /\ calls' \in 0..MaxCalls
  BY <1>2, <1>20, <1>21, SameCache, SameListed DEF Types, HistoryType
<1>23. PlaceOK(g)'
  <2>1. LeadsIn(node, touched, h.cur, h.id, h.age) /\ h.age \in Int /\ h.age >= -Life
    BY <1>2, <1>6, Bounds DEF PlaceOK, Placed, Leads
  <2>2. LeadsIn(node', touched', h.cur, h.id, h.age)
    BY <1>2, <1>12, <2>1, LeadsKept
  <2>3. touched' \in [Paths -> Nat] /\ h.cur \in Paths
    BY <1>7, <1>12 DEF TreeFrame
  <2>4. LeadsIn(node', touched', Append(h.cur, Last(h.path)), i, h.age - Life)
    BY <1>5, <1>9, <1>11, <1>12, <2>1, <2>2, <2>3, ListedLeads
  <2>5. \A item \in items : item.name = Last(h.path) /\ item.id = i
    BY <1>13
  <2> QED
    BY <1>18, <2>2, <2>4, <2>5 DEF PlaceOK, Leads
<1>24. ListingOK(g)'
  BY <1>18 DEF ListingOK
<1> QED
  BY <1>12, <1>16, <1>17, <1>19, <1>22, <1>23, <1>24, CallFrame

LEMMA UploadStep ==
  ASSUME IInv, NEW i \in Ids, Upload(i)
  PROVE  IInv'
<1>1. PICK j \in Fresh :
        Becomes([node EXCEPT ![j] = [node[i] EXCEPT !.at = "drive"], ![i].at = "none"])
  BY DEF Upload
<1>2. node \in [Ids -> Nodes] /\ j \in Ids
  BY DEF Fresh, IInv, Types, NodeType
<1>3. node[i] \in Named
  BY <1>2, NodeFacts DEF Upload
<1>4. /\ [node[i] EXCEPT !.at = "drive"] \in Named
      /\ \A n \in Named : [n EXCEPT !.at = "none"] \in Named
  BY <1>3 DEF Named
<1>5. [node EXCEPT ![j] = [node[i] EXCEPT !.at = "drive"], ![i].at = "none"] \in [Ids -> Nodes]
  BY <1>2, <1>3, <1>4 DEF Nodes
<1>6. UNCHANGED <<cache, thread, dropped>> /\ calls' \in 0..MaxCalls
  BY DEF Upload, IInv, Types, HistoryType
<1> QED
  BY <1>1, <1>5, <1>6, RemoteStep

LEMMA RemoteAddStep ==
  ASSUME IInv, NEW p \in Paths \ {Root}, RemoteAdd(p)
  PROVE  IInv'
<1>1. PICK d \in Held(Front(p)), i \in Fresh :
        Becomes([node EXCEPT ![i] = Node("drive", d, Last(p))])
  BY DEF RemoteAdd
<1>2. i \in Ids /\ Last(p) \in STRING /\ Front(p) \in Paths
  BY PathFacts DEF Fresh
<1>3. d \in Ids
  BY <1>1, <1>2, HeldFacts DEF Held
<1>4. Node("drive", d, Last(p)) \in Nodes
  BY <1>2, <1>3, NodeIsOne
<1>5. [node EXCEPT ![i] = Node("drive", d, Last(p))] \in [Ids -> Nodes]
  BY <1>2, <1>4 DEF IInv, Types, NodeType
<1>6. UNCHANGED <<cache, thread, dropped>> /\ calls' \in 0..MaxCalls
  BY Bounds DEF RemoteAdd, IInv, Types, HistoryType
<1> QED
  BY <1>1, <1>5, <1>6, RemoteStep

LEMMA RemoteDeleteStep ==
  ASSUME IInv, NEW i \in Ids, RemoteDelete(i)
  PROVE  IInv'
<1>1. Without(i) \in [Ids -> Nodes]
  BY WithoutType DEF IInv
<1>2. UNCHANGED <<cache, thread, dropped>> /\ calls' \in 0..MaxCalls
  BY Bounds DEF RemoteDelete, IInv, Types, HistoryType
<1> QED
  BY <1>1, <1>2, RemoteStep DEF RemoteDelete

-----------------------------------------------------------------------------
(* Time passes                                                             *)

Aged(h) == IF h.at = "idle" THEN Idle ELSE [h EXCEPT !.age = @ + 1]

LEMMA TickFacts ==
  ASSUME IInv, Tick
  PROVE  /\ node' = node /\ calls' = calls /\ children' = children
         /\ thread' = [t \in Threads |-> Aged(thread[t])]
         /\ touched' \in [Paths -> Nat]
         /\ \A p \in Paths : touched'[p] <= touched[p] + 1
         /\ dropped' \in [Ids -> 0..TTL]
         /\ \A i \in Ids : dropped'[i] <= dropped[i] + 1
         /\ PathsType' /\ LivesType'
         /\ \A p \in Paths :
              \/ paths'[p] = NoEntry /\ paths[p].left <= 1
              \/ /\ paths'[p].id = paths[p].id /\ paths[p].left \in 2..TTL
                 /\ paths'[p].left = paths[p].left - 1
         /\ \A i \in Ids : /\ metadata'[i] >= metadata[i] - 1
                           /\ loaded'[i] = IF loaded[i] = 0 THEN 0 ELSE loaded[i] - 1
<1>1. /\ touched \in [Paths -> Nat] /\ dropped \in [Ids -> 0..TTL]
      /\ paths \in [Paths -> Entries] /\ metadata \in [Ids -> 0..TTL]
      /\ loaded \in [Ids -> 0..TTL]
  BY DEF IInv, Types, HistoryType, PathsType, LivesType
<1>2. /\ node' = node /\ calls' = calls /\ children' = children
      /\ thread' = [t \in Threads |-> Aged(thread[t])]
  BY DEF Tick, Pass, Aged
<1>3. /\ touched' \in [Paths -> Nat]
      /\ \A p \in Paths : touched'[p] <= touched[p] + 1
  <2>1. touched' = [p \in Paths |-> IF touched[p] = LongAgo THEN touched[p] ELSE touched[p] + 1]
    BY DEF Tick
  <2> QED
    BY <1>1, <2>1
<1>4. /\ dropped' \in [Ids -> 0..TTL]
      /\ \A i \in Ids : dropped'[i] <= dropped[i] + 1
  <2>1. dropped' = [i \in Ids |-> IF dropped[i] = TTL THEN dropped[i] ELSE dropped[i] + 1]
    BY DEF Tick
  <2> QED
    BY <1>1, <2>1, Bounds
<1>5. /\ metadata' = [i \in Ids |-> IF metadata[i] = 0 THEN 0 ELSE metadata[i] - 1]
      /\ loaded' = [i \in Ids |-> IF loaded[i] = 0 THEN 0 ELSE loaded[i] - 1]
  BY DEF Tick, Pass, Less
<1>6. LivesType' /\ \A i \in Ids :
        /\ metadata'[i] >= metadata[i] - 1
        /\ loaded'[i] = IF loaded[i] = 0 THEN 0 ELSE loaded[i] - 1
  BY <1>1, <1>5, Bounds DEF LivesType
<1>7. paths' = [p \in Paths |-> IF paths[p].left <= 1 THEN NoEntry
                                ELSE [paths[p] EXCEPT !.left = @ - 1]]
  BY DEF Tick, Pass, OlderPaths
<1>8. ASSUME NEW p \in Paths
      PROVE  /\ paths'[p] \in Entries
             /\ \/ paths'[p] = NoEntry /\ paths[p].left <= 1
                \/ /\ paths'[p].id = paths[p].id /\ paths[p].left \in 2..TTL
                   /\ paths'[p].left = paths[p].left - 1
  <2>1. CASE paths[p].left <= 1
    BY <1>7, <2>1 DEF Entries
  <2>2. CASE ~(paths[p].left <= 1)
    <3>1. paths[p] \in [id : Ids, left : 1..TTL] /\ paths[p].left \in 2..TTL
      BY <1>1, <2>2, Bounds DEF Entries, NoEntry
    <3>2. paths'[p] = [paths[p] EXCEPT !.left = @ - 1]
      BY <1>7, <2>2
    <3>3. paths[p].left - 1 \in 1..TTL
      BY <3>1, Bounds
    <3> QED
      BY <3>1, <3>2, <3>3 DEF Entries
  <2> QED
    BY <2>1, <2>2
<1>9. PathsType'
  BY <1>7, <1>8 DEF PathsType
<1> QED
  BY <1>2, <1>3, <1>4, <1>6, <1>8, <1>9

LEMMA SinceTick ==
  ASSUME IInv, Tick, NEW p \in Paths, NEW n \in Int, NEW m \in Int, m >= n + 1,
         SinceIn(touched, p, n)
  PROVE  SinceIn(touched', p, m)
<1>1. touched \in [Paths -> Nat]
  BY DEF IInv, Types, HistoryType
<1>2. touched' \in [Paths -> Nat] /\ \A q \in Paths : touched'[q] <= touched[q] + 1
  BY TickFacts
<1> QED
  BY <1>1, <1>2, SinceMore

LEMMA LeadsTick ==
  ASSUME IInv, Tick, NEW p, NEW i, NEW slack \in Int, NEW more \in Int, more = slack + 1,
         LeadsIn(node, touched, p, i, slack)
  PROVE  LeadsIn(node', touched', p, i, more)
<1>1. node' = node
  BY TickFacts
<1> SUFFICES ASSUME NEW q \in Paths, SinceIn(touched, q, Len(q) * Life + slack)
             PROVE  SinceIn(touched', q, Len(q) * Life + more)
  BY <1>1 DEF LeadsIn
<1>2. Len(q) * Life \in Int
  BY PathFacts, Bounds
<1>3. /\ Len(q) * Life + slack \in Int /\ Len(q) * Life + more \in Int
      /\ Len(q) * Life + more >= (Len(q) * Life + slack) + 1
  BY <1>2
<1> QED
  BY <1>3, SinceTick

LEMMA KeptTick ==
  ASSUME IInv, Tick, NEW p \in Paths, NEW n \in Int, NEW m \in Int, m = n - 1, Kept(p, n)
  PROVE  Kept(p, m)'
<1> PICK left, id, less : left = paths[p].left /\ id = paths[p].id /\ less = paths'[p].left
  OBVIOUS
<1>1. left \in Nat
  BY Bounds DEF IInv, Types, PathsType, Entries, NoEntry
<1>2. n <= 0 \/ (id # NoId /\ left >= n)
  BY DEF Kept, ResolvePath
<1>3. left <= 1 \/ (paths'[p].id = id /\ less = left - 1)
  BY TickFacts
<1>4. m <= 0 \/ (paths'[p].id # NoId /\ less >= m)
  BY <1>1, <1>2, <1>3
<1> QED
  BY <1>4 DEF Kept, ResolvePath

LEMMA CallTick ==
  ASSUME IInv, Tick, NEW t \in Threads
  PROVE  /\ Aged(thread[t]) \in ThreadRecord
         /\ RouteOK(thread[t])' /\ PlaceOK(thread[t])' /\ ListingOK(thread[t])'
<1>1. PICK h : h = thread[t]
  OBVIOUS
<1>2. h \in ThreadRecord /\ RouteOK(h) /\ PlaceOK(h) /\ ListingOK(h)
  BY <1>1, RecordOf
<1>3. PICK g : g = Aged(h)
  OBVIOUS
<1>4. thread'[t] = g /\ node' = node
  BY <1>1, <1>3, TickFacts
<1>5. ASSUME g \in ThreadRecord, RouteOK(g), PlaceOK(g)', ListingOK(g)'
      PROVE  /\ Aged(thread[t]) \in ThreadRecord
             /\ RouteOK(thread[t])' /\ PlaceOK(thread[t])' /\ ListingOK(thread[t])'
  <2>1. RouteOK(thread[t])'
    BY <1>4, <1>5 DEF RouteOK
  <2>2. PlaceOK(thread[t])'
    BY <1>4, <1>5 DEF PlaceOK, Placed
  <2>3. ListingOK(thread[t])'
    BY <1>4, <1>5 DEF ListingOK
  <2> QED
    BY <1>1, <1>3, <1>5, <2>1, <2>2, <2>3
<1>6. CASE h.at = "idle"
  <2>1. g = Idle
    BY <1>3, <1>6 DEF Aged
  <2> QED
    BY <1>5, <2>1, IdleFacts DEF PlaceOK, ListingOK, Placed, Idle
<1>7. CASE h.at # "idle"
  <2>1. g = [h EXCEPT !.age = h.age + 1]
    BY <1>3, <1>7 DEF Aged
  <2>2. h.age \in 0..Slow /\ h.age < Slow
    BY <1>1, <1>2 DEF Tick, ThreadRecord
  <2>3. h.age + 1 \in 0..Slow
    BY <2>2, Bounds
  <2>4. g \in ThreadRecord
    BY <1>2, <2>1, <2>3 DEF ThreadRecord
  <2>5. /\ g.at = h.at /\ g.op = h.op /\ g.path = h.path /\ g.to = h.to
        /\ g.goals = h.goals /\ g.cur = h.cur /\ g.id = h.id /\ g.found = h.found
        /\ g.items = h.items /\ g.item = h.item /\ g.age = h.age + 1
    BY <1>2, <2>1 DEF ThreadRecord
  <2>6. RouteOK(g)
    BY <1>2, <2>5 DEF RouteOK
  <2>7. /\ h.age \in Int /\ h.age + 1 \in Int /\ h.age - Life \in Int
        /\ (h.age + 1) - Life \in Int /\ (h.age + 1) - Life = (h.age - Life) + 1
        /\ TTL - h.age \in Int /\ TTL - (h.age + 1) \in Int
        /\ TTL - (h.age + 1) = (TTL - h.age) - 1
    BY <2>2, Bounds
  <2>8. PlaceOK(g)'
    <3>1. Placed(h) => LeadsIn(node', touched', h.cur, h.id, h.age + 1)
      BY <1>2, <2>7, LeadsTick DEF PlaceOK, Leads
    <3>2. ASSUME h.at \in {"map", "set"}, NEW item \in h.items
          PROVE  LeadsIn(node', touched', Append(h.cur, item.name), item.id, (h.age + 1) - Life)
      BY <1>2, <2>7, <3>2, LeadsTick DEF PlaceOK, Leads
    <3> QED
      BY <2>5, <3>1, <3>2 DEF PlaceOK, Leads, Placed
  <2>9. ListingOK(g)'
    <3> SUFFICES ASSUME h.at \in {"map", "set"}, h.goals # <<>>,
                        NEW p \in Paths \ {Root}, NEW i \in Held(p),
                        Front(p) = h.cur, node[i].parent = h.id, OnDrive(i)
                 PROVE  \/ [name |-> Last(p), id |-> i] \in h.items
                        \/ Kept(p, TTL - (h.age + 1))'
                        \/ touched'[p] <= h.age + 1
      BY <1>4, <2>5 DEF ListingOK, Held, OnDrive
    <3>1. \/ [name |-> Last(p), id |-> i] \in h.items
          \/ Kept(p, TTL - h.age)
          \/ touched[p] <= h.age
      BY <1>2 DEF ListingOK
    <3>2. CASE Kept(p, TTL - h.age)
      BY <2>7, <3>2, KeptTick
    <3>3. CASE touched[p] <= h.age
      <4>1. touched'[p] <= touched[p] + 1 /\ touched[p] \in Nat /\ touched'[p] \in Nat
        BY TickFacts DEF IInv, Types, HistoryType
      <4> QED
        BY <2>7, <3>3, <4>1
    <3> QED
      BY <3>1, <3>2, <3>3
  <2> QED
    BY <1>5, <2>4, <2>6, <2>8, <2>9
<1> QED
  BY <1>6, <1>7

LEMMA TickStep ==
  ASSUME IInv, Tick
  PROVE  IInv'
<1>1. Types /\ CachedInv /\ LoadedInv /\ DescribedInv /\ FoundIsListed
  BY DEF IInv
<1>2. Types'
  <2>1. ThreadType'
    BY CallTick, TickFacts DEF ThreadType
  <2> QED
    BY <1>1, <2>1, TickFacts DEF Types, ChildrenType, NodeType, HistoryType
<1>3. RouteInv' /\ PlaceInv' /\ ListingInv'
  BY CallTick DEF RouteInv, PlaceInv, ListingInv
<1>4. CachedInv'
  <2> SUFFICES ASSUME NEW p \in Paths, paths'[p].id # NoId
               PROVE  LeadsIn(node', touched', p, paths'[p].id, -paths'[p].left)
    BY DEF CachedInv, ResolvePath, Leads
  <2> PICK left : left = paths[p].left
    OBVIOUS
  <2>1. paths'[p].id = paths[p].id /\ left \in 2..TTL /\ paths'[p].left = left - 1
    BY TickFacts DEF NoEntry
  <2>2. LeadsIn(node, touched, p, paths[p].id, -left)
    BY <1>1, <2>1 DEF CachedInv, ResolvePath, Leads
  <2>3. -left \in Int /\ -(left - 1) \in Int /\ -(left - 1) = -left + 1
    BY <2>1, Bounds
  <2> QED
    BY <2>1, <2>2, <2>3, LeadsTick
<1>5. LoadedInv'
  <2> SUFFICES ASSUME NEW d \in Ids PROVE LoadedOK(d)'
    BY DEF LoadedInv
  <2> PICK n : n = loaded[d]
    OBVIOUS
  <2>1. n \in 0..TTL /\ loaded'[d] = IF n = 0 THEN 0 ELSE n - 1
    BY <1>1, TickFacts DEF Types, LivesType
  <2>2. node' = node
    BY TickFacts
  <2> SUFFICES ASSUME n > 0, NEW p \in Paths \ {Root}, NEW i \in Held(p),
                      node[i].parent = d, OnDrive(i)
               PROVE  Kept(p, (n - 1) - Slow)' \/ SinceIn(touched', p, Len(p) * Life - (n - 1))
    <3>1. loaded'[d] > 0 => n > 0 /\ loaded'[d] = n - 1
      BY <2>1, Bounds
    <3> QED
      BY <2>2, <3>1 DEF LoadedOK, Held, OnDrive, Since
  <2>3. Kept(p, n - Slow) \/ SinceIn(touched, p, Len(p) * Life - n)
    BY <1>1 DEF LoadedInv, LoadedOK, Since
  <2>4. /\ n - Slow \in Int /\ (n - 1) - Slow \in Int /\ (n - 1) - Slow = (n - Slow) - 1
        /\ Len(p) * Life - n \in Int /\ Len(p) * Life - (n - 1) \in Int
        /\ Len(p) * Life - (n - 1) >= (Len(p) * Life - n) + 1
    <3>1. Len(p) * Life \in Int
      BY PathFacts, Bounds
    <3> QED
      BY <2>1, <3>1, Bounds
  <2> QED
    BY <2>3, <2>4, KeptTick, SinceTick
<1>6. DescribedInv'
  <2> SUFFICES ASSUME NEW p \in Paths, paths'[p].id # NoId
               PROVE  \/ \E t \in Threads : thread'[t].at = "set"
                                            /\ thread'[t].item = paths'[p].id
                      \/ metadata'[paths'[p].id] >= paths'[p].left
                      \/ paths'[p].left + dropped'[paths'[p].id] <= TTL
    BY DEF DescribedInv, DescribedOK, ResolvePath, At
  <2> PICK i, left : i = paths[p].id /\ left = paths[p].left
    OBVIOUS
  <2>1. paths'[p].id = i /\ left \in 2..TTL /\ paths'[p].left = left - 1
    BY TickFacts DEF NoEntry
  <2>2. i \in Ids
    BY <1>1, <2>1, Bounds DEF Types, PathsType, Entries, NoEntry
  <2>3. /\ metadata[i] \in Nat /\ metadata'[i] \in Nat /\ metadata'[i] >= metadata[i] - 1
        /\ dropped[i] \in Nat /\ dropped'[i] \in Nat /\ dropped'[i] <= dropped[i] + 1
    BY <1>1, <1>2, <2>2, TickFacts, Bounds DEF Types, LivesType, HistoryType
  <2>4. \/ \E t \in Threads : thread[t].at = "set" /\ thread[t].item = i
        \/ metadata[i] >= left
        \/ left + dropped[i] <= TTL
    BY <1>1, <2>1 DEF DescribedInv, DescribedOK, ResolvePath, At
  <2>5. ASSUME NEW t \in Threads, thread[t].at = "set", thread[t].item = i
        PROVE  thread'[t].at = "set" /\ thread'[t].item = i
    <3>1. thread[t] \in ThreadRecord /\ thread'[t] = [thread[t] EXCEPT !.age = @ + 1]
      BY <2>5, RecordOf, TickFacts DEF Aged
    <3> QED
      BY <2>5, <3>1 DEF ThreadRecord
  <2>6. metadata[i] >= left => metadata'[i] >= left - 1
    BY <2>1, <2>3
  <2>7. left + dropped[i] <= TTL => (left - 1) + dropped'[i] <= TTL
    BY <2>1, <2>3, Bounds
  <2> QED
    BY <2>1, <2>4, <2>5, <2>6, <2>7
<1>7. FoundIsListed'
  <2> SUFFICES ASSUME NEW p \in Paths \ {Root}, paths'[p].id # NoId
               PROVE  p \in children'[Front(p)]
    BY DEF FoundIsListed, ResolvePath
  <2>1. paths'[p].id = paths[p].id /\ children' = children
    BY TickFacts DEF NoEntry
  <2> QED
    BY <1>1, <2>1 DEF FoundIsListed, ResolvePath
<1> QED
  BY <1>2, <1>3, <1>4, <1>5, <1>6, <1>7 DEF IInv

-----------------------------------------------------------------------------
(* The theorems                                                            *)

LEMMA InitInv ==
  ASSUME Init
  PROVE  IInv
<1> PICK number : number = CHOOSE f \in Injection(Initial, Ids \ {RootId}) : TRUE
  OBVIOUS
<1>1. number \in [Initial -> Ids \ {RootId}]
  <2>1. number \in Injection(Initial, Ids \ {RootId})
    BY InitialAssumption
  <2> QED
    BY <2>1 DEF Injection, IsInjective
<1> DEFINE IdOf(p) == IF p = Root THEN RootId ELSE number[p]
           PathOf(i) == CHOOSE p \in Initial : number[p] = i
<1>2. /\ InitCache /\ thread = [t \in Threads |-> Idle] /\ calls = 0
      /\ touched = [p \in Paths |-> LongAgo] /\ dropped = [i \in Ids |-> TTL]
      /\ node = [i \in Ids |->
           IF \E p \in Initial : number[p] = i
             THEN Node("drive", IdOf(Front(PathOf(i))), Last(PathOf(i)))
             ELSE NoNode]
  BY DEF Init
<1>3. ASSUME NEW i \in Ids, \E p \in Initial : number[p] = i
      PROVE  Node("drive", IdOf(Front(PathOf(i))), Last(PathOf(i))) \in Nodes
  <2> PICK p : p = PathOf(i)
    OBVIOUS
  <2>1. p \in Initial
    BY <1>3
  <2>2. p \in Paths /\ p # Root /\ (Front(p) \in Initial \/ Front(p) = Root)
    BY <2>1, InitialAssumption
  <2>3. Last(p) \in STRING
    BY <2>2, PathFacts
  <2>4. IdOf(Front(p)) \in Ids
    BY <1>1, <2>2, Bounds
  <2> QED
    BY <2>3, <2>4, NodeIsOne
<1>4. NodeType
  <2>1. NoNode \in Nodes
    BY DEF Nodes
  <2> HIDE DEF IdOf, PathOf
  <2> QED
    BY <1>2, <1>3, <2>1 DEF NodeType
<1> HIDE DEF IdOf, PathOf
<1>5. Types
  <2>1. PathsType /\ LivesType /\ ChildrenType
    BY <1>2, Bounds DEF InitCache, PathsType, LivesType, ChildrenType, Entries
  <2>2. ThreadType /\ HistoryType
    BY <1>2, IdleFacts, SettledFacts, Bounds DEF ThreadType, HistoryType
  <2> QED
    BY <1>4, <2>1, <2>2 DEF Types
<1>6. RouteInv /\ PlaceInv /\ ListingInv
  BY <1>2, IdleFacts DEF RouteInv, PlaceInv, ListingInv
<1>7. \A p \in Paths : ResolvePath(p) = NoId
  BY <1>2 DEF InitCache, ResolvePath, NoEntry
<1>8. CachedInv /\ DescribedInv /\ FoundIsListed
  BY <1>7 DEF CachedInv, DescribedInv, DescribedOK, FoundIsListed
<1>9. LoadedInv
  BY <1>2 DEF InitCache, LoadedInv, LoadedOK
<1> QED
  BY <1>5, <1>6, <1>8, <1>9 DEF IInv

(* The invariant holds of the operations on names, whatever Drive and the  *)
(* threads do and in whatever order.                                       *)
THEOREM Inductive == Spec => []IInv
<1>1. ASSUME IInv, [Next]_vars PROVE IInv'
  <2>1. CASE UNCHANGED vars
    BY <1>1, <2>1
      DEF vars, nodes, cache, IInv, Types, PathsType, LivesType, ChildrenType, NodeType,
          ThreadType, HistoryType, RouteInv, RouteOK, CachedInv, PlaceInv, PlaceOK, Placed,
          ListingInv, ListingOK, LoadedInv, LoadedOK, DescribedInv, DescribedOK,
          FoundIsListed, Leads, Since, Held, OnDrive, Kept, ResolvePath, At
  <2>2. ASSUME NEW t \in Threads, Use(t) PROVE IInv'
    BY <1>1, <2>2, UseStep
  <2>3. ASSUME NEW t \in Threads, Step(t) PROVE IInv'
    BY <1>1, <2>3, UpStep, CheckStep, AgainStep, LoadedAlreadyStep, ListStep, MapItemStep,
       SetItemStep, MarkStep, MakeStep, MadeStep, DeleteStep, MoveStep, DescribeStep,
       ForgetStep, ForgetTargetStep DEF Step
  <2>4. ASSUME NEW i \in Ids, Upload(i) \/ RemoteDelete(i) PROVE IInv'
    BY <1>1, <2>4, UploadStep, RemoteDeleteStep
  <2>5. ASSUME NEW p \in Paths \ {Root}, RemoteAdd(p) PROVE IInv'
    BY <1>1, <2>5, RemoteAddStep
  <2>6. CASE Tick
    BY <1>1, <2>6, TickStep
  <2> QED
    BY <1>1, <2>1, <2>2, <2>3, <2>4, <2>5, <2>6 DEF Next
<1> QED
  BY <1>1, InitInv, PTL DEF Spec

(* The cache, the tree and the calls keep their types; a call that lists a *)
(* directory knows its id (_load_children).                                *)
THEOREM TypeCorrect == Spec => []TypeOK
<1>1. ASSUME IInv PROVE TypeOK
  <2>1. TypeOKCache
    BY <1>1 DEF IInv, Types, PathsType, LivesType, ChildrenType, TypeOKCache, Entries
  <2>2. node \in [Ids -> [at : {"none", "local", "drive"}, parent : Ids, name : STRING]
                             \union {NoNode}]
    BY <1>1 DEF IInv, Types, NodeType, Nodes, Named
  <2>3. calls <= MaxCalls
    BY <1>1, Bounds DEF IInv, Types, HistoryType
  <2>4. ASSUME NEW t \in Threads
        PROVE  /\ thread[t] \in ThreadRecord /\ RouteOK(thread[t])
    BY <1>1, RecordOf
  <2> QED
    BY <2>1, <2>2, <2>3, <2>4 DEF TypeOK, ThreadRecord, RouteOK, Items
<1> QED
  BY <1>1, Inductive, PTL

LEMMA SinceIsRecent ==
  ASSUME IInv, NEW p \in Paths, NEW n \in Nat, n > 0, Since(p, Len(p) * Life - n)
  PROVE  Recent(p)
<1>1. PICK k \in 1..Len(p) : touched[SubSeq(p, 1, k)] <= Len(p) * Life - n
  BY DEF Since, SinceIn
<1>2. touched[SubSeq(p, 1, k)] \in Nat
  BY <1>1, OnTheWayUp, PathFacts DEF IInv, Types, HistoryType
<1>3. touched[SubSeq(p, 1, k)] < Settled(p)
  BY <1>1, <1>2, SettledFacts
<1> QED
  BY <1>1, <1>3 DEF Recent

(* A cached path that does not lead where Drive would lead changed, or a   *)
(* directory on the way to it, not longer ago than an entry lives and a    *)
(* call takes, once for each name (MemoryMetadataCache.resolve_path after  *)
(* changes of others).                                                     *)
THEOREM StaleIsBounded == Spec => []StaleBounded
<1>1. ASSUME IInv PROVE StaleBounded
  <2> SUFFICES ASSUME NEW p \in Paths, ResolvePath(p) # NoId, ResolvePath(p) \notin Held(p)
               PROVE  Recent(p)
    BY DEF StaleBounded
  <2> PICK left : left = paths[p].left
    OBVIOUS
  <2>1. left \in 1..TTL
    BY <1>1 DEF IInv, Types, PathsType, Entries, NoEntry, ResolvePath
  <2>2. LeadsIn(node, touched, p, ResolvePath(p), -left)
    BY <1>1 DEF IInv, CachedInv, Leads
  <2>3. SinceIn(touched, p, Len(p) * Life + (-left))
    BY <2>2 DEF LeadsIn, Held
  <2>4. Len(p) * Life + (-left) = Len(p) * Life - left /\ left \in Nat /\ left > 0
    BY <2>1, PathFacts, Bounds
  <2> QED
    BY <1>1, <2>3, <2>4, SinceIsRecent DEF Since
<1> QED
  BY <1>1, Inductive, PTL

(* A file on Drive is not hidden by a directory that counts as loaded, but *)
(* for a bounded time after a change (_load_children's early return).      *)
THEOREM HiddenIsBounded == Spec => []HiddenBounded
<1>1. ASSUME IInv PROVE HiddenBounded
  <2> SUFFICES ASSUME NEW p \in Paths \ {Root}, NEW i \in Held(p), OnDrive(i),
                      IsLoaded(node[i].parent), ResolvePath(p) = NoId
               PROVE  Recent(p) \/ loaded[node[i].parent] <= Slow
    BY DEF HiddenBounded
  <2> PICK d, n : d = node[i].parent /\ n = loaded[d]
    OBVIOUS
  <2>1. i \in Ids /\ d \in Ids
    BY <1>1, HeldFacts, NodeFacts DEF Held, IInv, Types, NodeType
  <2>2. n \in Nat /\ n > 0
    BY <1>1, <2>1, Bounds DEF IInv, Types, LivesType, IsLoaded
  <2>3. Kept(p, n - Slow) \/ Since(p, Len(p) * Life - n)
    BY <1>1, <2>1, <2>2 DEF IInv, LoadedInv, LoadedOK
  <2>4. CASE Kept(p, n - Slow)
    BY <2>2, <2>4, Bounds DEF Kept
  <2>5. CASE Since(p, Len(p) * Life - n)
    BY <1>1, <2>2, <2>5, SinceIsRecent
  <2> QED
    BY <2>3, <2>4, <2>5
<1> QED
  BY <1>1, Inductive, PTL

(* What a cached path names can be described, but between mapping and      *)
(* describing it and for TTL after its metadata were invalidated under     *)
(* another name (getattr, invalidate_path).                                *)
THEOREM FoundDescribed == Spec => []FoundIsDescribed
<1>1. ASSUME IInv PROVE FoundIsDescribed
  <2> SUFFICES ASSUME NEW p \in Paths \ {Root}, ResolvePath(p) # NoId,
                      ~HasMetadata(ResolvePath(p))
               PROVE  \/ \E t \in Threads : thread[t].at = "set"
                                            /\ thread[t].item = ResolvePath(p)
                      \/ dropped[ResolvePath(p)] < TTL
    BY DEF FoundIsDescribed
  <2> PICK i, left : i = ResolvePath(p) /\ left = paths[p].left
    OBVIOUS
  <2>1. i \in Ids /\ left \in 1..TTL
    BY <1>1 DEF IInv, Types, PathsType, Entries, NoEntry, ResolvePath
  <2>2. metadata[i] \in Nat /\ dropped[i] \in Nat /\ ~(metadata[i] > 0)
    BY <1>1, <2>1, Bounds DEF IInv, Types, LivesType, HistoryType, HasMetadata
  <2>3. \/ \E t \in Threads : thread[t].at = "set" /\ thread[t].item = i
        \/ metadata[i] >= left
        \/ left + dropped[i] <= TTL
    BY <1>1 DEF IInv, DescribedInv, DescribedOK, At
  <2> QED
    BY <2>1, <2>2, <2>3, Bounds
<1> QED
  BY <1>1, Inductive, PTL

(* readdir lists every path that getattr finds: the children of a path are *)
(* changed with its entry (map_path_to_node_id, invalidate_path).          *)
THEOREM FoundListed == Spec => []FoundIsListed
<1>1. IInv => FoundIsListed
  BY DEF IInv
<1> QED
  BY <1>1, Inductive, PTL
=============================================================================
