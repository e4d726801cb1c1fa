-------------------------- MODULE LockManagerProofs --------------------------
(***************************************************************************)
(* Theorems about LockManager, for any finite set of threads, any keys and *)
(* modes, and any depth of nesting.                                        *)
(*                                                                         *)
(* The counters of the code (_refs, _readers, _writers, _write_requests,   *)
(* _allocations) are what its tests rely on, so the inductive invariant    *)
(* says what each counts: a set of frames.                                 *)
(***************************************************************************)
EXTENDS LockManager, FiniteSetTheorems, TLAPS

Using(k) == {f \in Frames : key[f] = k}
Reading(o) == {f \in Frames : Has(f) /\ mode[f] = "read" /\ lock[f] = o}
Writing(o) == {f \in Frames : Has(f) /\ mode[f] = "write" /\ lock[f] = o}
Asking(o) == {f \in Frames : pc[f] \in {"asleep", "awake"} /\ mode[f] = "write"
                               /\ lock[f] = o}
Owning(k, t) == {f \in Frames : pc[f] = "held" /\ key[f] = k /\ f[1] = t}

(* A block has a key and an object while it is open, the one of its key.   *)
FrameInv ==
  \A f \in Frames :
    /\ pc[f] = "free" <=> key[f] = NoKey
    /\ pc[f] = "free" <=> lock[f] = NoLock
    /\ pc[f] # "free" => lock[f] = locks[key[f]]

(* _refs counts the blocks on a key, and _locks has the keys it counts;    *)
(* no two keys share an object.                                            *)
RefsInv ==
  /\ \A k \in Keys : refs[k] = Cardinality(Using(k))
  /\ \A k \in Keys : locks[k] = NoLock <=> Using(k) = {}
  /\ \A k, l \in Keys : k # l /\ locks[k] = locks[l] => locks[k] = NoLock

(* The counters of an RWLock count its readers, writers and waiting        *)
(* writers; _allocations counts the bodies that run.                       *)
CountInv ==
  /\ \A o \in Locks : /\ rw[o].readers = Cardinality(Reading(o))
                      /\ rw[o].writers = Cardinality(Writing(o))
                      /\ rw[o].requests = Cardinality(Asking(o))
  /\ \A k \in Keys, t \in Threads : allocations[k][t] = Cardinality(Owning(k, t))

(* One writer, or readers, per object                                      *)
ExclusionInv ==
  \A f, g \in Frames :
    f # g /\ Has(f) /\ Has(g) /\ lock[f] = lock[g]
      => mode[f] = "read" /\ mode[g] = "read"

IInv == TypeOK /\ FrameInv /\ RefsInv /\ CountInv /\ ExclusionInv

-----------------------------------------------------------------------------
(* Counting                                                                *)

LEMMA FramesFinite == IsFiniteSet(Frames)
<1>1. IsFiniteSet(1..MaxDepth)
  BY FS_Interval, DepthAssumption
<1> QED
  BY <1>1, FS_Product, ThreadsAssumption DEF Frames

(* Every set that a counter counts is finite, and empty iff the count is 0 *)
LEMMA FrameSets ==
  ASSUME NEW S \in SUBSET Frames
  PROVE  /\ IsFiniteSet(S) /\ Cardinality(S) \in Nat
         /\ Cardinality(S) = 0 <=> S = {}
BY FramesFinite, FS_Subset, FS_CardinalityType, FS_EmptySet

LEMMA CountOneMore ==
  ASSUME NEW S \in SUBSET Frames, NEW f \in Frames, f \notin S
  PROVE  Cardinality(S \union {f}) = Cardinality(S) + 1
BY FrameSets, FS_AddElement

LEMMA CountOneLess ==
  ASSUME NEW S \in SUBSET Frames, NEW f \in S
  PROVE  /\ Cardinality(S \ {f}) = Cardinality(S) - 1
         /\ Cardinality(S) - 1 \in Nat
<1>1. Cardinality(S \ {f}) = Cardinality(S) - 1
  BY FrameSets, FS_RemoveElement
<1>2. Cardinality(S \ {f}) \in Nat
  BY FrameSets
<1> QED
  BY <1>1, <1>2

-----------------------------------------------------------------------------
LEMMA InitInv == Init => IInv
<1> SUFFICES ASSUME Init PROVE IInv
  OBVIOUS
<1>1. TypeOK
  BY NoneAssumption DEF Init, TypeOK, Places, NewRWLock
<1>2. FrameInv
  BY DEF Init, FrameInv
<1>3. /\ \A k \in Keys : Using(k) = {}
      /\ \A o \in Locks : Reading(o) = {} /\ Writing(o) = {} /\ Asking(o) = {}
      /\ \A k \in Keys, t \in Threads : Owning(k, t) = {}
  BY NoneAssumption DEF Init, Using, Reading, Writing, Asking, Owning, Has
<1>4. RefsInv
  BY <1>3, FS_EmptySet DEF Init, RefsInv
<1>5. CountInv
  BY <1>3, FS_EmptySet DEF Init, CountInv, NewRWLock
<1>6. ExclusionInv
  BY DEF Init, ExclusionInv, Has
<1> QED
  BY <1>1, <1>2, <1>4, <1>5, <1>6 DEF IInv

-----------------------------------------------------------------------------
(* The steps                                                               *)

LEMMA FreeWhenOpening ==
  ASSUME NEW f \in Frames, MayOpen(f)
  PROVE  pc[f] = "free"
BY DepthAssumption DEF Frames, MayOpen

LEMMA GetLockInv ==
  ASSUME IInv, NEW f \in Frames, NEW k \in Keys, NEW m \in {"read", "write"},
         GetLock(f, k, m)
  PROVE  IInv'
<1> USE DEF IInv
<1>1. pc[f] = "free" /\ key[f] = NoKey /\ lock[f] = NoLock
  BY FreeWhenOpening DEF GetLock, FrameInv
<1>2. /\ pc' = [pc EXCEPT ![f] = "detect"]
      /\ key' = [key EXCEPT ![f] = k]
      /\ mode' = [mode EXCEPT ![f] = m]
      /\ refs' = [refs EXCEPT ![k] = @ + 1]
      /\ UNCHANGED <<allocations, waiting>>
  BY DEF GetLock
<1>3. PICK o \in Locks :
        /\ lock' = [lock EXCEPT ![f] = o]
        /\ locks' = [locks EXCEPT ![k] = o]
        /\ \/ locks[k] = o /\ rw' = rw
           \/ /\ locks[k] = NoLock /\ Unreferenced(o)
              /\ rw' = [rw EXCEPT ![o] = NewRWLock]
  <2>1. CASE locks[k] # NoLock
    BY <2>1 DEF GetLock, TypeOK
  <2>2. CASE locks[k] = NoLock
    BY <2>2 DEF GetLock
  <2> QED
    BY <2>1, <2>2
<1>4. TypeOK'
  <2>1. rw' \in [Locks -> [readers : Nat, writers : Nat, requests : Nat]]
    BY <1>3 DEF TypeOK, NewRWLock
  <2>2. /\ lock' \in [Frames -> Locks \union {NoLock}]
        /\ locks' \in [Keys -> Locks \union {NoLock}]
    BY <1>3 DEF TypeOK
  <2> QED
    BY <2>1, <2>2, <1>2 DEF TypeOK, Places
<1>5. Using(k)' = Using(k) \union {f} /\ f \notin Using(k)
  BY <1>1, <1>2, NoneAssumption DEF Using, TypeOK
<1>6. \A l \in Keys \ {k} : Using(l)' = Using(l)
  BY <1>1, <1>2, NoneAssumption DEF Using, TypeOK
<1>7. FrameInv'
  <2>1. ASSUME NEW g \in Frames, g # f, pc[g] # "free"
        PROVE  locks'[key[g]] = locks[key[g]]
    BY <2>1, <1>3 DEF FrameInv, RefsInv, TypeOK, Using
  <2> QED
    BY <2>1, <1>1, <1>2, <1>3, NoneAssumption DEF FrameInv, TypeOK
<1>8. RefsInv'
  <2>1. refs'[k] = Cardinality(Using(k)')
    <3>1. Using(k) \in SUBSET Frames
      BY DEF Using
    <3>2. Cardinality(Using(k) \union {f}) = Cardinality(Using(k)) + 1
      BY <3>1, <1>5, CountOneMore
    <3> QED
      BY <3>2, <1>2, <1>5 DEF RefsInv, TypeOK
  <2>2. \A l \in Keys \ {k} : refs'[l] = Cardinality(Using(l)')
    BY <1>2, <1>6 DEF RefsInv, TypeOK
  <2>3. \A l \in Keys : locks'[l] = NoLock <=> Using(l)' = {}
    BY <1>3, <1>5, <1>6, NoneAssumption DEF RefsInv, TypeOK
  <2>4. \A j, l \in Keys : j # l /\ locks'[j] = locks'[l] => locks'[j] = NoLock
    BY <1>3 DEF RefsInv, TypeOK, Unreferenced
  <2> QED
    BY <2>1, <2>2, <2>3, <2>4 DEF RefsInv
<1>9. CountInv'
  <2>1. ASSUME NEW p \in Locks
        PROVE  /\ Reading(p)' = Reading(p) /\ Writing(p)' = Writing(p)
               /\ Asking(p)' = Asking(p)
    BY <1>1, <1>2, <1>3 DEF Reading, Writing, Asking, Has, TypeOK
  <2>2. ASSUME NEW j \in Keys, NEW t \in Threads
        PROVE  Owning(j, t)' = Owning(j, t)
    BY <1>1, <1>2 DEF Owning, TypeOK
  <2>3. ASSUME NEW p \in Locks, Unreferenced(p)
        PROVE  Reading(p) = {} /\ Writing(p) = {} /\ Asking(p) = {}
    BY <2>3 DEF Unreferenced, Reading, Writing, Asking
  <2>4. ASSUME NEW p \in Locks
        PROVE  /\ rw'[p].readers = Cardinality(Reading(p)')
               /\ rw'[p].writers = Cardinality(Writing(p)')
               /\ rw'[p].requests = Cardinality(Asking(p)')
    <3>1. CASE rw'[p] = rw[p]
      BY <3>1, <2>1 DEF CountInv
    <3>2. CASE rw'[p] = NewRWLock /\ Unreferenced(p)
      BY <3>2, <2>1, <2>3, FS_EmptySet DEF NewRWLock
    <3>3. rw'[p] = rw[p] \/ (rw'[p] = NewRWLock /\ Unreferenced(p))
      BY <1>3 DEF TypeOK
    <3> QED
      BY <3>1, <3>2, <3>3
  <2> QED
    BY <1>2, <2>2, <2>4 DEF CountInv
<1>10. ExclusionInv'
  BY <1>1, <1>2, <1>3 DEF ExclusionInv, Has, TypeOK
<1> QED
  BY <1>4, <1>7, <1>8, <1>9, <1>10

LEMMA ReleaseRefInv ==
  ASSUME IInv, NEW f \in Frames, pc[f] \in {"refused", "unref"},
         ReleaseRef(f), waiting' \in [Threads -> Keys \union {NoKey}]
  PROVE  IInv'
<1> USE DEF IInv
<1>0. PICK k \in Keys : k = key[f]
  BY DEF FrameInv, TypeOK
<1>1. k \in Keys /\ lock[f] \in Locks /\ f \in Using(k)
  BY <1>0 DEF FrameInv, TypeOK, Using
<1>2. /\ pc' = [pc EXCEPT ![f] = "free"]
      /\ key' = [key EXCEPT ![f] = NoKey]
      /\ mode' = [mode EXCEPT ![f] = "read"]
      /\ lock' = [lock EXCEPT ![f] = NoLock]
      /\ refs' = [refs EXCEPT ![k] = @ - 1]
      /\ locks' = IF Dropped(k) THEN [locks EXCEPT ![k] = NoLock] ELSE locks
      /\ UNCHANGED <<rw, allocations>>
  BY <1>0 DEF ReleaseRef
<1>3. Using(k)' = Using(k) \ {f}
  BY <1>1, <1>2, NoneAssumption DEF Using, TypeOK
<1>4. \A l \in Keys \ {k} : Using(l)' = Using(l)
  BY <1>1, <1>2, NoneAssumption DEF Using, TypeOK
<1>5. refs[k] - 1 = Cardinality(Using(k)') /\ refs[k] - 1 \in Nat
  <2>1. Using(k) \in SUBSET Frames
    BY DEF Using
  <2>2. /\ Cardinality(Using(k) \ {f}) = Cardinality(Using(k)) - 1
        /\ Cardinality(Using(k)) - 1 \in Nat
    BY <1>1, <2>1, CountOneLess
  <2> QED
    BY <1>1, <1>3, <2>2 DEF RefsInv
<1>6. Dropped(k) <=> Using(k)' = {}
  <2>1. Using(k)' \in SUBSET Frames
    BY <1>3 DEF Using
  <2>2. Cardinality(Using(k)') = 0 <=> Using(k)' = {}
    BY <2>1, FrameSets
  <2> QED
    BY <1>5, <2>2 DEF Dropped
<1>7. TypeOK'
  <2>1. refs' \in [Keys -> Nat]
    BY <1>1, <1>2, <1>5 DEF TypeOK
  <2>2. locks' \in [Keys -> Locks \union {NoLock}]
    BY <1>2 DEF TypeOK
  <2> QED
    BY <2>1, <2>2, <1>2 DEF TypeOK, Places
<1>8. FrameInv'
  <2>1. ASSUME NEW g \in Frames, g # f, pc[g] # "free"
        PROVE  locks'[key[g]] = locks[key[g]]
    <3>1. CASE Dropped(k)
      <4>1. key[g] # k
        BY <2>1, <3>1, <1>3, <1>6 DEF Using
      <4> QED
        BY <4>1, <1>2 DEF TypeOK
    <3> QED
      BY <3>1, <1>2
  <2> QED
    BY <2>1, <1>2 DEF FrameInv, TypeOK
<1>9. RefsInv'
  <2>1. \A l \in Keys : refs'[l] = Cardinality(Using(l)')
    BY <1>1, <1>2, <1>4, <1>5 DEF RefsInv, TypeOK
  <2>2. \A l \in Keys : locks'[l] = NoLock <=> Using(l)' = {}
    <3>1. locks'[k] = NoLock <=> Using(k)' = {}
      BY <1>1, <1>2, <1>6 DEF RefsInv, TypeOK
    <3>2. \A l \in Keys \ {k} : locks'[l] = locks[l]
      BY <1>2 DEF TypeOK
    <3> QED
      BY <3>1, <3>2, <1>4 DEF RefsInv
  <2>3. \A j, l \in Keys : j # l /\ locks'[j] = locks'[l] => locks'[j] = NoLock
    BY <1>2 DEF RefsInv, TypeOK
  <2> QED
    BY <2>1, <2>2, <2>3 DEF RefsInv
<1>10. CountInv'
  <2>1. ASSUME NEW p \in Locks
        PROVE  /\ Reading(p)' = Reading(p) /\ Writing(p)' = Writing(p)
               /\ Asking(p)' = Asking(p)
    BY <1>2 DEF Reading, Writing, Asking, Has, TypeOK
  <2>2. ASSUME NEW j \in Keys, NEW t \in Threads
        PROVE  Owning(j, t)' = Owning(j, t)
    BY <1>2 DEF Owning, TypeOK
  <2> QED
    BY <1>2, <2>1, <2>2 DEF CountInv
<1>11. ExclusionInv'
  BY <1>2 DEF ExclusionInv, Has, TypeOK
<1> QED
  BY <1>7, <1>8, <1>9, <1>10, <1>11

(* A step between the two ends of a block changes neither its arguments    *)
(* nor the table of objects.                                               *)
LEMMA InsideInv ==
  ASSUME IInv, UNCHANGED <<key, mode, lock, locks, refs>>,
         \A g \in Frames : pc'[g] = "free" <=> pc[g] = "free"
  PROVE  FrameInv' /\ RefsInv'
<1>1. \A k \in Keys : Using(k)' = Using(k)
  BY DEF Using
<1> QED
  BY <1>1 DEF IInv, FrameInv, RefsInv

LEMMA EnterOrRefuseInv ==
  ASSUME IInv, NEW f \in Frames, EnterOrRefuse(f)
  PROVE  IInv'
<1> USE DEF IInv
<1>1. /\ pc[f] = "detect"
      /\ UNCHANGED <<key, mode, lock, locks, refs, rw, allocations>>
  BY DEF EnterOrRefuse
<1>2. PICK p \in {"refused", "enter"} : pc' = [pc EXCEPT ![f] = p]
  BY DEF EnterOrRefuse
<1>3. TypeOK'
  <2>1. key[f] \in Keys /\ f[1] \in Threads
    BY <1>1 DEF FrameInv, TypeOK, Frames
  <2>2. waiting' \in [Threads -> Keys \union {NoKey}]
    BY <2>1 DEF EnterOrRefuse, TypeOK
  <2> QED
    BY <1>1, <1>2, <2>2 DEF TypeOK, Places
<1>4. FrameInv' /\ RefsInv'
  BY <1>1, <1>2, InsideInv DEF TypeOK
<1>5. CountInv'
  <2>1. ASSUME NEW o \in Locks
        PROVE  /\ Reading(o)' = Reading(o) /\ Writing(o)' = Writing(o)
               /\ Asking(o)' = Asking(o)
    BY <1>1, <1>2 DEF Reading, Writing, Asking, Has, TypeOK
  <2>2. ASSUME NEW j \in Keys, NEW t \in Threads
        PROVE  Owning(j, t)' = Owning(j, t)
    BY <1>1, <1>2 DEF Owning, TypeOK
  <2> QED
    BY <1>1, <2>1, <2>2 DEF CountInv
<1>6. ExclusionInv'
  BY <1>1, <1>2 DEF ExclusionInv, Has, TypeOK
<1> QED
  BY <1>3, <1>4, <1>5, <1>6

LEMMA AcquireReadInv ==
  ASSUME IInv, NEW f \in Frames, AcquireRead(f)
  PROVE  IInv'
<1> USE DEF IInv
<1>1. /\ pc[f] \in {"enter", "awake"} /\ mode[f] = "read"
      /\ UNCHANGED <<key, mode, lock, locks, refs, allocations, waiting>>
  BY DEF AcquireRead
<1>2. PICK o \in Locks : o = lock[f]
  BY <1>1 DEF FrameInv, TypeOK
<1>3. CASE ReadBlocked(o)
  <2>1. pc' = [pc EXCEPT ![f] = "asleep"] /\ rw' = rw
    BY <1>2, <1>3 DEF AcquireRead
  <2>2. TypeOK'
    BY <1>1, <2>1 DEF TypeOK, Places
  <2>3. FrameInv' /\ RefsInv'
    BY <1>1, <2>1, InsideInv DEF TypeOK
  <2>4. CountInv'
    <3>1. ASSUME NEW p \in Locks
          PROVE  /\ Reading(p)' = Reading(p) /\ Writing(p)' = Writing(p)
                 /\ Asking(p)' = Asking(p)
      BY <1>1, <2>1 DEF Reading, Writing, Asking, Has, TypeOK
    <3>2. ASSUME NEW j \in Keys, NEW t \in Threads
          PROVE  Owning(j, t)' = Owning(j, t)
      BY <1>1, <2>1 DEF Owning, TypeOK
    <3> QED
      BY <1>1, <2>1, <3>1, <3>2 DEF CountInv
  <2>5. ExclusionInv'
    BY <1>1, <2>1 DEF ExclusionInv, Has, TypeOK
  <2> QED
    BY <2>2, <2>3, <2>4, <2>5
<1>4. CASE ~ReadBlocked(o)
  <2>1. /\ pc' = [pc EXCEPT ![f] = "granted"]
        /\ rw' = [rw EXCEPT ![o].readers = @ + 1]
    BY <1>2, <1>4 DEF AcquireRead
  <2>2. TypeOK'
    <3>1. rw' \in [Locks -> [readers : Nat, writers : Nat, requests : Nat]]
      <4>1. [rw[o] EXCEPT !.readers = @ + 1]
              \in [readers : Nat, writers : Nat, requests : Nat]
        BY DEF TypeOK
      <4> QED
        BY <4>1, <2>1 DEF TypeOK
    <3> QED
      BY <1>1, <2>1, <3>1 DEF TypeOK, Places
  <2>3. FrameInv' /\ RefsInv'
    BY <1>1, <2>1, InsideInv DEF TypeOK
  <2>4. CountInv'
    <3>1. ASSUME NEW p \in Locks
          PROVE  /\ Writing(p)' = Writing(p) /\ Asking(p)' = Asking(p)
                 /\ p # o => Reading(p)' = Reading(p)
      BY <1>1, <1>2, <2>1 DEF Reading, Writing, Asking, Has, TypeOK
    <3>2. Reading(o)' = Reading(o) \union {f} /\ f \notin Reading(o)
      BY <1>1, <1>2, <2>1 DEF Reading, Has, TypeOK
    <3>3. Cardinality(Reading(o) \union {f}) = Cardinality(Reading(o)) + 1
      <4>1. Reading(o) \in SUBSET Frames
        BY DEF Reading
      <4> QED
        BY <4>1, <3>2, CountOneMore
    <3>4. ASSUME NEW p \in Locks
          PROVE  /\ rw'[p].readers = Cardinality(Reading(p)')
                 /\ rw'[p].writers = Cardinality(Writing(p)')
                 /\ rw'[p].requests = Cardinality(Asking(p)')
      <4>1. CASE p # o
        BY <4>1, <2>1, <3>1, <1>2 DEF CountInv, TypeOK
      <4>2. CASE p = o
        <5>1. /\ rw'[o].readers = rw[o].readers + 1
              /\ rw'[o].writers = rw[o].writers
              /\ rw'[o].requests = rw[o].requests
          BY <2>1, <1>2 DEF TypeOK
        <5> QED
          BY <4>2, <5>1, <3>1, <3>2, <3>3 DEF CountInv
      <4> QED
        BY <4>1, <4>2
    <3>5. ASSUME NEW j \in Keys, NEW t \in Threads
          PROVE  Owning(j, t)' = Owning(j, t)
      BY <1>1, <2>1 DEF Owning, TypeOK
    <3> QED
      BY <1>1, <3>4, <3>5 DEF CountInv
  <2>5. ExclusionInv'
    <3>1. Writing(o) = {}
      <4>1. Writing(o) \in SUBSET Frames
        BY DEF Writing
      <4>2. rw[o].writers = 0
        BY <1>2, <1>4 DEF ReadBlocked, TypeOK
      <4> QED
        BY <4>1, <4>2, <1>2, FrameSets DEF CountInv
    <3>2. \A g \in Frames : Has(g) /\ lock[g] = o => mode[g] = "read"
      BY <3>1 DEF Writing, TypeOK
    <3> QED
      BY <1>1, <1>2, <2>1, <3>2 DEF ExclusionInv, Has, TypeOK
  <2> QED
    BY <2>2, <2>3, <2>4, <2>5
<1> QED
  BY <1>3, <1>4

LEMMA AcquireWriteInv ==
  ASSUME IInv, NEW f \in Frames, AcquireWrite(f)
  PROVE  IInv'
<1> USE DEF IInv
<1>1. /\ pc[f] \in {"enter", "awake"} /\ mode[f] = "write"
      /\ UNCHANGED <<key, mode, lock, locks, refs, allocations, waiting>>
  BY DEF AcquireWrite
<1>2. PICK o \in Locks : o = lock[f]
  BY <1>1 DEF FrameInv, TypeOK
<1>3. /\ rw[o] \in [readers : Nat, writers : Nat, requests : Nat]
      /\ Asked(f) \in {0, 1} /\ rw[o].requests - Asked(f) \in Nat
  <2>1. CASE pc[f] = "enter"
    BY <2>1 DEF Asked, TypeOK
  <2>2. CASE pc[f] # "enter"
    <3>1. f \in Asking(o) /\ Asking(o) \in SUBSET Frames
      BY <1>1, <1>2, <2>2 DEF Asking
    <3>2. rw[o].requests - 1 \in Nat
      BY <3>1, CountOneLess DEF CountInv
    <3> QED
      BY <2>2, <3>2 DEF Asked, TypeOK
  <2> QED
    BY <2>1, <2>2
<1>4. \A p \in Locks : Reading(p) \in SUBSET Frames
        /\ Writing(p) \in SUBSET Frames /\ Asking(p) \in SUBSET Frames
  BY DEF Reading, Writing, Asking
<1>5. CASE WriteBlocked(o)
  <2>1. /\ pc' = [pc EXCEPT ![f] = "asleep"]
        /\ rw' = [rw EXCEPT ![o].requests = @ + 1 - Asked(f)]
    BY <1>2, <1>5 DEF AcquireWrite
  <2>2. TypeOK'
    <3>1. [rw[o] EXCEPT !.requests = @ + 1 - Asked(f)]
            \in [readers : Nat, writers : Nat, requests : Nat]
      BY <1>3
    <3>2. rw' \in [Locks -> [readers : Nat, writers : Nat, requests : Nat]]
      BY <3>1, <2>1 DEF TypeOK
    <3> QED
      BY <1>1, <2>1, <3>2 DEF TypeOK, Places
  <2>3. FrameInv' /\ RefsInv'
    BY <1>1, <2>1, InsideInv DEF TypeOK
  <2>4. CountInv'
    <3>1. ASSUME NEW p \in Locks
          PROVE  /\ Reading(p)' = Reading(p) /\ Writing(p)' = Writing(p)
                 /\ p # o => Asking(p)' = Asking(p)
      BY <1>1, <1>2, <2>1 DEF Reading, Writing, Asking, Has, TypeOK
    <3>2. Cardinality(Asking(o)') = rw[o].requests + 1 - Asked(f)
      <4>1. CASE pc[f] = "enter"
        <5>1. Asking(o)' = Asking(o) \union {f} /\ f \notin Asking(o)
          BY <4>1, <1>1, <1>2, <2>1 DEF Asking, TypeOK
        <5>2. Cardinality(Asking(o) \union {f}) = Cardinality(Asking(o)) + 1
          BY <5>1, <1>4, CountOneMore
        <5> QED
          BY <4>1, <5>1, <5>2, <1>3 DEF Asked, CountInv
      <4>2. CASE pc[f] = "awake"
        <5>1. Asking(o)' = Asking(o)
          BY <4>2, <1>1, <1>2, <2>1 DEF Asking, TypeOK
        <5> QED
          BY <4>2, <5>1, <1>3 DEF Asked, CountInv
      <4> QED
        BY <1>1, <4>1, <4>2
    <3>3. ASSUME NEW p \in Locks
          PROVE  /\ rw'[p].readers = Cardinality(Reading(p)')
                 /\ rw'[p].writers = Cardinality(Writing(p)')
                 /\ rw'[p].requests = Cardinality(Asking(p)')
      <4>1. CASE p # o
        BY <4>1, <2>1, <3>1 DEF CountInv, TypeOK
      <4>2. CASE p = o
        <5>1. /\ rw'[o].readers = rw[o].readers
              /\ rw'[o].writers = rw[o].writers
              /\ rw'[o].requests = rw[o].requests + 1 - Asked(f)
          BY <2>1, <1>3 DEF TypeOK
        <5> QED
          BY <4>2, <5>1, <3>1, <3>2 DEF CountInv
      <4> QED
        BY <4>1, <4>2
    <3>4. ASSUME NEW j \in Keys, NEW t \in Threads
          PROVE  Owning(j, t)' = Owning(j, t)
      BY <1>1, <2>1 DEF Owning, TypeOK
    <3> QED
      BY <1>1, <3>3, <3>4 DEF CountInv
  <2>5. ExclusionInv'
    BY <1>1, <2>1 DEF ExclusionInv, Has, TypeOK
  <2> QED
    BY <2>2, <2>3, <2>4, <2>5
<1>6. CASE ~WriteBlocked(o)
  <2>1. /\ pc' = [pc EXCEPT ![f] = "granted"]
        /\ rw' = [rw EXCEPT ![o] =
                    [rw[o] EXCEPT !.writers = @ + 1, !.requests = @ - Asked(f)]]
    BY <1>2, <1>6 DEF AcquireWrite
  <2>2. TypeOK'
    <3>1. [rw[o] EXCEPT !.writers = @ + 1, !.requests = @ - Asked(f)]
            \in [readers : Nat, writers : Nat, requests : Nat]
      <4>1. rw[o].writers + 1 \in Nat
        BY <1>3
      <4> QED
        BY <4>1, <1>3
    <3>2. rw' \in [Locks -> [readers : Nat, writers : Nat, requests : Nat]]
      BY <3>1, <2>1 DEF TypeOK
    <3> QED
      BY <1>1, <2>1, <3>2 DEF TypeOK, Places
  <2>3. FrameInv' /\ RefsInv'
    BY <1>1, <2>1, InsideInv DEF TypeOK
  <2>4. CountInv'
    <3>1. ASSUME NEW p \in Locks
          PROVE  /\ Reading(p)' = Reading(p)
                 /\ p # o => Writing(p)' = Writing(p) /\ Asking(p)' = Asking(p)
      BY <1>1, <1>2, <2>1 DEF Reading, Writing, Asking, Has, TypeOK
    <3>2. Cardinality(Writing(o)') = rw[o].writers + 1
      <4>1. Writing(o)' = Writing(o) \union {f} /\ f \notin Writing(o)
        BY <1>1, <1>2, <2>1 DEF Writing, Has, TypeOK
      <4>2. Cardinality(Writing(o) \union {f}) = Cardinality(Writing(o)) + 1
        BY <4>1, <1>4, CountOneMore
      <4> QED
        BY <4>1, <4>2 DEF CountInv
    <3>3. Cardinality(Asking(o)') = rw[o].requests - Asked(f)
      <4>1. CASE pc[f] = "enter"
        <5>1. Asking(o)' = Asking(o)
          BY <4>1, <1>1, <1>2, <2>1 DEF Asking, TypeOK
        <5> QED
          BY <4>1, <5>1, <1>3 DEF Asked, CountInv
      <4>2. CASE pc[f] = "awake"
        <5>1. Asking(o)' = Asking(o) \ {f} /\ f \in Asking(o)
          BY <4>2, <1>1, <1>2, <2>1 DEF Asking, TypeOK
        <5>2. Cardinality(Asking(o) \ {f}) = Cardinality(Asking(o)) - 1
          BY <5>1, <1>4, CountOneLess
        <5> QED
          BY <4>2, <5>1, <5>2 DEF Asked, CountInv
      <4> QED
        BY <1>1, <4>1, <4>2
    <3>4. ASSUME NEW p \in Locks
          PROVE  /\ rw'[p].readers = Cardinality(Reading(p)')
                 /\ rw'[p].writers = Cardinality(Writing(p)')
                 /\ rw'[p].requests = Cardinality(Asking(p)')
      <4>1. CASE p # o
        BY <4>1, <2>1, <3>1 DEF CountInv, TypeOK
      <4>2. CASE p = o
        <5>1. /\ rw'[o].readers = rw[o].readers
              /\ rw'[o].writers = rw[o].writers + 1
              /\ rw'[o].requests = rw[o].requests - Asked(f)
          BY <2>1, <1>3 DEF TypeOK
        <5> QED
          BY <4>2, <5>1, <3>1, <3>2, <3>3 DEF CountInv
      <4> QED
        BY <4>1, <4>2
    <3>5. ASSUME NEW j \in Keys, NEW t \in Threads
          PROVE  Owning(j, t)' = Owning(j, t)
      BY <1>1, <2>1 DEF Owning, TypeOK
    <3> QED
      BY <1>1, <3>4, <3>5 DEF CountInv
  <2>5. ExclusionInv'
    <3>1. rw[o].readers = 0 /\ rw[o].writers = 0
      BY <1>3, <1>6 DEF WriteBlocked
    <3>2. Reading(o) = {} /\ Writing(o) = {}
      BY <3>1, <1>4, FrameSets DEF CountInv
    <3>3. \A g \in Frames : Has(g) => lock[g] # o
      BY <3>2 DEF Reading, Writing, TypeOK
    <3> QED
      BY <1>1, <1>2, <2>1, <3>3 DEF ExclusionInv, Has, TypeOK
  <2> QED
    BY <2>2, <2>3, <2>4, <2>5
<1> QED
  BY <1>5, <1>6

(* Register and Unregister change what _allocations counts, nothing else.  *)
LEMMA RegisterInv ==
  ASSUME IInv, NEW f \in Frames, Register(f)
  PROVE  IInv'
<1> USE DEF IInv
<1>1. /\ pc[f] = "granted" /\ pc' = [pc EXCEPT ![f] = "held"]
      /\ waiting' = [waiting EXCEPT ![f[1]] = NoKey]
      /\ UNCHANGED <<key, mode, lock, locks, refs, rw>>
  BY DEF Register
<1>2. PICK k \in Keys, t \in Threads : k = key[f] /\ t = f[1]
  BY <1>1 DEF FrameInv, TypeOK, Frames
<1>3. allocations' = [allocations EXCEPT ![k][t] = @ + 1]
  BY <1>2 DEF Register
<1>4. TypeOK'
  <2>1. allocations' \in [Keys -> [Threads -> Nat]]
    BY <1>3 DEF TypeOK
  <2> QED
    BY <1>1, <2>1 DEF TypeOK, Places
<1>5. FrameInv' /\ RefsInv'
  BY <1>1, InsideInv DEF TypeOK
<1>6. CountInv'
  <2>1. ASSUME NEW o \in Locks
        PROVE  /\ Reading(o)' = Reading(o) /\ Writing(o)' = Writing(o)
               /\ Asking(o)' = Asking(o)
    BY <1>1 DEF Reading, Writing, Asking, Has, TypeOK
  <2>2. Owning(k, t)' = Owning(k, t) \union {f} /\ f \notin Owning(k, t)
    BY <1>1, <1>2 DEF Owning, TypeOK
  <2>3. Cardinality(Owning(k, t) \union {f}) = Cardinality(Owning(k, t)) + 1
    <3>1. Owning(k, t) \in SUBSET Frames
      BY DEF Owning
    <3> QED
      BY <2>2, <3>1, CountOneMore
  <2>4. ASSUME NEW j \in Keys, NEW u \in Threads
        PROVE  allocations'[j][u] = Cardinality(Owning(j, u)')
    <3>1. CASE j = k /\ u = t
      BY <3>1, <1>3, <2>2, <2>3 DEF CountInv, TypeOK
    <3>2. CASE ~(j = k /\ u = t)
      <4>1. Owning(j, u)' = Owning(j, u)
        BY <3>2, <1>1, <1>2 DEF Owning, TypeOK
      <4> QED
        BY <3>2, <4>1, <1>3 DEF CountInv, TypeOK
    <3> QED
      BY <3>1, <3>2
  <2> QED
    BY <1>1, <2>1, <2>4 DEF CountInv
<1>7. ExclusionInv'
  BY <1>1 DEF ExclusionInv, Has, TypeOK
<1> QED
  BY <1>4, <1>5, <1>6, <1>7

LEMMA UnregisterInv ==
  ASSUME IInv, NEW f \in Frames, Unregister(f)
  PROVE  IInv'
<1> USE DEF IInv
<1>1. /\ pc[f] = "held" /\ pc' = [pc EXCEPT ![f] = "leaving"]
      /\ UNCHANGED <<key, mode, lock, locks, refs, rw, waiting>>
  BY DEF Unregister
<1>2. PICK k \in Keys, t \in Threads : k = key[f] /\ t = f[1]
  BY <1>1 DEF FrameInv, TypeOK, Frames
<1>3. allocations' = [allocations EXCEPT ![k][t] = @ - 1]
  BY <1>2 DEF Unregister
<1>4. Owning(k, t)' = Owning(k, t) \ {f} /\ f \in Owning(k, t)
  BY <1>1, <1>2 DEF Owning, TypeOK
<1>5. /\ Cardinality(Owning(k, t) \ {f}) = Cardinality(Owning(k, t)) - 1
      /\ allocations[k][t] - 1 \in Nat
  <2>1. Owning(k, t) \in SUBSET Frames
    BY DEF Owning
  <2> QED
    BY <1>4, <2>1, CountOneLess DEF CountInv
<1>6. TypeOK'
  <2>1. allocations' \in [Keys -> [Threads -> Nat]]
    BY <1>3, <1>5 DEF TypeOK
  <2> QED
    BY <1>1, <2>1 DEF TypeOK, Places
<1>7. FrameInv' /\ RefsInv'
  BY <1>1, InsideInv DEF TypeOK
<1>8. CountInv'
  <2>1. ASSUME NEW o \in Locks
        PROVE  /\ Reading(o)' = Reading(o) /\ Writing(o)' = Writing(o)
               /\ Asking(o)' = Asking(o)
    BY <1>1 DEF Reading, Writing, Asking, Has, TypeOK
  <2>2. ASSUME NEW j \in Keys, NEW u \in Threads
        PROVE  allocations'[j][u] = Cardinality(Owning(j, u)')
    <3>1. CASE j = k /\ u = t
      BY <3>1, <1>3, <1>4, <1>5 DEF CountInv, TypeOK
    <3>2. CASE ~(j = k /\ u = t)
      <4>1. Owning(j, u)' = Owning(j, u)
        BY <3>2, <1>1, <1>2 DEF Owning, TypeOK
      <4> QED
        BY <3>2, <4>1, <1>3 DEF CountInv, TypeOK
    <3> QED
      BY <3>1, <3>2
  <2> QED
    BY <1>1, <2>1, <2>2 DEF CountInv
<1>9. ExclusionInv'
  BY <1>1 DEF ExclusionInv, Has, TypeOK
<1> QED
  BY <1>6, <1>7, <1>8, <1>9

(* What a release does beside its counter: it may wake sleeping blocks,    *)
(* and waking one changes no set that is counted.                          *)
Woken(f) ==
  /\ pc[f] = "leaving" /\ pc' \in [Frames -> Places] /\ pc'[f] = "unref"
  /\ \A g \in Frames \ {f} :
       pc'[g] = pc[g] \/ (pc[g] = "asleep" /\ pc'[g] = "awake")
  /\ UNCHANGED <<key, mode, lock, locks, refs, allocations, waiting>>

LEMMA WokenInv ==
  ASSUME IInv, NEW f \in Frames, Woken(f)
  PROVE  /\ FrameInv' /\ RefsInv' /\ ExclusionInv'
         /\ \A p \in Locks : /\ Reading(p)' = Reading(p) \ {f}
                             /\ Writing(p)' = Writing(p) \ {f}
                             /\ Asking(p)' = Asking(p)
         /\ \A k \in Keys, t \in Threads :
              allocations'[k][t] = Cardinality(Owning(k, t)')
<1> USE DEF IInv
<1>1. FrameInv' /\ RefsInv'
  <2>1. \A g \in Frames : pc'[g] = "free" <=> pc[g] = "free"
    BY DEF Woken
  <2> QED
    BY <2>1, InsideInv DEF Woken
<1>2. ExclusionInv'
  BY DEF Woken, ExclusionInv, Has
<1>3. ASSUME NEW p \in Locks
      PROVE  /\ Reading(p)' = Reading(p) \ {f}
             /\ Writing(p)' = Writing(p) \ {f}
             /\ Asking(p)' = Asking(p)
  <2>1. \A g \in Frames : Has(g)' <=> Has(g) /\ g # f
    BY DEF Woken, Has
  <2>2. \A g \in Frames : pc'[g] \in {"asleep", "awake"}
                            <=> pc[g] \in {"asleep", "awake"}
    BY DEF Woken
  <2>3. Reading(p)' = Reading(p) \ {f} /\ Writing(p)' = Writing(p) \ {f}
    BY <2>1 DEF Woken, Reading, Writing
  <2>4. Asking(p)' = Asking(p)
    BY <2>2 DEF Woken, Asking
  <2> QED
    BY <2>3, <2>4
<1>4. ASSUME NEW k \in Keys, NEW t \in Threads
      PROVE  allocations'[k][t] = Cardinality(Owning(k, t)')
  <2>1. Owning(k, t)' = Owning(k, t)
    BY DEF Woken, Owning
  <2> QED
    BY <2>1 DEF Woken, CountInv
<1> QED
  BY <1>1, <1>2, <1>3, <1>4

LEMMA ReleaseReadInv ==
  ASSUME IInv, NEW f \in Frames, ReleaseRead(f)
  PROVE  IInv'
<1> USE DEF IInv
<1>1. PICK o \in Locks : o = lock[f]
  BY DEF ReleaseRead, FrameInv, TypeOK
<1>2. Woken(f) /\ mode[f] = "read"
  BY DEF ReleaseRead, Woken, NotifyAll, TypeOK, Places
<1>3. rw' = [rw EXCEPT ![o].readers = @ - 1]
  BY <1>1 DEF ReleaseRead
<1>4. f \in Reading(o) /\ \A p \in Locks : f \notin Writing(p)
                          /\ (p # o => f \notin Reading(p))
  BY <1>1, <1>2 DEF Woken, Reading, Writing, Has
<1>5. /\ Cardinality(Reading(o) \ {f}) = rw[o].readers - 1
      /\ rw[o].readers - 1 \in Nat
  <2>1. Reading(o) \in SUBSET Frames
    BY DEF Reading
  <2> QED
    BY <1>4, <2>1, CountOneLess DEF CountInv
<1>6. TypeOK'
  <2>1. [rw[o] EXCEPT !.readers = @ - 1]
          \in [readers : Nat, writers : Nat, requests : Nat]
    BY <1>5 DEF TypeOK
  <2>2. rw' \in [Locks -> [readers : Nat, writers : Nat, requests : Nat]]
    BY <2>1, <1>3 DEF TypeOK
  <2> QED
    BY <2>2, <1>2 DEF TypeOK, Woken
<1>7. CountInv'
  <2>1. ASSUME NEW p \in Locks
        PROVE  /\ rw'[p].readers = Cardinality(Reading(p)')
               /\ rw'[p].writers = Cardinality(Writing(p)')
               /\ rw'[p].requests = Cardinality(Asking(p)')
    <3>1. /\ Writing(p)' = Writing(p) /\ Asking(p)' = Asking(p)
          /\ Reading(p)' = Reading(p) \ {f}
      <4>1. /\ Writing(p)' = Writing(p) \ {f} /\ Asking(p)' = Asking(p)
            /\ Reading(p)' = Reading(p) \ {f}
        BY <1>2, WokenInv
      <4>2. Writing(p) \ {f} = Writing(p)
        BY <1>4
      <4> QED
        BY <4>1, <4>2
    <3>2. CASE p # o
      <4>1. Reading(p) \ {f} = Reading(p)
        BY <3>2, <1>4
      <4> QED
        BY <3>1, <3>2, <4>1, <1>3 DEF CountInv, TypeOK
    <3>3. CASE p = o
      <4>1. /\ rw'[o].readers = rw[o].readers - 1
            /\ rw'[o].writers = rw[o].writers
            /\ rw'[o].requests = rw[o].requests
        BY <1>3 DEF TypeOK
      <4> QED
        BY <3>3, <4>1, <3>1, <1>5 DEF CountInv
    <3> QED
      BY <3>2, <3>3
  <2> QED
    BY <2>1, <1>2, WokenInv DEF CountInv
<1> QED
  BY <1>2, <1>6, <1>7, WokenInv

LEMMA ReleaseWriteInv ==
  ASSUME IInv, NEW f \in Frames, ReleaseWrite(f)
  PROVE  IInv'
<1> USE DEF IInv
<1>1. PICK o \in Locks : o = lock[f]
  BY DEF ReleaseWrite, FrameInv, TypeOK
<1>2. Woken(f) /\ mode[f] = "write"
  BY DEF ReleaseWrite, Woken, NotifyAll, TypeOK, Places
<1>3. rw' = [rw EXCEPT ![o].writers = @ - 1]
  BY <1>1 DEF ReleaseWrite
<1>4. f \in Writing(o) /\ \A p \in Locks : f \notin Reading(p)
                          /\ (p # o => f \notin Writing(p))
  BY <1>1, <1>2 DEF Woken, Reading, Writing, Has
<1>5. /\ Cardinality(Writing(o) \ {f}) = rw[o].writers - 1
      /\ rw[o].writers - 1 \in Nat
  <2>1. Writing(o) \in SUBSET Frames
    BY DEF Writing
  <2> QED
    BY <1>4, <2>1, CountOneLess DEF CountInv
<1>6. TypeOK'
  <2>1. [rw[o] EXCEPT !.writers = @ - 1]
          \in [readers : Nat, writers : Nat, requests : Nat]
    BY <1>5 DEF TypeOK
  <2>2. rw' \in [Locks -> [readers : Nat, writers : Nat, requests : Nat]]
    BY <2>1, <1>3 DEF TypeOK
  <2> QED
    BY <2>2, <1>2 DEF TypeOK, Woken
<1>7. CountInv'
  <2>1. ASSUME NEW p \in Locks
        PROVE  /\ rw'[p].readers = Cardinality(Reading(p)')
               /\ rw'[p].writers = Cardinality(Writing(p)')
               /\ rw'[p].requests = Cardinality(Asking(p)')
    <3>1. /\ Reading(p)' = Reading(p) /\ Asking(p)' = Asking(p)
          /\ Writing(p)' = Writing(p) \ {f}
      <4>1. /\ Reading(p)' = Reading(p) \ {f} /\ Asking(p)' = Asking(p)
            /\ Writing(p)' = Writing(p) \ {f}
        BY <1>2, WokenInv
      <4>2. Reading(p) \ {f} = Reading(p)
        BY <1>4
      <4> QED
        BY <4>1, <4>2
    <3>2. CASE p # o
      <4>1. Writing(p) \ {f} = Writing(p)
        BY <3>2, <1>4
      <4> QED
        BY <3>1, <3>2, <4>1, <1>3 DEF CountInv, TypeOK
    <3>3. CASE p = o
      <4>1. /\ rw'[o].readers = rw[o].readers
            /\ rw'[o].writers = rw[o].writers - 1
            /\ rw'[o].requests = rw[o].requests
        BY <1>3 DEF TypeOK
      <4> QED
        BY <3>3, <4>1, <3>1, <1>5 DEF CountInv
    <3> QED
      BY <3>2, <3>3
  <2> QED
    BY <2>1, <1>2, WokenInv DEF CountInv
<1> QED
  BY <1>2, <1>6, <1>7, WokenInv

-----------------------------------------------------------------------------
LEMMA RefuseInv ==
  ASSUME IInv, NEW f \in Frames, Refuse(f)
  PROVE  IInv'
BY ReleaseRefInv DEF Refuse, IInv, TypeOK

LEMMA UnrefInv ==
  ASSUME IInv, NEW f \in Frames, Unref(f)
  PROVE  IInv'
<1>1. waiting' \in [Threads -> Keys \union {NoKey}]
  BY DEF Unref, IInv, TypeOK
<1> QED
  BY <1>1, ReleaseRefInv DEF Unref

LEMMA StepInv == IInv /\ [Next]_vars => IInv'
<1> SUFFICES ASSUME IInv, [Next]_vars PROVE IInv'
  OBVIOUS
<1>1. ASSUME NEW f \in Frames, Open(f) PROVE IInv'
  BY <1>1, GetLockInv DEF Open
<1>2. ASSUME NEW f \in Frames, Step(f) PROVE IInv'
  <2>1. CASE EnterOrRefuse(f)
    BY <2>1, EnterOrRefuseInv
  <2>2. CASE Refuse(f)
    BY <2>2, RefuseInv
  <2>3. CASE AcquireRead(f)
    BY <2>3, AcquireReadInv
  <2>4. CASE AcquireWrite(f)
    BY <2>4, AcquireWriteInv
  <2>5. CASE Register(f)
    BY <2>5, RegisterInv
  <2>6. CASE Unregister(f)
    BY <2>6, UnregisterInv
  <2>7. CASE ReleaseRead(f)
    BY <2>7, ReleaseReadInv
  <2>8. CASE ReleaseWrite(f)
    BY <2>8, ReleaseWriteInv
  <2>9. CASE Unref(f)
    BY <2>9, UnrefInv
  <2> QED
    BY <1>2, <2>1, <2>2, <2>3, <2>4, <2>5, <2>6, <2>7, <2>8, <2>9 DEF Step
<1>3. CASE UNCHANGED vars
  <2>1. TypeOK' /\ FrameInv' /\ ExclusionInv'
    BY <1>3 DEF vars, IInv, TypeOK, FrameInv, ExclusionInv, Has
  <2>2. \A k \in Keys : Using(k)' = Using(k)
    BY <1>3 DEF vars, Using
  <2>3. \A o \in Locks : /\ Reading(o)' = Reading(o)
                         /\ Writing(o)' = Writing(o) /\ Asking(o)' = Asking(o)
    BY <1>3 DEF vars, Reading, Writing, Asking, Has
  <2>4. \A k \in Keys, t \in Threads : Owning(k, t)' = Owning(k, t)
    BY <1>3 DEF vars, Owning
  <2>5. RefsInv' /\ CountInv'
    BY <1>3, <2>2, <2>3, <2>4 DEF vars, IInv, RefsInv, CountInv
  <2> QED
    BY <2>1, <2>5 DEF IInv
<1> QED
  BY <1>1, <1>2, <1>3 DEF Next

-----------------------------------------------------------------------------
(* The inductive invariant holds: every counter of the lock manager counts *)
(* what the code means it to.                                              *)
THEOREM Inductive == Spec => []IInv
<1>1. Init => IInv
  BY InitInv
<1>2. IInv /\ [Next]_vars => IInv'
  BY StepInv
<1> QED
  BY <1>1, <1>2, PTL DEF Spec

(* Type correctness; in particular no counter ever goes below zero.        *)
THEOREM TypeCorrect == Spec => []TypeOK
<1>1. IInv => TypeOK
  BY DEF IInv
<1> QED
  BY <1>1, Inductive, PTL

(* Two blocks on one key run together only if both are shared (shared_lock *)
(* and exclusive_lock), for any number of threads, keys and nested blocks. *)
THEOREM Exclusion == Spec => []MutualExclusion
<1>1. IInv => MutualExclusion
  BY DEF IInv, FrameInv, ExclusionInv, MutualExclusion, Has
<1> QED
  BY <1>1, Inductive, PTL

(* _release_ref drops an object exactly when its last user is gone: never  *)
(* in use, and never later.                                                *)
THEOREM NothingDropped == Spec => []LocksInUse
<1>1. IInv => LocksInUse
  BY DEF IInv, FrameInv, RefsInv, LocksInUse, Using
<1> QED
  BY <1>1, Inductive, PTL

-----------------------------------------------------------------------------
(* LockManager implements RWMutex: a block comes to hold its key in the    *)
(* step that is granted the RWLock, lets go of it in the step that         *)
(* releases the RWLock, and every other step is a stutter.                 *)

LEMMA SameHolders ==
  ASSUME \A g \in Frames : Has(g)' <=> Has(g),
         \A g \in Frames : Has(g) => key'[g] = key[g] /\ mode'[g] = mode[g]
  PROVE  UNCHANGED Mutex!vars
BY DEF Mutex!vars, HeldBy

LEMMA AcquireRefines ==
  ASSUME IInv, IInv', NEW f \in Frames, AcquireRead(f) \/ AcquireWrite(f)
  PROVE  [Mutex!Next]_(Mutex!vars)
<1>1. PICK k \in Keys : k = key[f]
  BY DEF AcquireRead, AcquireWrite, IInv, FrameInv, TypeOK
<1>2. /\ pc[f] \in {"enter", "awake"} /\ UNCHANGED <<key, mode, lock, locks>>
      /\ mode[f] \in {"read", "write"}
  BY DEF AcquireRead, AcquireWrite
<1>3. pc' = [pc EXCEPT ![f] = "asleep"] \/ pc' = [pc EXCEPT ![f] = "granted"]
  BY DEF AcquireRead, AcquireWrite
<1>4. CASE pc' = [pc EXCEPT ![f] = "asleep"]
  BY <1>2, <1>4, SameHolders DEF Has, IInv, TypeOK
<1>5. CASE pc' = [pc EXCEPT ![f] = "granted"]
  <2>1. \A g \in Frames : Has(g)' <=> Has(g) \/ g = f
    BY <1>2, <1>5 DEF Has, IInv, TypeOK
  <2>2. ~Has(f)
    BY <1>2 DEF Has
  <2>3. \A g \in Frames : Has(g) /\ key[g] = k
          => mode[f] = "read" /\ mode[g] = "read"
    <3>1. ASSUME NEW g \in Frames, Has(g), key[g] = k
          PROVE  mode[f] = "read" /\ mode[g] = "read"
      <4>1. lock[g] = lock[f]
        BY <1>1, <1>2, <3>1 DEF IInv, FrameInv, Has
      <4>2. Has(g)' /\ Has(f)' /\ g # f
        BY <2>1, <2>2, <3>1
      <4> QED
        BY <4>1, <4>2, <1>2 DEF IInv, ExclusionInv
    <3> QED
      BY <3>1
  <2>4. CASE mode[f] = "read"
    <3>1. HeldBy("write")[k] = {}
      BY <2>3 DEF HeldBy
    <3>2. f \notin HeldBy("read")[k]
      BY <2>2 DEF HeldBy
    <3>3. /\ HeldBy("read")' = [HeldBy("read") EXCEPT
                                  ![k] = HeldBy("read")[k] \union {f}]
          /\ HeldBy("write")' = HeldBy("write")
      BY <1>1, <1>2, <2>1, <2>2, <2>4 DEF HeldBy
    <3>4. Mutex!AcquireShared(f, k)
      BY <3>1, <3>2, <3>3 DEF Mutex!AcquireShared
    <3> QED
      BY <3>4 DEF Mutex!Next
  <2>5. CASE mode[f] = "write"
    <3>1. HeldBy("write")[k] = {} /\ HeldBy("read")[k] = {}
      BY <2>3, <2>5 DEF HeldBy
    <3>2. /\ HeldBy("write")' = [HeldBy("write") EXCEPT ![k] = {f}]
          /\ HeldBy("read")' = HeldBy("read")
      <4>1. /\ HeldBy("write")' = [HeldBy("write") EXCEPT
                                     ![k] = HeldBy("write")[k] \union {f}]
            /\ HeldBy("read")' = HeldBy("read")
        BY <1>1, <1>2, <2>1, <2>2, <2>5 DEF HeldBy
      <4>2. HeldBy("write")[k] \union {f} = {f}
        BY <3>1
      <4> QED
        BY <4>1, <4>2
    <3>3. Mutex!AcquireExclusive(f, k)
      BY <3>1, <3>2 DEF Mutex!AcquireExclusive
    <3> QED
      BY <3>3 DEF Mutex!Next
  <2> QED
    BY <1>2, <2>4, <2>5
<1> QED
  BY <1>3, <1>4, <1>5

LEMMA ReleaseRefines ==
  ASSUME IInv, NEW f \in Frames, ReleaseRead(f) \/ ReleaseWrite(f)
  PROVE  [Mutex!Next]_(Mutex!vars)
<1>1. PICK k \in Keys : k = key[f]
  BY DEF ReleaseRead, ReleaseWrite, IInv, FrameInv, TypeOK
<1>2. /\ Woken(f)
      /\ mode[f] \in {"read", "write"}
  BY DEF ReleaseRead, ReleaseWrite, Woken, NotifyAll, IInv, TypeOK, Places
<1>3. (\A g \in Frames : Has(g)' <=> Has(g) /\ g # f) /\ Has(f)
  BY <1>2 DEF Woken, Has
<1>4. UNCHANGED <<key, mode>>
  BY <1>2 DEF Woken
<1>5. CASE mode[f] = "read"
  <2>1. f \in HeldBy("read")[k]
    BY <1>1, <1>3, <1>5 DEF HeldBy
  <2>2. /\ HeldBy("read")' = [HeldBy("read") EXCEPT
                                ![k] = HeldBy("read")[k] \ {f}]
        /\ HeldBy("write")' = HeldBy("write")
    BY <1>1, <1>3, <1>4, <1>5 DEF HeldBy
  <2>3. Mutex!ReleaseShared(f, k)
    BY <2>1, <2>2 DEF Mutex!ReleaseShared
  <2> QED
    BY <2>3 DEF Mutex!Next
<1>6. CASE mode[f] = "write"
  <2>1. f \in HeldBy("write")[k]
    BY <1>1, <1>3, <1>6 DEF HeldBy
  <2>2. \A g \in Frames : Has(g) /\ key[g] = k => g = f
    BY <1>1, <1>3, <1>6 DEF IInv, FrameInv, ExclusionInv, Has
  <2>3. /\ HeldBy("write")' = [HeldBy("write") EXCEPT ![k] = {}]
        /\ HeldBy("read")' = HeldBy("read")
    BY <1>1, <1>3, <1>4, <1>6, <2>2 DEF HeldBy
  <2>4. Mutex!ReleaseExclusive(f, k)
    BY <2>1, <2>3 DEF Mutex!ReleaseExclusive
  <2> QED
    BY <2>4 DEF Mutex!Next
<1> QED
  BY <1>2, <1>5, <1>6

LEMMA OtherRefines ==
  ASSUME IInv, NEW f \in Frames,
         \/ Open(f) \/ EnterOrRefuse(f) \/ Refuse(f)
         \/ Register(f) \/ Unregister(f) \/ Unref(f)
  PROVE  UNCHANGED Mutex!vars
<1>1. CASE Open(f)
  <2>1. PICK k \in Keys, m \in {"read", "write"} : GetLock(f, k, m)
    BY <1>1 DEF Open
  <2>2. pc[f] = "free"
    BY <2>1, FreeWhenOpening DEF GetLock
  <2> QED
    BY <2>1, <2>2, SameHolders DEF GetLock, Has, IInv, TypeOK
<1>2. CASE EnterOrRefuse(f)
  BY <1>2, SameHolders DEF EnterOrRefuse, Has, IInv, TypeOK
<1>3. CASE Refuse(f) \/ Unref(f)
  BY <1>3, SameHolders DEF Refuse, Unref, ReleaseRef, Has, IInv, TypeOK
<1>4. CASE Register(f) \/ Unregister(f)
  BY <1>4, SameHolders DEF Register, Unregister, Has, IInv, TypeOK
<1> QED
  BY <1>1, <1>2, <1>3, <1>4

(* The manager implements one reader-writer mutex per key.                 *)
THEOREM Refinement == Spec => ImplementsMutex
<1>1. Init => Mutex!Init
  BY DEF Init, Mutex!Init, HeldBy, Has
<1>2. IInv /\ IInv' /\ [Next]_vars => [Mutex!Next]_(Mutex!vars)
  <2> SUFFICES ASSUME IInv, IInv', [Next]_vars
               PROVE  [Mutex!Next]_(Mutex!vars)
    OBVIOUS
  <2>1. ASSUME NEW f \in Frames, Open(f) \/ Step(f)
        PROVE  [Mutex!Next]_(Mutex!vars)
    BY <2>1, AcquireRefines, ReleaseRefines, OtherRefines DEF Step
  <2>2. CASE UNCHANGED vars
    BY <2>2, SameHolders DEF vars, Has
  <2> QED
    BY <2>1, <2>2 DEF Next
<1> QED
  BY <1>1, <1>2, Inductive, PTL DEF Spec, ImplementsMutex, Mutex!Spec

-----------------------------------------------------------------------------
(* Sleepers have a waker.                                                  *)

Waker(f, g) ==
  /\ g # f /\ lock[g] = lock[f]
  /\ Has(g) \/ (mode[f] = "read" /\ mode[g] = "write" /\ pc[g] = "awake")

(* Whoever finds the lock taken, or asked for, sees somebody who will wake *)
(* him.                                                                    *)
LEMMA BlockedHasWaker ==
  ASSUME IInv, NoLostWakeup, NEW f \in Frames, lock[f] \in Locks, ~Has(f),
         \/ WriteBlocked(lock[f])
         \/ mode[f] = "read" /\ ReadBlocked(lock[f])
  PROVE  \E g \in Frames : Waker(f, g)
                           /\ (mode[f] = "write" => Has(g))
<1> USE DEF IInv
<1>1. PICK o \in Locks : o = lock[f]
  OBVIOUS
<1>2. Reading(o) \in SUBSET Frames /\ Writing(o) \in SUBSET Frames
        /\ Asking(o) \in SUBSET Frames
  BY DEF Reading, Writing, Asking
<1>3. CASE Reading(o) # {} \/ Writing(o) # {}
  BY <1>1, <1>3 DEF Reading, Writing, Waker
<1>4. CASE mode[f] = "read" /\ Asking(o) # {}
  <2>1. PICK g \in Asking(o) : TRUE
    BY <1>4
  <2>2. CASE pc[g] = "awake"
    BY <1>1, <1>4, <2>1, <2>2 DEF Asking, Waker
  <2>3. CASE pc[g] = "asleep"
    BY <1>1, <1>4, <2>1, <2>3 DEF Asking, NoLostWakeup, Waker
  <2> QED
    BY <2>1, <2>2, <2>3 DEF Asking
<1>5. rw[o].readers > 0 \/ rw[o].writers > 0
        \/ (mode[f] = "read" /\ rw[o].requests > 0)
  BY <1>1 DEF WriteBlocked, ReadBlocked
<1>6. /\ rw[o].readers > 0 => Reading(o) # {}
      /\ rw[o].writers > 0 => Writing(o) # {}
      /\ rw[o].requests > 0 => Asking(o) # {}
  BY <1>2, FrameSets DEF CountInv
<1> QED
  BY <1>3, <1>4, <1>5, <1>6

LEMMA WakersStay ==
  ASSUME IInv, NoLostWakeup,
         \A f \in Frames : pc'[f] = "asleep" => pc[f] = "asleep",
         \A f, g \in Frames : pc'[f] = "asleep" /\ Waker(f, g) => Waker(f, g)'
  PROVE  NoLostWakeup'
BY DEF NoLostWakeup, Waker

LEMMA AcquireWakes ==
  ASSUME IInv, NoLostWakeup, NEW h \in Frames, AcquireRead(h) \/ AcquireWrite(h)
  PROVE  NoLostWakeup'
<1>1. /\ pc[h] \in {"enter", "awake"} /\ mode[h] \in {"read", "write"}
      /\ UNCHANGED <<mode, lock>> /\ lock[h] \in Locks
  BY DEF AcquireRead, AcquireWrite, IInv, FrameInv, TypeOK
<1>2. CASE pc' = [pc EXCEPT ![h] = "granted"]
  <2>1. \A g \in Frames : g # h => pc'[g] = pc[g]
    BY <1>2 DEF IInv, TypeOK
  <2>2. Has(h)'
    BY <1>2 DEF Has, IInv, TypeOK
  <2>3. \A f, g \in Frames : pc'[f] = "asleep" /\ Waker(f, g) => Waker(f, g)'
    BY <1>1, <2>1, <2>2 DEF Waker, Has
  <2> QED
    BY <2>1, <2>2, <2>3, WakersStay DEF Has
<1>3. CASE pc' = [pc EXCEPT ![h] = "asleep"]
  <2>1. \A g \in Frames : g # h => pc'[g] = pc[g]
    BY <1>3 DEF IInv, TypeOK
  <2>2. WriteBlocked(lock[h]) \/ (mode[h] = "read" /\ ReadBlocked(lock[h]))
    BY <1>1, <1>3 DEF AcquireRead, AcquireWrite, IInv, TypeOK
  <2>3. PICK e \in Frames : Waker(h, e) /\ (mode[h] = "write" => Has(e))
    BY <1>1, <2>2, BlockedHasWaker DEF Has
  <2>4. Waker(h, e)'
    BY <1>1, <2>1, <2>3 DEF Waker, Has
  <2>5. ASSUME NEW f \in Frames, f # h, pc'[f] = "asleep"
        PROVE  \E g \in Frames : Waker(f, g)'
    <3>1. PICK g \in Frames : Waker(f, g)
      BY <2>1, <2>5 DEF NoLostWakeup, Waker
    <3>2. CASE g # h
      BY <1>1, <2>1, <3>1, <3>2 DEF Waker, Has
    <3>3. CASE g = h
      <4>1. mode[h] = "write" /\ lock[h] = lock[f]
        BY <1>1, <3>1, <3>3 DEF Waker, Has
      <4>2. Has(e) /\ e # f /\ e # h /\ lock[e] = lock[f]
        BY <2>1, <2>3, <2>5, <4>1 DEF Waker, Has
      <4> QED
        BY <1>1, <2>1, <4>2 DEF Waker, Has
    <3> QED
      BY <3>2, <3>3
  <2> QED
    BY <2>3, <2>4, <2>5 DEF NoLostWakeup, Waker
<1> QED
  BY <1>2, <1>3 DEF AcquireRead, AcquireWrite

LEMMA ReleaseWakes ==
  ASSUME IInv, IInv', NoLostWakeup, NEW h \in Frames,
         ReleaseRead(h) \/ ReleaseWrite(h)
  PROVE  NoLostWakeup'
<1> USE DEF IInv
<1>1. PICK o \in Locks : o = lock[h]
  BY DEF ReleaseRead, ReleaseWrite, FrameInv, TypeOK
<1>2. Woken(h)
  BY DEF ReleaseRead, ReleaseWrite, Woken, NotifyAll, TypeOK, Places
<1>3. /\ \A g \in Frames : Has(g) /\ g # h => Has(g)'
      /\ \A g \in Frames : pc[g] = "awake" => pc'[g] = "awake"
      /\ UNCHANGED <<mode, lock>>
  BY <1>2 DEF Woken, Has
<1>4. ASSUME NEW f \in Frames, pc'[f] = "asleep"
      PROVE  \E g \in Frames : Waker(f, g)'
  <2>1. pc[f] = "asleep" /\ f # h
    BY <1>2, <1>4 DEF Woken
  <2>2. CASE lock[f] = o
    <3>1. ReleaseRead(h) /\ rw'[o].readers # 0
      BY <1>1, <1>4, <2>1, <2>2
         DEF ReleaseRead, ReleaseWrite, NotifyAll, TypeOK
    <3>2. Reading(o)' # {}
      <4>1. Reading(o)' \in SUBSET Frames
        BY DEF Reading
      <4> QED
        BY <3>1, <4>1, FrameSets DEF CountInv
    <3> QED
      BY <1>3, <1>4, <2>2, <3>2 DEF Reading, Waker, Has
  <2>3. CASE lock[f] # o
    <3>1. PICK g \in Frames : Waker(f, g)
      BY <2>1 DEF NoLostWakeup, Waker
    <3>2. g # h
      BY <1>1, <2>3, <3>1 DEF Waker
    <3> QED
      BY <1>3, <3>1, <3>2 DEF Waker
  <2> QED
    BY <2>2, <2>3
<1> QED
  BY <1>4 DEF NoLostWakeup, Waker

LEMMA OtherWakes ==
  ASSUME IInv, NoLostWakeup, NEW h \in Frames,
         \/ Open(h) \/ EnterOrRefuse(h) \/ Refuse(h)
         \/ Register(h) \/ Unregister(h) \/ Unref(h)
  PROVE  NoLostWakeup'
<1> USE DEF IInv
<1>1. CASE Open(h)
  <2>1. PICK k \in Keys, m \in {"read", "write"} : GetLock(h, k, m)
    BY <1>1 DEF Open
  <2>2. pc[h] = "free"
    BY <2>1, FreeWhenOpening DEF GetLock
  <2>3. PICK o : lock' = [lock EXCEPT ![h] = o]
    BY <2>1 DEF GetLock
  <2> QED
    BY <2>1, <2>2, <2>3, WakersStay DEF GetLock, Waker, Has, TypeOK
<1>2. CASE EnterOrRefuse(h)
  BY <1>2, WakersStay DEF EnterOrRefuse, Waker, Has, TypeOK
<1>3. CASE Refuse(h) \/ Unref(h)
  BY <1>3, WakersStay DEF Refuse, Unref, ReleaseRef, Waker, Has, TypeOK
<1>4. CASE Register(h) \/ Unregister(h)
  BY <1>4, WakersStay DEF Register, Unregister, Waker, Has, TypeOK
<1> QED
  BY <1>1, <1>2, <1>3, <1>4

(* A thread asleep in Condition.wait always has a block that will wake it: *)
(* notify_all at zero readers and after every writer suffices.             *)
THEOREM Wakeup == Spec => []NoLostWakeup
<1>1. Init => NoLostWakeup
  BY DEF Init, NoLostWakeup
<1>2. IInv /\ IInv' /\ NoLostWakeup /\ [Next]_vars => NoLostWakeup'
  <2> SUFFICES ASSUME IInv, IInv', NoLostWakeup, [Next]_vars
               PROVE  NoLostWakeup'
    OBVIOUS
  <2>1. ASSUME NEW h \in Frames, Open(h) \/ Step(h) PROVE NoLostWakeup'
    BY <2>1, AcquireWakes, ReleaseWakes, OtherWakes DEF Step
  <2>2. CASE UNCHANGED vars
    BY <2>2 DEF vars, NoLostWakeup, Has
  <2> QED
    BY <2>1, <2>2 DEF Next
<1> QED
  BY <1>1, <1>2, Inductive, PTL DEF Spec

-----------------------------------------------------------------------------
(* Deadlock.  A thread is in one block that is not held at a time, inside  *)
(* bodies that run; _waiting names its key from the check to _allocations. *)
NestInv ==
  \A f, g \in Frames :
    f[1] = g[1] /\ g[2] < f[2] /\ pc[f] # "free" => pc[g] = "held"

Waits(f) == pc[f] \in {"enter", "asleep", "awake", "granted"}
WaitingInv ==
  /\ \A f \in Frames : Waits(f) => waiting[f[1]] = key[f]
  /\ \A t \in Threads :
       waiting[t] # NoKey => \E f \in Frames : f[1] = t /\ Waits(f)

(* The edges that _detect_cycle follows, and what it keeps out: a set of   *)
(* threads that all wait for each other.                                   *)
WaitsFor(t, o) == waiting[t] # NoKey /\ Owns(o, waiting[t])
Acyclic ==
  \A D \in SUBSET Threads : D # {} => \E t \in D : \A o \in D : ~WaitsFor(t, o)

(* Nobody asks to share what his own outer block has: the one hold that    *)
(* _detect_cycle overlooks.                                                *)
NoSharedReentry ==
  \A f, g \in Frames :
    f[1] = g[1] /\ g[2] < f[2] /\ key[f] # NoKey /\ key[f] = key[g]
      => mode[f] = "write"

LEMMA FramePairs ==
  /\ \A f \in Frames : f = <<f[1], f[2]>> /\ f[1] \in Threads /\ f[2] \in 1..MaxDepth
  /\ \A f, g \in Frames : f[1] = g[1] /\ f # g => f[2] < g[2] \/ g[2] < f[2]
<1>1. \A f \in Frames : f = <<f[1], f[2]>> /\ f[1] \in Threads /\ f[2] \in 1..MaxDepth
  BY DEF Frames
<1>2. ASSUME NEW f \in Frames, NEW g \in Frames, f[1] = g[1], f # g
      PROVE  f[2] < g[2] \/ g[2] < f[2]
  <2>1. f[2] # g[2]
    BY <1>1, <1>2
  <2>2. f[2] \in Int /\ g[2] \in Int
    BY <1>1, DepthAssumption
  <2> QED
    BY <2>1, <2>2
<1> QED
  BY <1>1, <1>2

(* The block where a thread is, is its only one that is not held.          *)
LEMMA OnePlace ==
  ASSUME NestInv, NEW f \in Frames, NEW g \in Frames, f[1] = g[1],
         pc[f] \notin {"free", "held"}
  PROVE  g # f => pc[g] \in {"free", "held"}
BY FramePairs DEF NestInv

LEMMA OwnsHeld ==
  ASSUME IInv, NEW t \in Threads, NEW k \in Keys
  PROVE  Owns(t, k) <=> \E g \in Frames : g[1] = t /\ pc[g] = "held" /\ key[g] = k
<1>1. Owning(k, t) \in SUBSET Frames
  BY DEF Owning
<1>2. allocations[k][t] = Cardinality(Owning(k, t))
  BY DEF IInv, CountInv
<1>3. Owns(t, k) <=> Owning(k, t) # {}
  BY <1>1, <1>2, FrameSets DEF Owns
<1> QED
  BY <1>3 DEF Owning

LEMMA SameKey ==
  ASSUME IInv, NEW f \in Frames, NEW g \in Frames,
         pc[f] # "free", pc[g] # "free"
  PROVE  /\ key[f] \in Keys /\ key[g] \in Keys
         /\ lock[f] = lock[g] <=> key[f] = key[g]
BY DEF IInv, TypeOK, FrameInv, RefsInv

LEMMA ReleaseIsWoken ==
  ASSUME TypeOK, NEW h \in Frames, ReleaseRead(h) \/ ReleaseWrite(h)
  PROVE  Woken(h)
BY DEF ReleaseRead, ReleaseWrite, Woken, NotifyAll, TypeOK, Places

LEMMA NestStep ==
  ASSUME TypeOK, NestInv, [Next]_vars PROVE NestInv'
<1> USE DEF NestInv
<1>1. ASSUME NEW h \in Frames, pc[h] \notin {"free", "held"},
             \A f \in Frames \ {h} :
               /\ pc'[f] = "free" <=> pc[f] = "free"
               /\ pc'[f] = "held" <=> pc[f] = "held"
      PROVE  NestInv'
  BY <1>1
<1>2. ASSUME NEW h \in Frames, Open(h) PROVE NestInv'
  <2>1. MayOpen(h) /\ pc[h] = "free" /\ pc' = [pc EXCEPT ![h] = "detect"]
    BY <1>2, FreeWhenOpening DEF Open, GetLock
  <2>2. ASSUME NEW g \in Frames, h[1] = g[1], g[2] < h[2]
        PROVE  pc[g] = "held"
    <3>1. g = <<h[1], g[2]>> /\ g[2] \in 1..(h[2] - 1)
      BY <2>2, FramePairs
    <3> QED
      BY <2>1, <3>1 DEF MayOpen
  <2>3. ASSUME NEW f \in Frames, h[1] = f[1], h[2] < f[2]
        PROVE  pc[f] = "free"
    <3>1. f = <<h[1], f[2]>> /\ f[2] \in h[2]..MaxDepth
      BY <2>3, FramePairs
    <3> QED
      BY <2>1, <3>1 DEF MayOpen
  <2> QED
    BY <2>1, <2>2, <2>3 DEF TypeOK
<1>3. ASSUME NEW h \in Frames, Unregister(h) PROVE NestInv'
  <2>1. pc' = [pc EXCEPT ![h] = "leaving"] /\ Innermost(h) /\ pc[h] = "held"
    BY <1>3 DEF Unregister
  <2>2. ASSUME NEW f \in Frames, h[1] = f[1], h[2] < f[2]
        PROVE  pc[f] = "free"
    <3>1. f = <<h[1], f[2]>> /\ f[2] \in (h[2] + 1)..MaxDepth
      BY <2>2, FramePairs
    <3> QED
      BY <2>1, <3>1 DEF Innermost
  <2> QED
    BY <2>1, <2>2 DEF TypeOK
<1>4. ASSUME NEW h \in Frames,
             \/ EnterOrRefuse(h) \/ Refuse(h) \/ AcquireRead(h)
             \/ AcquireWrite(h) \/ Register(h) \/ Unref(h)
      PROVE  NestInv'
  <2>1. pc[h] \notin {"free", "held"} /\ \A f \in Frames \ {h} : pc'[f] = pc[f]
    BY <1>4 DEF EnterOrRefuse, Refuse, AcquireRead, AcquireWrite, Register,
       Unref, ReleaseRef, TypeOK
  <2> QED
    BY <1>1, <2>1
<1>5. ASSUME NEW h \in Frames, ReleaseRead(h) \/ ReleaseWrite(h)
      PROVE  NestInv'
  <2>1. Woken(h)
    BY <1>5, ReleaseIsWoken
  <2> QED
    BY <1>1, <2>1 DEF Woken
<1>6. CASE UNCHANGED vars
  BY <1>6 DEF vars
<1> QED
  BY <1>2, <1>3, <1>4, <1>5, <1>6 DEF Next, Step

LEMMA WaitingStep ==
  ASSUME TypeOK, FrameInv, NestInv, WaitingInv, [Next]_vars PROVE WaitingInv'
<1> USE DEF WaitingInv
<1>1. ASSUME UNCHANGED waiting,
             \A f \in Frames : Waits(f)' <=> Waits(f),
             \A f \in Frames : Waits(f) => key'[f] = key[f]
      PROVE  WaitingInv'
  BY <1>1
(* A thread that begins or ends to wait does nothing else.                 *)
<1>2. ASSUME NEW h \in Frames, pc[h] \notin {"free", "held"},
             \A f \in Frames \ {h} : pc'[f] = pc[f] /\ key'[f] = key[f],
             waiting' = [waiting EXCEPT ![h[1]] = NoKey], ~Waits(h)'
      PROVE  WaitingInv'
  <2>1. ASSUME NEW f \in Frames, f[1] = h[1] PROVE ~Waits(f)'
    BY <1>2, <2>1, OnePlace DEF Waits
  <2>2. ASSUME NEW f \in Frames, f[1] # h[1]
        PROVE  /\ Waits(f)' <=> Waits(f)
               /\ waiting'[f[1]] = waiting[f[1]] /\ key'[f] = key[f]
    BY <1>2, <2>2, FramePairs DEF Waits, TypeOK
  <2>3. waiting'[h[1]] = NoKey
    BY <1>2, FramePairs DEF TypeOK
  <2>4. \A t \in Threads \ {h[1]} : waiting'[t] = waiting[t]
    BY <1>2 DEF TypeOK
  <2> QED
    BY <2>1, <2>2, <2>3, <2>4
<1>3. ASSUME NEW h \in Frames, Open(h) PROVE WaitingInv'
  <2>1. /\ UNCHANGED waiting /\ pc[h] = "free" /\ pc'[h] = "detect"
        /\ \A f \in Frames \ {h} : pc'[f] = pc[f] /\ key'[f] = key[f]
    BY <1>3, FreeWhenOpening DEF Open, GetLock, TypeOK
  <2> QED
    BY <1>1, <2>1 DEF Waits
<1>4. ASSUME NEW h \in Frames, EnterOrRefuse(h) PROVE WaitingInv'
  <2>1. /\ pc[h] = "detect" /\ UNCHANGED key
        /\ \A f \in Frames \ {h} : pc'[f] = pc[f]
    BY <1>4 DEF EnterOrRefuse, TypeOK
  <2>2. CASE pc'[h] = "refused" /\ UNCHANGED waiting
    BY <1>1, <2>1, <2>2 DEF Waits
  <2>3. CASE pc'[h] = "enter" /\ waiting' = [waiting EXCEPT ![h[1]] = key[h]]
    <3>1. ASSUME NEW f \in Frames, f[1] = h[1], f # h PROVE ~Waits(f)'
      BY <2>1, <3>1, OnePlace DEF Waits
    <3>2. ASSUME NEW f \in Frames, f[1] # h[1]
          PROVE  /\ Waits(f)' <=> Waits(f)
                 /\ waiting'[f[1]] = waiting[f[1]]
      BY <2>1, <2>3, <3>2, FramePairs DEF Waits, TypeOK
    <3>3. Waits(h)' /\ waiting'[h[1]] = key'[h]
      BY <2>1, <2>3, FramePairs DEF Waits, TypeOK
    <3>4. \A t \in Threads \ {h[1]} : waiting'[t] = waiting[t]
      BY <2>3 DEF TypeOK
    <3> QED
      BY <2>1, <3>1, <3>2, <3>3, <3>4
  <2> QED
    BY <1>4, <2>2, <2>3 DEF EnterOrRefuse, TypeOK
<1>5. ASSUME NEW h \in Frames, Refuse(h) PROVE WaitingInv'
  <2>1. /\ UNCHANGED waiting /\ pc[h] = "refused" /\ pc'[h] = "free"
        /\ \A f \in Frames \ {h} : pc'[f] = pc[f] /\ key'[f] = key[f]
    BY <1>5 DEF Refuse, ReleaseRef, TypeOK
  <2> QED
    BY <1>1, <2>1 DEF Waits
<1>6. ASSUME NEW h \in Frames, AcquireRead(h) \/ AcquireWrite(h) PROVE WaitingInv'
  <2>1. /\ UNCHANGED <<waiting, key>> /\ Waits(h) /\ Waits(h)'
        /\ \A f \in Frames \ {h} : pc'[f] = pc[f]
    BY <1>6 DEF AcquireRead, AcquireWrite, Waits, TypeOK
  <2> QED
    BY <1>1, <2>1 DEF Waits
<1>7. ASSUME NEW h \in Frames, Register(h) PROVE WaitingInv'
  <2>1. /\ pc[h] = "granted" /\ ~Waits(h)' /\ UNCHANGED key
        /\ waiting' = [waiting EXCEPT ![h[1]] = NoKey]
        /\ \A f \in Frames \ {h} : pc'[f] = pc[f]
    BY <1>7 DEF Register, Waits, TypeOK
  <2> QED
    BY <1>2, <2>1
<1>8. ASSUME NEW h \in Frames, Unregister(h) PROVE WaitingInv'
  <2>1. /\ UNCHANGED <<waiting, key>> /\ pc[h] = "held" /\ pc'[h] = "leaving"
        /\ \A f \in Frames \ {h} : pc'[f] = pc[f]
    BY <1>8 DEF Unregister, TypeOK
  <2> QED
    BY <1>1, <2>1 DEF Waits
<1>9. ASSUME NEW h \in Frames, ReleaseRead(h) \/ ReleaseWrite(h)
      PROVE  WaitingInv'
  <2>1. Woken(h)
    BY <1>9, ReleaseIsWoken
  <2> QED
    BY <1>1, <2>1 DEF Woken, Waits
<1>10. ASSUME NEW h \in Frames, Unref(h) PROVE WaitingInv'
  <2>1. /\ pc[h] = "unref" /\ ~Waits(h)'
        /\ waiting' = [waiting EXCEPT ![h[1]] = NoKey]
        /\ \A f \in Frames \ {h} : pc'[f] = pc[f] /\ key'[f] = key[f]
    BY <1>10 DEF Unref, ReleaseRef, Waits, TypeOK
  <2> QED
    BY <1>2, <2>1
<1>11. CASE UNCHANGED vars
  BY <1>11 DEF vars, Waits
<1> QED
  BY <1>3, <1>4, <1>5, <1>6, <1>7, <1>8, <1>9, <1>10, <1>11 DEF Next, Step

-----------------------------------------------------------------------------
(* _detect_cycle                                                           *)

(* The walk starts at the target and follows every edge but its thread's.  *)
LEMMA WalkFollows ==
  ASSUME TypeOK, NEW t \in Threads, NEW k \in Keys
  PROVE  /\ k \in Visited(t, k) /\ Visited(t, k) \subseteq Keys
         /\ \A l \in Visited(t, k), o \in Threads \ {t} :
              Owns(o, l) /\ waiting[o] # NoKey => waiting[o] \in Visited(t, k)
<1>1. ASSUME NEW l \in Visited(t, k), NEW o \in Threads \ {t},
             Owns(o, l), waiting[o] # NoKey
      PROVE  waiting[o] \in Visited(t, k)
  <2>1. waiting[o] \in Keys
    BY <1>1 DEF TypeOK
  <2> QED
    BY <1>1, <2>1 DEF Visited
<1> QED
  BY <1>1 DEF Visited

(* What the walk does not raise closes no cycle: if it did, the threads of *)
(* the cycle that own what the walk visits would wait for each other       *)
(* already.                                                                *)
LEMMA EnterKeepsAcyclic ==
  ASSUME TypeOK, Acyclic, NEW t \in Threads, NEW k \in Keys,
         \A l \in Visited(t, k) : ~Owns(t, l),
         waiting' = [waiting EXCEPT ![t] = k], UNCHANGED allocations
  PROVE  Acyclic'
<1> SUFFICES ASSUME NEW D \in SUBSET Threads, D # {},
                    \A u \in D : \E o \in D : WaitsFor(u, o)'
             PROVE  FALSE
  BY DEF Acyclic
<1>1. /\ waiting'[t] = k /\ k # NoKey
      /\ \A u \in Threads \ {t} : waiting'[u] = waiting[u]
  BY NoneAssumption DEF TypeOK
<1>2. \A o \in Threads, l \in Keys : Owns(o, l)' <=> Owns(o, l)
  BY DEF Owns
<1>3. t \in D
  <2>1. PICK u \in D : \A o \in D : ~WaitsFor(u, o)
    BY DEF Acyclic
  <2>2. CASE u # t
    BY <1>1, <2>1, <2>2 DEF WaitsFor, Owns
  <2> QED
    BY <2>1, <2>2
<1> DEFINE W == {o \in D \ {t} : \E l \in Visited(t, k) : Owns(o, l)}
<1>4. W # {}
  <2>1. PICK o \in D : WaitsFor(t, o)'
    BY <1>3
  <2>2. Owns(o, k)
    BY <1>1, <1>2, <2>1 DEF WaitsFor
  <2>3. o # t
    BY <2>2, WalkFollows
  <2> QED
    BY <2>2, <2>3, WalkFollows
<1>5. ASSUME NEW u \in W PROVE \E o \in W : WaitsFor(u, o)
  <2>1. PICK l \in Visited(t, k) : Owns(u, l)
    BY <1>5
  <2>2. PICK o \in D : WaitsFor(u, o)'
    BY <1>5
  <2>3. waiting[u] # NoKey /\ Owns(o, waiting[u])
    BY <1>1, <2>2 DEF WaitsFor, Owns
  <2>4. waiting[u] \in Visited(t, k)
    BY <2>1, <2>3, WalkFollows
  <2>5. o # t
    BY <2>3, <2>4
  <2> QED
    BY <2>3, <2>4, <2>5 DEF WaitsFor
<1>6. W \in SUBSET Threads
  OBVIOUS
<1> QED
  BY <1>4, <1>5, <1>6 DEF Acyclic

(* Fewer edges, or new ones to a thread that does not wait, close no cycle *)
LEMMA OtherKeepsAcyclic ==
  ASSUME Acyclic, NEW t \in Threads,
         \A u \in Threads : waiting'[u] # NoKey => waiting'[u] = waiting[u],
         \A u \in Threads, l \in Keys :
           Owns(u, l)' => Owns(u, l) \/ (u = t /\ waiting'[t] = NoKey),
         waiting \in [Threads -> Keys \union {NoKey}]
  PROVE  Acyclic'
<1> SUFFICES ASSUME NEW D \in SUBSET Threads, D # {},
                    \A u \in D : \E o \in D : WaitsFor(u, o)'
             PROVE  FALSE
  BY DEF Acyclic
<1>1. ASSUME NEW u \in D PROVE \E o \in D : WaitsFor(u, o)
  <2>1. PICK o \in D : WaitsFor(u, o)'
    OBVIOUS
  <2>2. waiting'[o] # NoKey
    BY DEF WaitsFor
  <2>3. waiting'[u] # NoKey /\ waiting'[u] = waiting[u]
    BY <2>1 DEF WaitsFor
  <2>4. PICK l \in Keys : l = waiting[u]
    BY <2>3
  <2>5. Owns(o, l)'
    BY <2>1, <2>3, <2>4 DEF WaitsFor, Owns
  <2> QED
    BY <2>2, <2>3, <2>4, <2>5 DEF WaitsFor
<1> QED
  BY <1>1 DEF Acyclic

LEMMA AcyclicStep ==
  ASSUME IInv, NestInv, NoSharedReentry, Acyclic, [Next]_vars
  PROVE  Acyclic'
<1> USE DEF IInv
<1>1. ASSUME UNCHANGED <<waiting, allocations>> PROVE Acyclic'
  BY <1>1 DEF Acyclic, WaitsFor, Owns
<1>2. ASSUME NEW f \in Frames, EnterOrRefuse(f) PROVE Acyclic'
  <2> DEFINE t == f[1]
             k == key[f]
  <2>1. t \in Threads /\ k \in Keys /\ pc[f] = "detect"
    BY <1>2, FramePairs DEF EnterOrRefuse, FrameInv, TypeOK
  <2>2. CASE DetectCycle(t, k, mode[f])
    BY <1>1, <1>2, <2>2 DEF EnterOrRefuse
  <2>3. CASE ~DetectCycle(t, k, mode[f])
    <3>1. ASSUME mode[f] # "write" PROVE ~Owns(t, k)
      <4> SUFFICES ASSUME NEW g \in Frames, g[1] = t, pc[g] = "held", key[g] = k
                   PROVE  FALSE
        BY <2>1, OwnsHeld
      <4>1. g[2] < f[2]
        BY <2>1, FramePairs DEF NestInv
      <4>2. key[f] # NoKey
        BY <2>1, NoneAssumption
      <4> QED
        BY <3>1, <4>1, <4>2 DEF NoSharedReentry
    <3>2. \A l \in Visited(t, k) : ~Owns(t, l)
      BY <2>3, <3>1 DEF DetectCycle
    <3>3. waiting' = [waiting EXCEPT ![t] = k] /\ UNCHANGED allocations
      BY <1>2, <2>3 DEF EnterOrRefuse
    <3> QED
      BY <2>1, <3>2, <3>3, EnterKeepsAcyclic
  <2> QED
    BY <2>2, <2>3
<1>3. ASSUME NEW f \in Frames, Register(f) PROVE Acyclic'
  <2>1. f[1] \in Threads /\ waiting' = [waiting EXCEPT ![f[1]] = NoKey]
        /\ allocations' = [allocations EXCEPT ![key[f]][f[1]] = @ + 1]
    BY <1>3, FramePairs DEF Register
  <2>2. \A u \in Threads, l \in Keys :
          Owns(u, l)' => Owns(u, l) \/ (u = f[1] /\ waiting'[f[1]] = NoKey)
    BY <2>1 DEF Owns, TypeOK
  <2> QED
    BY <2>1, <2>2, OtherKeepsAcyclic DEF TypeOK
<1>4. ASSUME NEW f \in Frames, Unregister(f) PROVE Acyclic'
  <2>1. f[1] \in Threads /\ UNCHANGED waiting
        /\ allocations' = [allocations EXCEPT ![key[f]][f[1]] = @ - 1]
    BY <1>4, FramePairs DEF Unregister
  <2>2. \A u \in Threads, l \in Keys : Owns(u, l)' => Owns(u, l)
    BY <2>1 DEF Owns, TypeOK
  <2> QED
    BY <2>1, <2>2, OtherKeepsAcyclic DEF TypeOK
<1>5. ASSUME NEW f \in Frames, Unref(f) PROVE Acyclic'
  <2>1. f[1] \in Threads /\ waiting' = [waiting EXCEPT ![f[1]] = NoKey]
        /\ UNCHANGED allocations
    BY <1>5, FramePairs DEF Unref, ReleaseRef
  <2>2. \A u \in Threads, l \in Keys : Owns(u, l)' => Owns(u, l)
    BY <2>1 DEF Owns
  <2> QED
    BY <2>1, <2>2, OtherKeepsAcyclic DEF TypeOK
<1>6. ASSUME NEW f \in Frames,
             \/ Open(f) \/ Refuse(f) \/ AcquireRead(f) \/ AcquireWrite(f)
             \/ ReleaseRead(f) \/ ReleaseWrite(f)
      PROVE  Acyclic'
  BY <1>1, <1>6 DEF Open, GetLock, Refuse, ReleaseRef, AcquireRead,
     AcquireWrite, ReleaseRead, ReleaseWrite
<1>7. CASE UNCHANGED vars
  BY <1>1, <1>7 DEF vars
<1> QED
  BY <1>2, <1>3, <1>4, <1>5, <1>6, <1>7 DEF Next, Step

(* Threads asleep for one another would wait for each other in what        *)
(* _detect_cycle sees: their blocks other than the sleeping ones are held, *)
(* and who sleeps for a writer that waits, waits for who holds its key.    *)
LEMMA NoneStuck ==
  ASSUME IInv, NestInv, WaitingInv, Acyclic
  PROVE  NoDeadlock
<1> USE DEF IInv
<1> SUFFICES ASSUME NEW D \in SUBSET Threads, D # {},
                    \A t \in D : \E f, g \in Frames :
                      f[1] = t /\ g[1] \in D /\ BlockedBy(f, g)
             PROVE  FALSE
  BY DEF NoDeadlock
(* Who is among the stuck and has the lock of f, holds it.                 *)
<1>1. ASSUME NEW f \in Frames, pc[f] = "asleep",
             NEW g \in Frames, g[1] \in D, Has(g), lock[g] = lock[f]
      PROVE  WaitsFor(f[1], g[1])
  <2>1. PICK s \in Frames : s[1] = g[1] /\ pc[s] = "asleep"
    BY <1>1 DEF BlockedBy
  <2>2. pc[g] = "held"
    BY <1>1, <2>1, OnePlace DEF Has
  <2>3. key[g] = key[f] /\ key[f] \in Keys
    BY <1>1, <2>2, SameKey
  <2>4. Owns(g[1], key[f])
    <3>1. \E h \in Frames : h[1] = g[1] /\ pc[h] = "held" /\ key[h] = key[f]
      BY <2>2, <2>3
    <3> QED
      BY <1>1, <2>3, <3>1, OwnsHeld
  <2>5. waiting[f[1]] = key[f] /\ key[f] # NoKey
    BY <1>1, <2>3, NoneAssumption DEF WaitingInv, Waits
  <2> QED
    BY <2>4, <2>5 DEF WaitsFor
<1>2. ASSUME NEW t \in D PROVE \E o \in D : WaitsFor(t, o)
  <2>1. PICK f \in Frames, g \in Frames :
          f[1] = t /\ g[1] \in D /\ BlockedBy(f, g)
    BY <1>2
  <2>2. CASE Has(g)
    BY <1>1, <2>1, <2>2 DEF BlockedBy
  <2>3. CASE ~Has(g)
    <3>1. mode[g] = "write" /\ pc[g] \in {"asleep", "awake"} /\ pc[f] = "asleep"
          /\ lock[g] = lock[f]
      BY <2>1, <2>3 DEF BlockedBy
    <3>2. PICK s \in Frames, h \in Frames :
            s[1] = g[1] /\ h[1] \in D /\ BlockedBy(s, h)
      BY <2>1
    <3>3. s = g
      BY <3>1, <3>2, OnePlace DEF BlockedBy
    <3>4. Has(h) /\ lock[h] = lock[f]
      BY <3>1, <3>2, <3>3 DEF BlockedBy
    <3> QED
      BY <1>1, <2>1, <3>1, <3>2, <3>4
  <2> QED
    BY <2>2, <2>3
<1> QED
  BY <1>2 DEF Acyclic

(* NoDeadlock: as long as nobody asks to share what he has, no set of      *)
(* threads is ever asleep for one another, whatever keys they nest in      *)
(* whatever order and mode: _detect_cycle refuses the last of them, though *)
(* it looks at _allocations and _waiting only, and these lag behind the    *)
(* RWLocks.                                                                *)
THEOREM DeadlockFreedom == Spec /\ []NoSharedReentry => []NoDeadlock
<1> DEFINE J == NestInv /\ WaitingInv /\ Acyclic
<1>1. Init => J
  BY DEF Init, NestInv, WaitingInv, Waits, Acyclic, WaitsFor
<1>2. IInv /\ NoSharedReentry /\ J /\ [Next]_vars => J'
  BY NestStep, WaitingStep, AcyclicStep DEF IInv
<1>3. IInv /\ J => NoDeadlock
  BY NoneStuck
<1> QED
  BY <1>1, <1>2, <1>3, Inductive, PTL DEF Spec

-----------------------------------------------------------------------------
(* Exclusive locks only, as all of the program takes them (exclusive_lock  *)
(* in ChunkManager, FuseOps and StatsVFS)                                  *)
Exclusive == \A t \in Threads : Modes[t] \subseteq {"write"}

ModesInv == \A f \in Frames : pc[f] # "free" => mode[f] \in Modes[f[1]]

LEMMA ModesStep ==
  ASSUME TypeOK, ModesInv, [Next]_vars PROVE ModesInv'
<1> USE DEF ModesInv
<1>1. ASSUME NEW h \in Frames, Open(h) PROVE ModesInv'
  <2>1. PICK m \in Modes[h[1]] : mode' = [mode EXCEPT ![h] = m]
    BY <1>1 DEF Open, GetLock
  <2>2. pc' = [pc EXCEPT ![h] = "detect"]
    BY <1>1 DEF Open, GetLock
  <2> QED
    BY <2>1, <2>2 DEF TypeOK
<1>2. ASSUME NEW h \in Frames,
             \/ EnterOrRefuse(h) \/ AcquireRead(h) \/ AcquireWrite(h)
             \/ Register(h) \/ Unregister(h)
      PROVE  ModesInv'
  <2>1. UNCHANGED mode /\ pc[h] # "free" /\ \A f \in Frames \ {h} : pc'[f] = pc[f]
    BY <1>2 DEF EnterOrRefuse, AcquireRead, AcquireWrite, Register,
       Unregister, TypeOK
  <2> QED
    BY <2>1
<1>3. ASSUME NEW h \in Frames, Refuse(h) \/ Unref(h) PROVE ModesInv'
  <2>1. pc'[h] = "free"
        /\ \A f \in Frames \ {h} : pc'[f] = pc[f] /\ mode'[f] = mode[f]
    BY <1>3 DEF Refuse, Unref, ReleaseRef, TypeOK
  <2> QED
    BY <2>1
<1>4. ASSUME NEW h \in Frames, ReleaseRead(h) \/ ReleaseWrite(h) PROVE ModesInv'
  <2>1. Woken(h)
    BY <1>4, ReleaseIsWoken
  <2> QED
    BY <2>1 DEF Woken
<1>5. CASE UNCHANGED vars
  BY <1>5 DEF vars
<1> QED
  BY <1>1, <1>2, <1>3, <1>4, <1>5 DEF Next, Step

THEOREM ModesKept == Spec => []ModesInv
<1>1. Init => ModesInv
  BY DEF Init, ModesInv
<1>2. TypeOK /\ ModesInv /\ [Next]_vars => ModesInv'
  BY ModesStep
<1> QED
  BY <1>1, <1>2, TypeCorrect, PTL DEF Spec

LEMMA AllWrite ==
  ASSUME Exclusive, IInv, ModesInv
  PROVE  \A f \in Frames : key[f] # NoKey => mode[f] = "write"
BY FramePairs DEF Exclusive, ModesInv, IInv, FrameInv

(* NoDeadlock, as the program uses the manager: with exclusive locks only, *)
(* no set of threads is ever asleep for one another.                       *)
THEOREM ExclusiveDeadlockFreedom ==
  ASSUME Exclusive PROVE Spec => []NoDeadlock
<1>1. IInv /\ ModesInv => NoSharedReentry
  BY AllWrite DEF NoSharedReentry
<1> QED
  BY <1>1, Inductive, ModesKept, DeadlockFreedom, PTL

(* Threads of U who each want a key that one of U or t has                 *)
HeldIn(U, l) == \E g \in Frames : g[1] \in U /\ Has(g) /\ key[g] = l
AllStuck(U, t) ==
  \A u \in U : \E f \in Frames :
    f[1] = u /\ Wants(f) /\ HeldIn(U \union {t}, key[f])

(* Were the refused thread t in no deadlock on k, the keys that nobody has *)
(* who is stuck with t would hold k and be closed under the walk, which    *)
(* would then not have met t.                                              *)
LEMMA RefusalHasCause ==
  ASSUME Exclusive, IInv, NestInv, WaitingInv, ModesInv,
         NEW t \in Threads, NEW k \in Keys, NEW m, DetectCycle(t, k, m)
  PROVE  WouldDeadlock(t, k)
<1> USE DEF IInv
<1> SUFFICES ASSUME ~WouldDeadlock(t, k) PROVE FALSE
  OBVIOUS
<1> DEFINE Stuck == {u \in Threads \ {t} :
                       \E U \in SUBSET (Threads \ {t}) : u \in U /\ AllStuck(U, t)}
           R == {l \in Keys : ~HeldIn(Stuck \union {t}, l)}
<1>1. AllStuck(Stuck, t)
  <2> SUFFICES ASSUME NEW u \in Stuck
               PROVE  \E f \in Frames : f[1] = u /\ Wants(f)
                                        /\ HeldIn(Stuck \union {t}, key[f])
    BY DEF AllStuck
  <2>1. PICK U \in SUBSET (Threads \ {t}) : u \in U /\ AllStuck(U, t)
    OBVIOUS
  <2>2. U \subseteq Stuck
    BY <2>1
  <2> QED
    BY <2>1, <2>2 DEF AllStuck, HeldIn
<1>2. ~HeldIn(Stuck \union {t}, k)
  <2>1. Stuck \in SUBSET (Threads \ {t})
    OBVIOUS
  <2> HIDE DEF Stuck
  <2> QED
    BY <1>1, <2>1 DEF WouldDeadlock, AllStuck, HeldIn
<1>3. ASSUME NEW l \in R, NEW o \in Threads \ {t}, Owns(o, l),
             waiting[o] # NoKey
      PROVE  waiting[o] \in R
  <2>1. PICK g \in Frames : g[1] = o /\ pc[g] = "held" /\ key[g] = l
    BY <1>3, OwnsHeld
  <2>2. o \notin Stuck
    BY <1>3, <2>1 DEF HeldIn, Has
  <2>3. waiting[o] \in Keys
    BY <1>3 DEF TypeOK
  <2>4. PICK f \in Frames : f[1] = o /\ Waits(f)
    BY <1>3 DEF WaitingInv
  <2>5. key[f] = waiting[o]
    BY <2>4 DEF WaitingInv
  <2> SUFFICES ASSUME HeldIn(Stuck \union {t}, waiting[o]) PROVE FALSE
    BY <2>3
  <2>6. CASE Wants(f)
    <3>1. AllStuck(Stuck \union {o}, t)
      BY <1>1, <2>4, <2>5, <2>6 DEF AllStuck, HeldIn
    <3>2. Stuck \union {o} \in SUBSET (Threads \ {t})
      OBVIOUS
    <3> QED
      BY <2>2, <3>1, <3>2
  <2>7. CASE pc[f] = "granted"
    <3>1. PICK h \in Frames :
            h[1] \in Stuck \union {t} /\ Has(h) /\ key[h] = waiting[o]
      BY DEF HeldIn
    <3>2. h # f
      BY <2>2, <2>4, <3>1
    <3>3. lock[h] = lock[f] /\ mode[f] = "write"
      BY <2>3, <2>5, <2>7, <3>1, SameKey, AllWrite, NoneAssumption DEF Has
    <3> QED
      BY <2>7, <3>1, <3>2, <3>3 DEF ExclusionInv, Has
  <2> QED
    BY <2>4, <2>6, <2>7 DEF Waits, Wants
<1>4. Visited(t, k) \subseteq R
  <2>1. k \in R /\ R \in SUBSET Keys
    BY <1>2
  <2> HIDE DEF R
  <2> QED
    BY <1>3, <2>1 DEF Visited
<1>5. PICK l \in Visited(t, k) : Owns(t, l)
  BY DEF DetectCycle
<1>6. PICK g \in Frames : g[1] = t /\ pc[g] = "held" /\ key[g] = l
  BY <1>5, OwnsHeld, WalkFollows
<1>7. HeldIn(Stuck \union {t}, l)
  BY <1>6 DEF HeldIn, Has
<1> QED
  BY <1>4, <1>5, <1>7

(* RefusedForCause: with exclusive locks only, DeadlockError is raised     *)
(* only for an acquisition that would have closed a circle of threads each *)
(* of which wants what the next one has.                                   *)
THEOREM RefusalsHaveCause ==
  ASSUME Exclusive PROVE Spec => RefusedForCause
<1> DEFINE J == IInv /\ NestInv /\ WaitingInv /\ ModesInv
           Cause == \A f \in Frames : pc[f] = "detect" /\ pc'[f] = "refused"
                      => WouldDeadlock(f[1], key[f])
<1>1. J /\ [Next]_vars => Cause
  <2> SUFFICES ASSUME J, [Next]_vars, NEW f \in Frames,
                      pc[f] = "detect", pc'[f] = "refused"
               PROVE  WouldDeadlock(f[1], key[f])
    OBVIOUS
  <2> USE DEF IInv
  <2>1. ASSUME NEW h \in Frames, Open(h) \/ Step(h), ~EnterOrRefuse(h)
        PROVE  FALSE
    <3>1. CASE ReleaseRead(h) \/ ReleaseWrite(h)
      BY <3>1, ReleaseIsWoken DEF Woken
    <3>2. CASE Open(h)
      BY <3>2, FreeWhenOpening DEF Open, GetLock, TypeOK
    <3>3. CASE ~(ReleaseRead(h) \/ ReleaseWrite(h) \/ Open(h))
      BY <2>1, <3>3 DEF Step, Refuse, Unref, ReleaseRef, AcquireRead,
         AcquireWrite, Register, Unregister, TypeOK
    <3> QED
      BY <3>1, <3>2, <3>3
  <2>2. ~UNCHANGED vars
    BY DEF vars
  <2>3. PICK h \in Frames : EnterOrRefuse(h)
    BY <2>1, <2>2 DEF Next
  <2>4. h = f /\ DetectCycle(f[1], key[f], mode[f])
    BY <2>3 DEF EnterOrRefuse, TypeOK
  <2>5. f[1] \in Threads /\ key[f] \in Keys
    BY FramePairs, SameKey
  <2> QED
    BY <2>4, <2>5, RefusalHasCause
<1>2. Init => NestInv /\ WaitingInv
  BY DEF Init, NestInv, WaitingInv, Waits
<1>3. IInv /\ NestInv /\ WaitingInv /\ [Next]_vars => (NestInv /\ WaitingInv)'
  BY NestStep, WaitingStep DEF IInv
<1> QED
  BY <1>1, <1>2, <1>3, Inductive, ModesKept, PTL DEF Spec, RefusedForCause
==============================================================================
