----------------------------- MODULE LockManager -----------------------------
(***************************************************************************)
(* src/infrastructure/concurrency/lock_manager.py: named reader-writer     *)
(* locks, created on first use, dropped when the last user is done, with a *)
(* wait-for check that refuses (DeadlockError) an acquisition that would   *)
(* close a cycle.                                                          *)
(*                                                                         *)
(* A frame <<t, i>> is the i-th nested `with` block of thread t.  Every    *)
(* critical section of the two kinds of internal locks (_global_lock, and  *)
(* the condition of one RWLock) is one step of a frame; between two of     *)
(* them any other thread may run.                                          *)
(***************************************************************************)
EXTENDS Integers, FiniteSets

CONSTANTS
  Threads,    \* the threads that use the manager
  Keys,       \* the names of the locks
  Locks,      \* the RWLock objects the allocator can hand out
  MaxDepth,   \* how deep a thread nests its `with` blocks
  Modes,      \* Modes[t]: the kinds of block t uses, of {"read", "write"}
  NoKey, NoLock

ASSUME ThreadsAssumption == IsFiniteSet(Threads)
ASSUME DepthAssumption   == MaxDepth \in Nat \ {0}
ASSUME ModesAssumption   == Modes \in [Threads -> SUBSET {"read", "write"}]
ASSUME NoneAssumption    == NoKey \notin Keys /\ NoLock \notin Locks

VARIABLES
  pc,           \* pc[f]: where the block is
  key, mode,    \* its arguments
  lock,         \* lock[f]: the local variable `lock`, the object it was given
  locks, refs,  \* _locks, _refs
  rw,           \* rw[o]: the counters of the RWLock object o
  allocations,  \* _allocations[k][t]; an absent entry is 0
  waiting       \* _waiting[t]

vars == <<pc, key, mode, lock, locks, refs, rw, allocations, waiting>>

Frames == Threads \X (1..MaxDepth)

(* free: no block; detect, refused: around _detect_cycle; enter, asleep,   *)
(* awake: before, in, after Condition.wait; granted: acquired but not yet  *)
(* in _allocations; held: the body runs; leaving: no longer in             *)
(* _allocations; unref: released, the reference still counted.             *)
Places == {"free", "detect", "refused", "enter", "asleep", "awake",
           "granted", "held", "leaving", "unref"}

Has(f) == pc[f] \in {"granted", "held", "leaving"}
Wants(f) == pc[f] \in {"enter", "asleep", "awake"}

NewRWLock == [readers |-> 0, writers |-> 0, requests |-> 0]

Init ==
  /\ pc = [f \in Frames |-> "free"]
  /\ key = [f \in Frames |-> NoKey]
  /\ mode = [f \in Frames |-> "read"]
  /\ lock = [f \in Frames |-> NoLock]
  /\ locks = [k \in Keys |-> NoLock]
  /\ refs = [k \in Keys |-> 0]
  /\ rw = [o \in Locks |-> NewRWLock]
  /\ allocations = [k \in Keys |-> [t \in Threads |-> 0]]
  /\ waiting = [t \in Threads |-> NoKey]

-----------------------------------------------------------------------------
(* Nesting: a thread opens a block inside the bodies of its outer ones and *)
(* closes the innermost one first.                                         *)

Innermost(f) == \A j \in (f[2] + 1)..MaxDepth : pc[<<f[1], j>>] = "free"
MayOpen(f) ==
  /\ \A j \in 1..(f[2] - 1) : pc[<<f[1], j>>] = "held"
  /\ \A j \in f[2]..MaxDepth : pc[<<f[1], j>>] = "free"

(* _get_lock.  A new object is one that nothing refers to.                 *)
Unreferenced(o) ==
  /\ \A k \in Keys : locks[k] # o
  /\ \A f \in Frames : lock[f] # o

GetLock(f, k, m) ==
  /\ MayOpen(f)
  /\ m \in Modes[f[1]]
  /\ \/ /\ locks[k] # NoLock
        /\ lock' = [lock EXCEPT ![f] = locks[k]]
        /\ UNCHANGED <<locks, rw>>
     \/ /\ locks[k] = NoLock
        /\ \E o \in Locks :
             /\ Unreferenced(o)
             /\ locks' = [locks EXCEPT ![k] = o]
             /\ lock' = [lock EXCEPT ![f] = o]
             /\ rw' = [rw EXCEPT ![o] = NewRWLock]
  /\ refs' = [refs EXCEPT ![k] = @ + 1]
  /\ key' = [key EXCEPT ![f] = k]
  /\ mode' = [mode EXCEPT ![f] = m]
  /\ pc' = [pc EXCEPT ![f] = "detect"]
  /\ UNCHANGED <<allocations, waiting>>

(* _release_ref, and the end of the block                                  *)
DroppedEarly(k) == refs[k] - 1 <= 1
DroppedNever(k) == FALSE
Dropped(k) == refs[k] - 1 <= 0

ReleaseRef(f) ==
  /\ refs' = [refs EXCEPT ![key[f]] = @ - 1]
  /\ locks' = IF Dropped(key[f]) THEN [locks EXCEPT ![key[f]] = NoLock]
                                 ELSE locks
  /\ key' = [key EXCEPT ![f] = NoKey]
  /\ mode' = [mode EXCEPT ![f] = "read"]
  /\ lock' = [lock EXCEPT ![f] = NoLock]
  /\ pc' = [pc EXCEPT ![f] = "free"]
  /\ UNCHANGED <<rw, allocations>>

-----------------------------------------------------------------------------
(* _detect_cycle.  The walk visits the least set of keys that holds the    *)
(* target and, with a key, what each of its owners but t waits for; it     *)
(* raises when it meets t among the owners, except that a shared request   *)
(* ignores t's own hold on the target.                                     *)

Owns(t, k) == allocations[k][t] > 0
Visited(t, k) ==
  LET Closed(R) == \A l \in R, o \in Threads \ {t} :
                     Owns(o, l) /\ waiting[o] # NoKey => waiting[o] \in R
  IN {l \in Keys : \A R \in SUBSET Keys : k \in R /\ Closed(R) => l \in R}

DetectOwnHold(t, k, m) == Owns(t, k) /\ m = "write"
DetectCycle(t, k, m) ==
  \E l \in Visited(t, k) : Owns(t, l) /\ (l # k \/ m = "write")

EnterOrRefuse(f) ==
  /\ pc[f] = "detect"
  /\ IF DetectCycle(f[1], key[f], mode[f])
       THEN /\ pc' = [pc EXCEPT ![f] = "refused"]
            /\ UNCHANGED waiting
       ELSE /\ pc' = [pc EXCEPT ![f] = "enter"]
            /\ waiting' = [waiting EXCEPT ![f[1]] = key[f]]
  /\ UNCHANGED <<key, mode, lock, locks, refs, rw, allocations>>

(* except DeadlockError: the reference is given back and the error raised  *)
Refuse(f) ==
  /\ pc[f] = "refused"
  /\ ReleaseRef(f)
  /\ UNCHANGED waiting

-----------------------------------------------------------------------------
(* RWLock                                                                  *)

ReadBlocked(o) == rw[o].writers > 0 \/ rw[o].requests > 0
WriteBlockedByWriters(o) == rw[o].writers > 0
WriteBlocked(o) == rw[o].readers > 0 \/ rw[o].writers > 0

AcquireRead(f) ==
  /\ pc[f] \in {"enter", "awake"} /\ mode[f] = "read"
  /\ IF ReadBlocked(lock[f])
       THEN /\ pc' = [pc EXCEPT ![f] = "asleep"]
            /\ UNCHANGED rw
       ELSE /\ pc' = [pc EXCEPT ![f] = "granted"]
            /\ rw' = [rw EXCEPT ![lock[f]].readers = @ + 1]
  /\ UNCHANGED <<key, mode, lock, locks, refs, allocations, waiting>>

(* Whether the writer's own request is already in the count: it is while   *)
(* it waits, and an uncontended writer adds and takes it in one step.      *)
AskedAlways(f) == 1
Asked(f) == IF pc[f] = "enter" THEN 0 ELSE 1

AcquireWrite(f) ==
  /\ pc[f] \in {"enter", "awake"} /\ mode[f] = "write"
  /\ IF WriteBlocked(lock[f])
       THEN /\ pc' = [pc EXCEPT ![f] = "asleep"]
            /\ rw' = [rw EXCEPT ![lock[f]].requests = @ + 1 - Asked(f)]
       ELSE /\ pc' = [pc EXCEPT ![f] = "granted"]
            /\ LET o == lock[f]
               IN rw' = [rw EXCEPT ![o] = [rw[o] EXCEPT !.writers = @ + 1,
                                             !.requests = @ - Asked(f)]]
  /\ UNCHANGED <<key, mode, lock, locks, refs, allocations, waiting>>

NotifyOne(o) ==
  LET asleep == {f \in Frames : pc[f] = "asleep" /\ lock[f] = o}
      first == CHOOSE f \in asleep : TRUE
  IN IF asleep = {} THEN pc ELSE [pc EXCEPT ![first] = "awake"]
NotifyAll(o) ==
  [f \in Frames |-> IF pc[f] = "asleep" /\ lock[f] = o THEN "awake" ELSE pc[f]]

(* The lock is not known to _detect_cycle as held before this step ...     *)
RegisterStillWaiting(f) ==
  /\ pc[f] = "granted"
  /\ allocations' = [allocations EXCEPT ![key[f]][f[1]] = @ + 1]
  /\ pc' = [pc EXCEPT ![f] = "held"]
  /\ UNCHANGED <<key, mode, lock, locks, refs, rw, waiting>>
Register(f) ==
  /\ pc[f] = "granted"
  /\ waiting' = [waiting EXCEPT ![f[1]] = NoKey]
  /\ allocations' = [allocations EXCEPT ![key[f]][f[1]] = @ + 1]
  /\ pc' = [pc EXCEPT ![f] = "held"]
  /\ UNCHANGED <<key, mode, lock, locks, refs, rw>>

(* ... nor after this one, though the RWLock is still taken.               *)
Unregister(f) ==
  /\ pc[f] = "held" /\ Innermost(f)
  /\ allocations' = [allocations EXCEPT ![key[f]][f[1]] = @ - 1]
  /\ pc' = [pc EXCEPT ![f] = "leaving"]
  /\ UNCHANGED <<key, mode, lock, locks, refs, rw, waiting>>

ReleaseRead(f) ==
  /\ pc[f] = "leaving" /\ mode[f] = "read"
  /\ rw' = [rw EXCEPT ![lock[f]].readers = @ - 1]
  /\ pc' = [(IF rw'[lock[f]].readers = 0 THEN NotifyAll(lock[f]) ELSE pc)
              EXCEPT ![f] = "unref"]
  /\ UNCHANGED <<key, mode, lock, locks, refs, allocations, waiting>>

ReleaseWrite(f) ==
  /\ pc[f] = "leaving" /\ mode[f] = "write"
  /\ rw' = [rw EXCEPT ![lock[f]].writers = @ - 1]
  /\ pc' = [NotifyAll(lock[f]) EXCEPT ![f] = "unref"]
  /\ UNCHANGED <<key, mode, lock, locks, refs, allocations, waiting>>

Unref(f) ==
  /\ pc[f] = "unref"
  /\ waiting' = [waiting EXCEPT ![f[1]] = NoKey]
  /\ ReleaseRef(f)

-----------------------------------------------------------------------------
Open(f) == \E k \in Keys, m \in {"read", "write"} : GetLock(f, k, m)

Step(f) ==
  \/ EnterOrRefuse(f) \/ Refuse(f)
  \/ AcquireRead(f) \/ AcquireWrite(f)
  \/ Register(f) \/ Unregister(f)
  \/ ReleaseRead(f) \/ ReleaseWrite(f)
  \/ Unref(f)

Next == \E f \in Frames : Open(f) \/ Step(f)

Spec == Init /\ [][Next]_vars

-----------------------------------------------------------------------------
(* Properties                                                              *)

(* Every variable keeps its type; no counter of an RWLock, no reference    *)
(* count and no allocation ever goes below zero.                           *)
TypeOK ==
  /\ pc \in [Frames -> Places]
  /\ key \in [Frames -> Keys \union {NoKey}]
  /\ mode \in [Frames -> {"read", "write"}]
  /\ lock \in [Frames -> Locks \union {NoLock}]
  /\ locks \in [Keys -> Locks \union {NoLock}]
  /\ refs \in [Keys -> Nat]
  /\ rw \in [Locks -> [readers : Nat, writers : Nat, requests : Nat]]
  /\ allocations \in [Keys -> [Threads -> Nat]]
  /\ waiting \in [Threads -> Keys \union {NoKey}]

(* Two blocks on one key run together only if both are shared, also when   *)
(* the RWLock object of the key was dropped and made anew in between.      *)
MutualExclusion ==
  \A f, g \in Frames :
    f # g /\ Has(f) /\ Has(g) /\ key[f] = key[g]
      => mode[f] = "read" /\ mode[g] = "read"

(* A block works on the object that _locks has for its key, and _locks has *)
(* no object for a key that no block uses: nothing is dropped in use, and  *)
(* nothing leaks (_release_ref).                                           *)
LocksInUse ==
  /\ \A f \in Frames : pc[f] # "free" => lock[f] = locks[key[f]]
  /\ \A k \in Keys : locks[k] # NoLock => \E f \in Frames : key[f] = k

(* A thread asleep in Condition.wait has someone who will wake it: a block *)
(* that has the lock, or, for a reader, a writer that is about to take it. *)
NoLostWakeup ==
  \A f \in Frames : pc[f] = "asleep" =>
    \E g \in Frames \ {f} :
      /\ lock[g] = lock[f]
      /\ Has(g) \/ (mode[f] = "read" /\ mode[g] = "write" /\ pc[g] = "awake")

(* f sleeps until g moves: g has the lock, or g asked to write before f,   *)
(* which only wants to read, can.                                          *)
BlockedBy(f, g) ==
  /\ f # g /\ pc[f] = "asleep" /\ lock[g] = lock[f]
  /\ Has(g) \/ ( /\ mode[f] = "read" /\ mode[g] = "write"
                 /\ pc[g] \in {"asleep", "awake"} )

(* No set of threads whose members all sleep for one another: what         *)
(* _detect_cycle is there to prevent.                                      *)
NoDeadlock ==
  \A D \in SUBSET Threads : D # {} =>
    \E t \in D : \A f, g \in Frames :
      f[1] = t /\ g[1] \in D => ~BlockedBy(f, g)

(* If t slept for k, then it and the threads D would all be stuck.         *)
WouldDeadlock(t, k) ==
  LET HasIn(S, l) == \E g \in Frames : g[1] \in S /\ Has(g) /\ key[g] = l
  IN \E D \in SUBSET (Threads \ {t}) :
       /\ HasIn(D \union {t}, k)
       /\ \A u \in D : \E f \in Frames :
            f[1] = u /\ Wants(f) /\ HasIn(D \union {t}, key[f])

(* DeadlockError is raised only in the face of a real deadlock, never for  *)
(* an acquisition that could have waited its turn.                         *)
RefusedForCause ==
  [][\A f \in Frames : pc[f] = "detect" /\ pc'[f] = "refused"
       => WouldDeadlock(f[1], key[f])]_vars

(* The manager implements one reader-writer mutex per key.                 *)
HeldBy(m) == [k \in Keys |->
                {f \in Frames : Has(f) /\ key[f] = k /\ mode[f] = m}]
Mutex == INSTANCE RWMutex WITH Holders <- Frames,
           sharedBy <- HeldBy("read"), exclusiveBy <- HeldBy("write")
ImplementsMutex == Mutex!Spec
==============================================================================
