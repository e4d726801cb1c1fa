--------------------------- MODULE StatsVFSProofs ---------------------------
(***************************************************************************)
(* Theorems about StatsVFS: what is proved of the lock manager for any use *)
(* holds of this one, for any number of concurrent reads of the file.      *)
(***************************************************************************)
EXTENDS StatsVFS, LockManagerProofs

LEMMA ThreadFrames ==
  ASSUME NEW t \in Threads, NEW i \in 1..2 PROVE <<t, i>> \in Frames
BY RequestsAssumption DEF Frames

(* A step of the file is a step of the lock manager or none.               *)
LEMMA StatsStep == [NextStats]_allVars => [Next]_vars
<1> SUFFICES ASSUME [NextStats]_allVars PROVE [Next]_vars
  OBVIOUS
<1>1. ASSUME NEW t \in Threads, Run(t) PROVE Next
  <2>1. Outer(t) \in Keys /\ Inner(t) \in Keys
    BY RequestsAssumption DEF Outer, Inner
  <2>2. CASE OpenOuter(t)
    <3>1. <<t, 1>> \in Frames
      BY RequestsAssumption DEF Frames
    <3>2. GetLock(<<t, 1>>, Outer(t), "write")
      BY <2>2 DEF OpenOuter
    <3>3. Open(<<t, 1>>)
      BY <2>1, <3>2, Zenon DEF Open
    <3> QED
      BY <3>1, <3>3 DEF Next
  <2>3. CASE OpenInner(t)
    <3>1. <<t, 2>> \in Frames
      BY RequestsAssumption DEF Frames
    <3>2. GetLock(<<t, 2>>, Inner(t), "write")
      BY <2>3 DEF OpenInner
    <3>3. Open(<<t, 2>>)
      BY <2>1, <3>2, Zenon DEF Open
    <3> QED
      BY <3>1, <3>3 DEF Next
  <2>4. CASE Work(t)
    BY <2>4, ThreadFrames DEF Work, Next
  <2> QED
    BY <1>1, <2>2, <2>3, <2>4 DEF Run
<1>2. ASSUME NEW r \in Requests, Read(r) \/ Answer(r) PROVE UNCHANGED vars
  BY <1>2 DEF Read, Answer
<1>3. CASE AllAnswered \/ UNCHANGED allVars
  BY <1>3 DEF AllAnswered, allVars
<1> QED
  BY <1>1, <1>2, <1>3 DEF NextStats

(* Every behaviour of the file, seen in the variables of the lock manager, *)
(* is one of the lock manager: its exclusion, its counters, its wake-ups.  *)
THEOREM UsesLockManager == SpecStats => Spec
<1>1. InitStats => Init
  BY DEF InitStats
<1> QED
  BY <1>1, StatsStep, PTL DEF SpecStats, Spec

(* TypeOK: no counter of a lock goes below zero, whatever the two threads  *)
(* of each read, and the DeadlockError between them, interleave to.        *)
THEOREM StatsTypeCorrect == SpecStats => []TypeOK
BY UsesLockManager, TypeCorrect, PTL

(* Both blocks of a thread are exclusive_lock.                             *)
WriteInv == \A f \in Frames : pc[f] # "free" => mode[f] = "write"

LEMMA WriteStep ==
  ASSUME TypeOK, WriteInv, [NextStats]_allVars PROVE WriteInv'
<1> USE DEF WriteInv
<1>1. ASSUME NEW h \in Frames, NEW k, GetLock(h, k, "write") PROVE WriteInv'
  BY <1>1 DEF GetLock, TypeOK
<1>2. ASSUME NEW h \in Frames,
             \/ EnterOrRefuse(h) \/ AcquireRead(h) \/ AcquireWrite(h)
             \/ Register(h) \/ Unregister(h)
      PROVE  WriteInv'
  <2>1. UNCHANGED mode /\ pc[h] # "free" /\ \A f \in Frames \ {h} : pc'[f] = pc[f]
    BY <1>2 DEF EnterOrRefuse, AcquireRead, AcquireWrite, Register,
       Unregister, TypeOK
  <2> QED
    BY <2>1
<1>3. ASSUME NEW h \in Frames, Refuse(h) \/ Unref(h) PROVE WriteInv'
  <2>1. pc'[h] = "free"
        /\ \A f \in Frames \ {h} : pc'[f] = pc[f] /\ mode'[f] = mode[f]
    BY <1>3 DEF Refuse, Unref, ReleaseRef, TypeOK
  <2> QED
    BY <2>1
<1>4. ASSUME NEW h \in Frames, ReleaseRead(h) \/ ReleaseWrite(h) PROVE WriteInv'
  BY <1>4, ReleaseIsWoken DEF Woken
<1>5. ASSUME NEW t \in Threads, Run(t) PROVE WriteInv'
  BY <1>1, <1>2, <1>3, <1>4, <1>5, ThreadFrames
  DEF Run, OpenOuter, OpenInner, Work, Step
<1>6. CASE UNCHANGED vars
  BY <1>6 DEF vars
<1>7. ASSUME NEW r \in Requests, Read(r) \/ Answer(r) PROVE UNCHANGED vars
  BY <1>7 DEF Read, Answer
<1>8. CASE AllAnswered \/ UNCHANGED allVars
  BY <1>6, <1>8 DEF AllAnswered, allVars
<1> QED
  BY <1>5, <1>6, <1>7, <1>8 DEF NextStats

(* NoDeadlock: the opposite orders of fake_A and fake_B never put threads  *)
(* to sleep for one another, however many reads provoke it at once.        *)
THEOREM ReadsNeverDeadlock == SpecStats => []NoDeadlock
<1>1. InitStats => WriteInv
  BY DEF InitStats, Init, WriteInv
<1>2. TypeOK /\ WriteInv /\ [NextStats]_allVars => WriteInv'
  BY WriteStep
<1>3. IInv /\ WriteInv => NoSharedReentry
  BY DEF IInv, FrameInv, WriteInv, NoSharedReentry
<1> QED
  BY <1>1, <1>2, <1>3, StatsTypeCorrect, UsesLockManager, Inductive,
     DeadlockFreedom, PTL DEF SpecStats

(* RefusedForCause: with no other use of the manager, each DeadlockError   *)
(* that a read provokes breaks a real circle.                              *)
THEOREM ReadsRefusedForCause ==
  ASSUME Exclusive PROVE SpecStats => RefusedForCause
BY UsesLockManager, RefusalsHaveCause, PTL
=============================================================================
