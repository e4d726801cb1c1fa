------------------------------ MODULE StatsVFS ------------------------------
(***************************************************************************)
(* The virtual file /stats/trigger_deadlock                                *)
(* (src/fuse/virtual_files/stats_vfs.py): a read at offset 0 starts two    *)
(* threads that take the locks fake_A and fake_B in opposite orders, waits *)
(* for both and then answers.  FUSE serves several reads at a time.        *)
(***************************************************************************)
EXTENDS LockManager

CONSTANTS
  Requests,  \* the reads of the file
  A, B       \* the keys fake_A and fake_B

ASSUME RequestsAssumption ==
  /\ Threads = Requests \X {1, 2}
  /\ A \in Keys /\ B \in Keys /\ MaxDepth = 2

VARIABLES
  request,   \* request[r]: idle, joining (th1.join(), th2.join()), answered
  progress   \* progress[t]: the last block t opened: none, outer, inner

allVars == <<vars, request, progress>>

(* t1 nests B in A, t2 nests A in B                                        *)
Outer(t) == IF t[2] = 1 THEN A ELSE B
Inner(t) == IF t[2] = 1 THEN B ELSE A

InitStats ==
  /\ Init
  /\ request = [r \in Requests |-> "idle"]
  /\ progress = [t \in Threads |-> "none"]

Read(r) ==
  /\ request[r] = "idle"
  /\ request' = [request EXCEPT ![r] = "joining"]
  /\ UNCHANGED <<vars, progress>>

OpenOuter(t) ==
  /\ request[t[1]] = "joining" /\ progress[t] = "none"
  /\ GetLock(<<t, 1>>, Outer(t), "write")
  /\ progress' = [progress EXCEPT ![t] = "outer"]
  /\ UNCHANGED request

OpenInner(t) ==
  /\ progress[t] = "outer"
  /\ GetLock(<<t, 2>>, Inner(t), "write")
  /\ progress' = [progress EXCEPT ![t] = "inner"]
  /\ UNCHANGED request

(* The outer body ends only after the inner block, or its refusal.         *)
Work(t) ==
  /\ \E i \in 1..2 :
       /\ Step(<<t, i>>)
       /\ pc[<<t, i>>] = "held" /\ i = 1 => progress[t] = "inner"
  /\ UNCHANGED <<request, progress>>

Joined(t) == progress[t] = "inner" /\ pc[<<t, 1>>] = "free"

Answer(r) ==
  /\ request[r] = "joining"
  /\ \A i \in 1..2 : Joined(<<r, i>>)
  /\ request' = [request EXCEPT ![r] = "answered"]
  /\ UNCHANGED <<vars, progress>>

Run(t) == OpenOuter(t) \/ OpenInner(t) \/ Work(t)

AllAnswered ==
  /\ \A r \in Requests : request[r] = "answered"
  /\ UNCHANGED allVars

NextStats ==
  \/ \E r \in Requests : Read(r) \/ Answer(r)
  \/ \E t \in Threads : Run(t)
  \/ AllAnswered

SpecStats ==
  /\ InitStats /\ [][NextStats]_allVars
  /\ \A t \in Threads : WF_allVars(Run(t))
  /\ \A r \in Requests : WF_allVars(Answer(r))

(* Every read of trigger_deadlock is answered, however many run at once:   *)
(* the deadlocks it provokes are all broken by DeadlockError, and no       *)
(* thread is left asleep.                                                  *)
EveryReadAnswered ==
  \A r \in Requests : request[r] = "joining" ~> request[r] = "answered"
==============================================================================
