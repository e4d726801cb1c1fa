------------------------ MODULE UploadManagerProofs ------------------------
(***************************************************************************)
(* Theorems about UploadManager, for any existing files, any number of     *)
(* FUSE threads, workers, handles, retries and crashes.                    *)
(*                                                                         *)
(* The invariant is the types, with what recovery and the restart rely on. *)
(***************************************************************************)
EXTENDS UploadManager, FiniteSetTheorems, SequenceTheorems, TLAPS

Jobs == [status : {"none", "pending", "failed"}, second : 0..MaxTime,
         retries : Nat, kind : {"create", "update"}]
Entries == [id : Ids, kind : {"create", "update"},
            version : 0..MaxVersions, content : Contents]
WorkerStates ==
  [at : {"idle", "check", "read", "send", "remove", "pop", "drop", "fail", "fatal"},
   id : Ids, second : 0..MaxTime, kind : {"create", "update"}, data : Contents,
   attempt : 1..Attempts]
WriterStates ==
  [at : {"idle", "open", "enqueue", "move", "record", "submit", "recover"},
   id : Ids, second : 0..MaxTime, entry : Entries]

(* The conjuncts of TypeOK, by what the steps change                       *)
QueueType == queue \in [Ids -> Jobs] /\ queueFile \in [Ids -> Jobs]
DiskType ==
  /\ uploads \in [Ids -> [0..MaxTime -> Contents \union {Absent}]]
  /\ journal \subseteq Entries
LockType == lockedBy \in Writers \union Workers \union {Nobody}
PoolType == tasks \in Seq(Ids) /\ timers \in [Ids -> Nat]
WorkerType == worker \in [Workers -> WorkerStates]
WriterType == writer \in [Writers -> WriterStates]
WorldType ==
  /\ now \in 0..MaxTime
  /\ drive \in [Existing -> Contents] /\ copies \in [Contents -> Nat]
ProcessType ==
  /\ live \subseteq New /\ quota \in BOOLEAN
  /\ up \in {"down", "booting", "serving"} /\ crashes \in 0..MaxCrashes
HistoryType ==
  /\ versions \in 0..MaxVersions /\ released \subseteq Versions
  /\ latest \in [Ids -> 0..MaxVersions]

(* TypeOK is these nine.                                                   *)
LEMMA TypeParts ==
  TypeOK <=> /\ QueueType /\ DiskType /\ LockType /\ PoolType /\ WorkerType
             /\ WriterType /\ WorldType /\ ProcessType /\ HistoryType
BY DEF TypeOK, QueueType, DiskType, LockType, PoolType, WorkerType, WriterType,
   WorldType, ProcessType, HistoryType, Jobs, Entries, WorkerStates,
   WriterStates

(* A journal file that is open or waits to be recovered is a handle's;     *)
(* a dead process has no threads.                                          *)
WriterInv ==
  /\ \A entry \in journal : entry.version \in Versions
  /\ \A c \in Writers : writer[c].at = "open" => writer[c].entry.version \in Versions
  /\ up = "down" => \A c \in Writers : writer[c].at = "idle"

IInv == TypeOK /\ WriterInv
Parts ==
  /\ QueueType /\ DiskType /\ LockType /\ PoolType /\ WorkerType
  /\ WriterType /\ WorldType /\ ProcessType /\ HistoryType /\ WriterInv

-----------------------------------------------------------------------------
(* The constants                                                           *)

LEMMA IdsFinite == IsFiniteSet(Ids)
<1>1. IsFiniteSet(Versions)
  BY FS_Interval, BoundsAssumption DEF Versions
<1>2. IsFiniteSet({"local", "rec"})
  <2>1. IsFiniteSet({"local"})
    BY FS_Singleton
  <2>2. IsFiniteSet({"local"} \union {"rec"})
    BY <2>1, FS_AddElement
  <2>3. {"local", "rec"} = {"local"} \union {"rec"}
    OBVIOUS
  <2> QED
    BY <2>2
<1>3. IsFiniteSet(New)
  BY <1>1, <1>2, FS_Product DEF New
<1>4. IsFiniteSet(Existing \union New)
  BY <1>3, FS_Union, IdsAssumption
<1> QED
  BY <1>4, FS_Union, FS_Singleton DEF Ids

(* What ProcessQueue submits: each pending id, and nothing else            *)
LEMMA SetToSeqLists ==
  ASSUME NEW S, IsFiniteSet(S)
  PROVE  /\ SetToSeq(S) \in Seq(S)
         /\ \A x \in S : \E n \in 1..Len(SetToSeq(S)) : SetToSeq(S)[n] = x
<1> DEFINE n == Cardinality(S)
<1>1. n \in Nat /\ ExistsBijection(1..n, S)
  BY FS_CardinalityType
<1>2. \E f \in [1..n -> S] : IsInjective(f)
  BY <1>1 DEF ExistsBijection, Bijection, Injection
<1>3. SetToSeq(S) \in [1..n -> S] /\ IsInjective(SetToSeq(S))
  BY <1>2 DEF SetToSeq
<1>4. SetToSeq(S) \in Injection(1..n, S)
  BY <1>3 DEF Injection
<1>5. Cardinality(1..n) = n
  BY <1>1, FS_Interval
<1>6. SetToSeq(S) \in Surjection(1..n, S)
  BY <1>1, <1>4, <1>5, FS_Injection
<1>7. SetToSeq(S) \in Seq(S) /\ Len(SetToSeq(S)) = n
  BY <1>1, <1>3
<1> QED
  BY <1>6, <1>7 DEF Surjection

LEMMA ConstantTypes ==
  /\ NoJob \in Jobs /\ NoEntry \in Entries
  /\ IdleWorker \in WorkerStates /\ IdleWriter \in WriterStates
  /\ Starting \in [Writers -> WriterStates]
  /\ 0..MaxVersions \subseteq Contents /\ Empty \in Contents
  /\ Existing \subseteq Ids /\ New \subseteq Ids /\ Cut \in Ids
  /\ Versions \subseteq 0..MaxVersions
<1>1. /\ 0..MaxVersions \subseteq Contents /\ Empty \in Contents
      /\ Existing \subseteq Ids /\ New \subseteq Ids /\ Cut \in Ids
      /\ Versions \subseteq 0..MaxVersions
  BY BoundsAssumption DEF Contents, Empty, Ids, Versions
<1>2. NoJob \in Jobs /\ NoEntry \in Entries
  BY <1>1, BoundsAssumption DEF NoJob, NoEntry, Jobs, Entries
<1>3. IdleWorker \in WorkerStates /\ IdleWriter \in WriterStates
  BY <1>1, <1>2, BoundsAssumption, AttemptsAssumption
  DEF IdleWorker, IdleWriter, WorkerStates, WriterStates
<1>4. Starting \in [Writers -> WriterStates]
  <2>1. [IdleWriter EXCEPT !.at = "recover"] \in WriterStates
    BY <1>3 DEF WriterStates
  <2> QED
    BY <1>3, <2>1 DEF Starting
<1> QED
  BY <1>1, <1>2, <1>3, <1>4

-----------------------------------------------------------------------------
(* The steps.  Each lemma has one step per part of IInv that the action    *)
(* can disturb.                                                            *)

LEMMA InitParts == Init => Parts
<1> SUFFICES ASSUME Init PROVE Parts
  OBVIOUS
<1> USE ConstantTypes, BoundsAssumption DEF Init
<1>1. QueueType /\ DiskType /\ LockType /\ PoolType
  BY DEF QueueType, DiskType, LockType, PoolType
<1>2. WorkerType /\ WriterType
  BY DEF WorkerType, WriterType
<1>3. WorldType /\ ProcessType /\ HistoryType
  BY DEF WorldType, ProcessType, HistoryType
<1>4. WriterInv
  BY DEF WriterInv, Starting, IdleWriter
<1> QED
  BY <1>1, <1>2, <1>3, <1>4 DEF Parts

LEMMA OpenStep ==
  ASSUME Parts, NEW c \in Clients, NEW i \in Existing \union live, Open(c, i)
  PROVE  Parts'
<1> USE DEF Parts
<1>1. /\ versions + 1 \in Versions /\ versions + 1 \in 0..MaxVersions
  BY BoundsAssumption DEF Open, OpenHandle, HistoryType, Versions
<1>2. [id |-> i, kind |-> "update", version |-> versions + 1,
             content |-> Empty] \in Entries /\ i \in Ids /\ 0 \in 0..MaxTime
  BY <1>1, ConstantTypes, BoundsAssumption DEF ProcessType, Entries
<1>3. DiskType'
  BY <1>2 DEF Open, OpenHandle, DiskType
<1>4. WriterType'
  BY <1>2 DEF Open, OpenHandle, process, WriterType, WriterStates
<1>5. HistoryType'
  BY <1>1 DEF Open, OpenHandle, HistoryType
<1>6. WriterInv'
  BY <1>1 DEF Open, OpenHandle, process, WriterInv, WriterType
<1>7. QueueType' /\ LockType' /\ PoolType' /\ WorkerType' /\ WorldType'
      /\ ProcessType'
  BY DEF Open, OpenHandle, guarded, pool, world, process, QueueType, LockType,
     PoolType, WorkerType, WorldType, ProcessType
<1> QED
  BY <1>3, <1>4, <1>5, <1>6, <1>7

LEMMA CreateStep ==
  ASSUME Parts, NEW c \in Clients, Create(c)
  PROVE  Parts'
<1> USE DEF Parts
<1>1. /\ versions + 1 \in Versions /\ versions + 1 \in 0..MaxVersions
  BY BoundsAssumption DEF Create, OpenHandle, HistoryType, Versions
<1>2. <<"local", versions + 1>> \in New
  BY <1>1 DEF New
<1>3. [id |-> <<"local", versions + 1>>, kind |-> "create", version |-> versions + 1,
             content |-> versions + 1] \in Entries /\ 0 \in 0..MaxTime
  BY <1>1, <1>2, ConstantTypes, BoundsAssumption DEF Entries
<1>4. DiskType'
  BY <1>1, <1>3 DEF Create, OpenHandle, DiskType
<1>5. WriterType'
  BY <1>1, <1>2, <1>3, ConstantTypes
  DEF Create, OpenHandle, WriterType, WriterStates
<1>6. ProcessType'
  BY <1>2 DEF Create, ProcessType
<1>7. HistoryType'
  BY <1>1, <1>2 DEF Create, OpenHandle, HistoryType
<1>8. WriterInv'
  BY <1>1, <1>2 DEF Create, OpenHandle, WriterInv, WriterType
<1>9. QueueType' /\ LockType' /\ PoolType' /\ WorkerType' /\ WorldType'
  BY DEF Create, OpenHandle, guarded, pool, world, QueueType, LockType,
     PoolType, WorkerType, WorldType
<1> QED
  BY <1>4, <1>5, <1>6, <1>7, <1>8, <1>9

LEMMA WriteStep ==
  ASSUME Parts, NEW c \in Clients, Write(c)
  PROVE  Parts'
<1> USE DEF Parts
<1>1. c \in Writers /\ writer[c] \in WriterStates
  BY DEF Writers, WriterType
<1>2. [writer[c].entry EXCEPT !.content = writer[c].entry.version] \in Entries
  BY <1>1, ConstantTypes DEF WriterStates, Entries
<1>3. DiskType'
  BY <1>2 DEF Write, DiskType
<1>4. WriterType'
  BY <1>2 DEF Write, WriterType, WriterStates
<1>5. WriterInv'
  BY <1>1
  DEF Write, process, WriterInv, WriterType, Writers, WriterStates, Entries
<1>6. QueueType' /\ LockType' /\ PoolType' /\ WorkerType' /\ WorldType'
      /\ ProcessType' /\ HistoryType'
  BY DEF Write, guarded, pool, world, process, history, QueueType, LockType,
     PoolType, WorkerType, WorldType, ProcessType, HistoryType
<1> QED
  BY <1>3, <1>4, <1>5, <1>6

LEMMA ReleaseStep ==
  ASSUME Parts, NEW c \in Clients, Release(c)
  PROVE  Parts'
<1> USE DEF Parts
<1>1. DiskType'
  BY DEF Release, DiskType
<1>2. WriterType'
  BY ConstantTypes DEF Release, WriterType, WriterStates, Writers
<1>3. HistoryType'
  BY DEF Release, process, HistoryType, WriterInv, Writers
<1>4. WriterInv'
  BY DEF Release, guarded, process, WriterInv, WriterType, Writers,
     WriterStates, IdleWriter
<1>5. QueueType' /\ LockType' /\ PoolType' /\ WorkerType' /\ WorldType'
      /\ ProcessType'
  BY DEF Release, guarded, pool, world, process, QueueType, LockType, PoolType,
     WorkerType, WorldType, ProcessType
<1> QED
  BY <1>1, <1>2, <1>3, <1>4, <1>5

LEMMA RemoveOldStep ==
  ASSUME Parts, NEW c \in Writers, RemoveOld(c)
  PROVE  Parts'
<1> USE DEF Parts
<1>1. now' \in 0..MaxTime
  BY DEF RemoveOld, WorldType
<1>2. writer[c].id \in Ids /\ queue[writer[c].id].second \in 0..MaxTime
  BY DEF WriterType, WriterStates, QueueType, Jobs
<1>3. DiskType'
  BY <1>1 DEF RemoveOld, DiskType
<1>4. LockType'
  BY <1>1 DEF RemoveOld, LockType
<1>5. WriterType'
  BY <1>1, <1>2, ConstantTypes
  DEF RemoveOld, guarded, disk, pool, world, process, history, WriterType,
     WriterStates
<1>6. WorldType'
  BY <1>1 DEF RemoveOld, WorldType
<1>7. WriterInv'
  BY <1>1 DEF RemoveOld, process, WriterInv, WriterType
<1>8. QueueType' /\ PoolType' /\ WorkerType' /\ ProcessType' /\ HistoryType'
  BY DEF RemoveOld, pool, process, history, QueueType, PoolType, WorkerType,
     ProcessType, HistoryType
<1> QED
  BY <1>3, <1>4, <1>5, <1>6, <1>7, <1>8

LEMMA MoveNewStep ==
  ASSUME Parts, NEW c \in Writers, MoveNew(c)
  PROVE  Parts'
<1> USE DEF Parts
<1>1. writer[c].id \in Ids /\ writer[c].second \in 0..MaxTime
       /\ writer[c].entry.content \in Contents
  BY DEF WriterType, WriterStates, Entries
<1>2. DiskType'
  BY <1>1 DEF MoveNew, DiskType
<1>3. WriterType'
  BY DEF MoveNew, WriterType, WriterStates
<1>4. WriterInv'
  BY DEF MoveNew, process, WriterInv, WriterType
<1>5. QueueType' /\ LockType' /\ PoolType' /\ WorkerType' /\ WorldType'
      /\ ProcessType' /\ HistoryType'
  BY DEF MoveNew, guarded, pool, world, process, history, QueueType, LockType,
     PoolType, WorkerType, WorldType, ProcessType, HistoryType
<1> QED
  BY <1>2, <1>3, <1>4, <1>5

LEMMA RecordStep ==
  ASSUME Parts, NEW c \in Writers, Record(c)
  PROVE  Parts'
<1> USE DEF Parts
<1>1. writer[c].id \in Ids /\ writer[c].entry.version \in 0..MaxVersions
  BY DEF WriterType, WriterStates, Entries
<1>2. [status |-> "pending", second |-> writer[c].second,
         retries |-> queue[writer[c].id].retries, kind |-> writer[c].entry.kind] \in Jobs
  BY DEF WriterType, WriterStates, Entries, QueueType, Jobs
<1>3. QueueType'
  BY <1>2 DEF Record, Persist, QueueType
<1>4. LockType'
  BY <1>1 DEF Record, LockType
<1>5. WriterType'
  BY <1>1 DEF Record, WriterType, WriterStates
<1>6. HistoryType'
  BY <1>1 DEF Record, HistoryType
<1>7. WriterInv'
  BY <1>1 DEF Record, disk, process, WriterInv, WriterType
<1>8. DiskType' /\ PoolType' /\ WorkerType' /\ WorldType' /\ ProcessType'
  BY DEF Record, disk, pool, world, process, DiskType, PoolType, WorkerType,
     WorldType, ProcessType
<1> QED
  BY <1>3, <1>4, <1>5, <1>6, <1>7, <1>8

LEMMA SubmitStep ==
  ASSUME Parts, NEW c \in Writers, Submit(c)
  PROVE  Parts'
<1> USE DEF Parts
<1>1. PoolType'
  BY DEF Submit, Submitted, PoolType, WriterType, WriterStates
<1>2. WriterType'
  BY ConstantTypes DEF Submit, WriterType
<1>3. WriterInv'
  BY DEF Submit, Submitted, guarded, disk, process, WriterInv, WriterType,
     Starting, IdleWriter
<1>4. QueueType' /\ DiskType' /\ LockType' /\ WorkerType' /\ WorldType'
      /\ ProcessType' /\ HistoryType'
  BY DEF Submit, Submitted, guarded, disk, world, process, history, QueueType,
     DiskType, LockType, WorkerType, WorldType, ProcessType, HistoryType
<1> QED
  BY <1>1, <1>2, <1>3, <1>4

LEMMA StartStep ==
  ASSUME Parts, NEW w \in Workers, Start(w)
  PROVE  Parts'
<1> USE DEF Parts
<1>1. Head(tasks) \in Ids /\ Tail(tasks) \in Seq(Ids)
  BY DEF Start, PoolType
<1>2. queue[Head(tasks)] \in Jobs
  BY <1>1 DEF QueueType
<1>3. [at |-> "check", id |-> Head(tasks), data |-> Empty,
         second |-> queue[Head(tasks)].second, kind |-> queue[Head(tasks)].kind,
         attempt |-> 1] \in WorkerStates
  BY <1>1, <1>2, ConstantTypes, AttemptsAssumption DEF WorkerStates, Jobs
<1>4. PoolType'
  BY <1>2 DEF Start, PoolType
<1>5. WorkerType'
  BY <1>1, <1>3 DEF Start, WorkerType
<1>6. QueueType' /\ DiskType' /\ LockType' /\ WriterType' /\ WorldType'
      /\ ProcessType' /\ HistoryType' /\ WriterInv'
  BY DEF Start, guarded, disk, world, process, history, QueueType, DiskType,
     LockType, WriterType, WorldType, ProcessType, HistoryType, WriterInv
<1> QED
  BY <1>4, <1>5, <1>6

LEMMA CheckFileStep ==
  ASSUME Parts, NEW w \in Workers, CheckFile(w)
  PROVE  Parts'
<1> USE DEF Parts
<1>1. WorkerType'
  BY DEF CheckFile, WorkerType, WorkerStates
<1>2. QueueType' /\ DiskType' /\ LockType' /\ PoolType' /\ WriterType'
      /\ WorldType' /\ ProcessType' /\ HistoryType' /\ WriterInv'
  BY DEF CheckFile, guarded, disk, pool, world, process, history, QueueType,
     DiskType, LockType, PoolType, WriterType, WorldType, ProcessType,
     HistoryType, WriterInv
<1> QED
  BY <1>1, <1>2

LEMMA ReadFileStep ==
  ASSUME Parts, NEW w \in Workers, ReadFile(w)
  PROVE  Parts'
<1> USE DEF Parts
<1>1. LocalFile(w) \in Contents \union {Absent}
  BY DEF LocalFile, WorkerType, WorkerStates, DiskType
<1>2. WorkerType'
  BY <1>1, ConstantTypes
  DEF ReadFile, LocalFile, guarded, disk, pool, world, process, history,
     WorkerType, WorkerStates
<1>3. QueueType' /\ DiskType' /\ LockType' /\ PoolType' /\ WriterType'
      /\ WorldType' /\ ProcessType' /\ HistoryType' /\ WriterInv'
  BY DEF ReadFile, LocalFile, guarded, disk, pool, world, process, history,
     QueueType, DiskType, LockType, PoolType, WriterType, WorldType,
     ProcessType, HistoryType, WriterInv
<1> QED
  BY <1>2, <1>3

LEMMA CallEndsType ==
  ASSUME WorkerType, NEW w \in Workers, NEW at \in {"remove", "fail", "fatal"},
         CallEnds(w, at)
  PROVE  WorkerType'
<1> DEFINE ended == [[worker[w] EXCEPT !.at = at] EXCEPT !.attempt = 1]
<1>1. 1 \in 1..Attempts /\ worker[w] \in WorkerStates
  BY AttemptsAssumption DEF WorkerType
<1>2. ended \in WorkerStates
  BY <1>1 DEF WorkerStates
<1>3. worker' = [worker EXCEPT ![w] = ended]
  BY DEF CallEnds, WorkerType
<1> QED
  BY <1>2, <1>3 DEF WorkerType

(* What a request to Drive does to the worker that makes it                *)
LEMMA SendEffect ==
  ASSUME WorkerType, NEW w \in Workers, Send(w)
  PROVE  /\ worker[w].at = "send" /\ worker[w].attempt \in 1..Attempts
         /\ \A x \in Workers \ {w} : worker'[x] = worker[x]
         /\ worker'[w].id = worker[w].id /\ worker'[w].kind = worker[w].kind
         /\ worker'[w].data = worker[w].data
         /\ \/ /\ worker'[w].at \in {"remove", "fail", "fatal"}
               /\ worker'[w].attempt = 1
            \/ /\ worker'[w].at = "send" /\ worker[w].attempt < Attempts
               /\ worker'[w].attempt = worker[w].attempt + 1
BY DEF Send, SendOk, SendLate, SendError, SendQuota, CallEnds, SentAgain,
   WorkerType, WorkerStates

LEMMA SendDoneStep ==
  ASSUME Parts, NEW w \in Workers, SendOk(w) \/ SendLate(w)
  PROVE  Parts'
<1> USE DEF Parts
<1>1. WorkerType'
  <2>1. CASE SentAgain(w)
    <3>1. worker[w].attempt + 1 \in 1..Attempts
      BY <2>1, AttemptsAssumption DEF SentAgain, WorkerType, WorkerStates
    <3> QED
      BY <2>1, <3>1 DEF SentAgain, WorkerType, WorkerStates
  <2>2. CASE CallEnds(w, "remove") \/ CallEnds(w, "fail")
    BY <2>2, CallEndsType
  <2> QED
    BY <2>1, <2>2 DEF SendOk, SendLate
<1>2. WorldType'
  BY DEF SendOk, SendLate, Applied, Known, WorldType, WorkerType, WorkerStates
<1>3. QueueType' /\ DiskType' /\ LockType' /\ PoolType' /\ WriterType'
      /\ ProcessType' /\ HistoryType' /\ WriterInv'
  BY DEF SendOk, SendLate, Applied, Known, guarded, disk, pool, process,
     history, QueueType, DiskType, LockType, PoolType, WriterType, ProcessType,
     HistoryType, WriterInv
<1> QED
  BY <1>1, <1>2, <1>3

LEMMA SendErrorStep ==
  ASSUME Parts, NEW w \in Workers, SendError(w)
  PROVE  Parts'
<1> USE DEF Parts
<1>1. WorkerType'
  BY CallEndsType DEF SendError
<1>2. QueueType' /\ DiskType' /\ LockType' /\ PoolType' /\ WriterType'
      /\ WorldType' /\ ProcessType' /\ HistoryType' /\ WriterInv'
  BY DEF SendError, guarded, disk, pool, world, process, history, QueueType,
     DiskType, LockType, PoolType, WriterType, WorldType, ProcessType,
     HistoryType, WriterInv
<1> QED
  BY <1>1, <1>2

LEMMA SendQuotaStep ==
  ASSUME Parts, NEW w \in Workers, SendQuota(w)
  PROVE  Parts'
<1> USE DEF Parts
<1>1. WorkerType'
  BY CallEndsType DEF SendQuota
<1>2. ProcessType'
  BY DEF SendQuota, ProcessType
<1>3. QueueType' /\ DiskType' /\ LockType' /\ PoolType' /\ WriterType'
      /\ WorldType' /\ HistoryType' /\ WriterInv'
  BY DEF SendQuota, guarded, disk, pool, world, process, history, QueueType,
     DiskType, LockType, PoolType, WriterType, WorldType, HistoryType,
     WriterInv
<1> QED
  BY <1>1, <1>2, <1>3

LEMMA RemoveFileStep ==
  ASSUME Parts, NEW w \in Workers, RemoveFile(w)
  PROVE  Parts'
<1> USE DEF Parts
<1>1. DiskType'
  BY DEF RemoveFile, DiskType, WorkerType
<1>2. LockType'
  BY DEF RemoveFile, LockType
<1>3. WorkerType'
  BY DEF RemoveFile, WorkerType, WorkerStates
<1>4. QueueType' /\ PoolType' /\ WriterType' /\ WorldType'
      /\ ProcessType' /\ HistoryType' /\ WriterInv'
  BY DEF RemoveFile, pool, world, process, history, QueueType, PoolType,
     WriterType, WorldType, ProcessType, HistoryType, WriterInv
<1> QED
  BY <1>1, <1>2, <1>3, <1>4

LEMMA PopJobStep ==
  ASSUME Parts, NEW w \in Workers, PopJob(w)
  PROVE  Parts'
<1> USE DEF Parts
<1>1. QueueType'
  BY ConstantTypes DEF PopJob, Persist, QueueType
<1>2. LockType'
  BY DEF PopJob, LockType
<1>3. WorkerType'
  BY ConstantTypes DEF PopJob, WorkerType
<1>4. DiskType' /\ PoolType' /\ WriterType' /\ WorldType' /\ ProcessType'
      /\ HistoryType' /\ WriterInv'
  BY DEF PopJob, disk, pool, world, process, history, DiskType, PoolType,
     WriterType, WorldType, ProcessType, HistoryType, WriterInv
<1> QED
  BY <1>1, <1>2, <1>3, <1>4

LEMMA HandleFailureStep ==
  ASSUME Parts, NEW w \in Workers, HandleFailure(w)
  PROVE  Parts'
<1> USE DEF Parts
<1>1. worker[w].id \in Ids /\ queue[worker[w].id].retries + 1 \in Nat
  BY DEF WorkerType, WorkerStates, QueueType, Jobs
<1> DEFINE i == worker[w].id
             giveUp == queue[i].retries + 1 > MaxRetries \/ worker[w].at = "fatal"
             job(s) == [[queue[i] EXCEPT !.retries = queue[i].retries + 1] EXCEPT !.status = s]
<1>3. QueueType'
  <2>1. queue[i] \in Jobs
    BY <1>1 DEF QueueType
  <2>2. job("failed") \in Jobs /\ job(queue[i].status) \in Jobs
    BY <1>1, <2>1 DEF Jobs
  <2>3. CASE queue[i] = NoJob
    BY <2>3 DEF HandleFailure, QueueType
  <2>4. CASE queue[i] # NoJob /\ giveUp
    <3>1. /\ queue' = [queue EXCEPT ![i] = job("failed")]
          /\ queueFile' \in {queue', queueFile}
      BY <2>4 DEF HandleFailure, Persist
    <3> QED
      BY <2>2, <3>1 DEF QueueType
  <2>5. CASE queue[i] # NoJob /\ ~giveUp
    <3>1. queue' = [queue EXCEPT ![i] = job(queue[i].status)]
          /\ queueFile' \in {queue', queueFile}
      BY <2>5, <1>1 DEF HandleFailure, Persist, QueueType
    <3> QED
      BY <2>2, <3>1 DEF QueueType
  <2> QED
    BY <2>3, <2>4, <2>5
<1>4. PoolType'
  BY DEF HandleFailure, PoolType
<1>5. WorkerType'
  BY ConstantTypes DEF HandleFailure, WorkerType
<1>6. DiskType' /\ LockType' /\ WriterType' /\ WorldType' /\ ProcessType'
      /\ HistoryType' /\ WriterInv'
  BY DEF HandleFailure, disk, world, process, history, DiskType, LockType,
     WriterType, WorldType, ProcessType, HistoryType, WriterInv
<1> QED
  BY <1>3, <1>4, <1>5, <1>6

LEMMA RetryStep ==
  ASSUME Parts, NEW i \in Ids, Retry(i)
  PROVE  Parts'
<1> USE DEF Parts
<1>1. PoolType'
  BY DEF Retry, PoolType
<1>2. QueueType' /\ DiskType' /\ LockType' /\ WorkerType' /\ WriterType'
      /\ WorldType' /\ ProcessType' /\ HistoryType' /\ WriterInv'
  BY DEF Retry, guarded, disk, world, process, history, QueueType, DiskType,
     LockType, WorkerType, WriterType, WorldType, ProcessType, HistoryType,
     WriterInv
<1> QED
  BY <1>1, <1>2

LEMMA CrashStep ==
  ASSUME Parts, Crash
  PROVE  Parts'
<1> USE DEF Parts
<1>1. crashes + 1 \in 0..MaxCrashes
  BY BoundsAssumption DEF Crash, ProcessType
<1>2. QueueType'
  BY ConstantTypes DEF Crash, QueueType
<1>3. LockType'
  BY DEF Crash, LockType
<1>4. PoolType'
  BY DEF Crash, PoolType
<1>5. WorkerType'
  BY ConstantTypes DEF Crash, WorkerType
<1>6. WriterType'
  BY ConstantTypes DEF Crash, WriterType
<1>7. ProcessType'
  BY <1>1 DEF Crash, ProcessType
<1>8. WriterInv'
  BY DEF Crash, disk, WriterInv, IdleWriter
<1>9. DiskType' /\ WorldType' /\ HistoryType'
  BY DEF Crash, disk, world, process, history, DiskType, WorldType, HistoryType
<1> QED
  BY <1>2, <1>3, <1>4, <1>5, <1>6, <1>7, <1>8, <1>9

LEMMA LoadStep ==
  ASSUME Parts, Load
  PROVE  Parts'
<1> USE DEF Parts
<1>1. QueueType'
  BY ConstantTypes DEF Load, QueueType
<1>2. WriterType'
  BY ConstantTypes DEF Load, WriterType
<1>3. ProcessType'
  BY DEF Load, ProcessType
<1>4. WriterInv'
  BY DEF Load, disk, WriterInv, Starting, IdleWriter
<1>5. DiskType' /\ LockType' /\ PoolType' /\ WorkerType' /\ WorldType'
      /\ HistoryType'
  BY DEF Load, disk, pool, world, process, history, DiskType, LockType,
     PoolType, WorkerType, WorldType, HistoryType
<1> QED
  BY <1>1, <1>2, <1>3, <1>4, <1>5

LEMMA RecoverStep ==
  ASSUME Parts, Recover
  PROVE  Parts'
<1> USE DEF Parts
<1>1. \A entry \in journal : RecoveredId(entry) \in Ids /\ entry \in Entries
  BY DEF RecoveredId, WriterInv, DiskType, Entries, New, Ids
<1>2. 0 \in 0..MaxTime
  BY BoundsAssumption
<1>3. WriterType'
  BY <1>1, <1>2 DEF Recover, WriterType, WriterStates, Writers
<1>4. WriterInv'
  BY <1>1 DEF Recover, disk, process, WriterInv, Writers
<1>5. QueueType' /\ DiskType' /\ LockType' /\ PoolType' /\ WorkerType'
      /\ WorldType' /\ ProcessType' /\ HistoryType'
  BY DEF Recover, guarded, disk, pool, world, process, history, QueueType,
     DiskType, LockType, PoolType, WorkerType, WorldType, ProcessType,
     HistoryType
<1> QED
  BY <1>3, <1>4, <1>5

LEMMA ProcessQueueStep ==
  ASSUME Parts, ProcessQueue
  PROVE  Parts'
<1> USE DEF Parts
<1>1. SetToSeq(Pending) \in Seq(Ids)
  BY IdsFinite, FS_Subset, SetToSeqLists DEF Pending
<1>2. PoolType'
  BY <1>1 DEF ProcessQueue, PoolType
<1>3. WriterType'
  BY ConstantTypes DEF ProcessQueue, WriterType
<1>4. ProcessType'
  BY DEF ProcessQueue, ProcessType
<1>5. WriterInv'
  BY DEF ProcessQueue, guarded, disk, WriterInv, IdleWriter
<1>6. QueueType' /\ DiskType' /\ LockType' /\ WorkerType' /\ WorldType'
      /\ HistoryType'
  BY DEF ProcessQueue, guarded, disk, world, process, history, QueueType,
     DiskType, LockType, WorkerType, WorldType, HistoryType
<1> QED
  BY <1>2, <1>3, <1>4, <1>5, <1>6

(* IInv holds in every reachable state, crashes and restarts included.     *)
THEOREM Inductive == Spec => []IInv
<1>1. Parts <=> IInv
  BY TypeParts DEF Parts, IInv
<1>2. Parts /\ [Next]_vars => Parts'
  <2>1. CASE UNCHANGED vars
    BY <2>1
    DEF vars, guarded, disk, pool, world, process, history, Parts, QueueType,
       DiskType, LockType, PoolType, WorkerType, WriterType, WorldType,
       ProcessType, HistoryType, WriterInv
  <2>2. CASE Next
    BY <2>2, OpenStep, CreateStep, WriteStep, ReleaseStep, RemoveOldStep,
       MoveNewStep, RecordStep, SubmitStep, StartStep, CheckFileStep,
       ReadFileStep, SendDoneStep, SendErrorStep, SendQuotaStep,
       RemoveFileStep, PopJobStep, HandleFailureStep, RetryStep, CrashStep,
       LoadStep, RecoverStep, ProcessQueueStep
    DEF Next, Use, Enqueue, Execute, Send, Startup
  <2> QED
    BY <2>1, <2>2
<1> QED
  BY <1>1, <1>2, InitParts, PTL DEF Spec

(* TypeOK: every job, journal entry, worker and writer is of its kind, and *)
(* what the recovery makes of an id is one the queue may hold.             *)
THEOREM TypeCorrect == Spec => []TypeOK
BY Inductive, PTL DEF IInv

-----------------------------------------------------------------------------
(* Who will attend to a pending job of i                                   *)
Attended(i) ==
  \/ \E n \in 1..Len(tasks) : tasks[n] = i
  \/ timers[i] > 0
  \/ \E w \in Workers : worker[w].at # "idle" /\ worker[w].id = i
  \/ \E c \in Writers : writer[c].at = "submit" /\ writer[c].id = i

LEMMA AttendedStep ==
  ASSUME Parts, NoStrandedJob, [Next]_vars, up' = "serving", NEW i \in Pending'
  PROVE  Attended(i)'
<1> USE DEF Parts, guarded, disk, pool, world, process, history, Attended, Pending
<1>0. i \in Ids /\ queue'[i].status = "pending"
  OBVIOUS
<1>1. ASSUME up = "serving", i \in Pending PROVE Attended(i)
  BY <1>1 DEF NoStrandedJob
<1>2. ASSUME NEW c \in Clients, Use(c) PROVE Attended(i)'
  <2>1. up = "serving" /\ UNCHANGED <<queue, tasks, timers, worker>>
    BY <1>2 DEF Use, Open, OpenHandle, Create, Write, Release
  <2>2. \A d \in Writers : writer[d].at = "submit" => writer'[d] = writer[d]
    BY <1>2 DEF Use, Open, OpenHandle, Create, Write, Release, WriterType
  <2> QED
    BY <1>1, <2>1, <2>2
<1>3. ASSUME NEW c \in Writers, RemoveOld(c) \/ MoveNew(c) PROVE Attended(i)'
  <2>1. \A d \in Writers : writer[d].at = "submit" => writer'[d] = writer[d]
    BY <1>3 DEF RemoveOld, MoveNew, WriterType
  <2> QED
    BY <1>1, <1>3, <2>1 DEF RemoveOld, MoveNew
<1>4. ASSUME NEW c \in Writers, Record(c) PROVE Attended(i)'
  <2>1. CASE i = writer[c].id
    <3>1. writer'[c].at = "submit" /\ writer'[c].id = i
      BY <1>4, <2>1 DEF Record, WriterType
    <3> QED
      BY <3>1
  <2>2. CASE i # writer[c].id
    <3>1. \A d \in Writers : writer[d].at = "submit" => writer'[d] = writer[d]
      BY <1>4 DEF Record
    <3>2. i \in Pending
      BY <1>4, <2>2 DEF Record
    <3> QED
      BY <1>1, <1>4, <3>2 DEF Record
  <2> QED
    BY <2>1, <2>2
<1>5. ASSUME NEW c \in Writers, Submit(c) PROVE Attended(i)'
  <2>1. /\ \A n \in 1..Len(tasks) :
             n \in 1..Len(tasks') /\ tasks'[n] = tasks[n]
        /\ Len(tasks') \in 1..Len(tasks') /\ tasks'[Len(tasks')] = writer[c].id
    BY <1>5 DEF Submit, Submitted, WriterType
  <2>2. \A d \in Writers \ {c} : writer'[d] = writer[d]
    BY <1>5 DEF Submit
  <2> QED
    BY <1>1, <1>5, <2>1 DEF Submit
<1>6. ASSUME NEW w \in Workers, Start(w) PROVE Attended(i)'
  <2>1. CASE i = Head(tasks)
    <3>1. worker'[w].at # "idle" /\ worker'[w].id = i
      BY <1>6, <2>1 DEF Start, WorkerType
    <3> QED
      BY <3>1
  <2>2. CASE i # Head(tasks)
    <3>1. \A v \in Workers : worker[v].at # "idle" => worker'[v] = worker[v]
      BY <1>6 DEF Start
    <3>2. ASSUME NEW n \in 1..Len(tasks), tasks[n] = i
          PROVE  n - 1 \in 1..Len(tasks') /\ tasks'[n - 1] = i
      BY <1>6, <2>2, <3>2 DEF Start
    <3> QED
      BY <1>1, <1>6, <3>1, <3>2 DEF Start
  <2> QED
    BY <2>1, <2>2
<1>7. ASSUME NEW w \in Workers, CheckFile(w) \/ ReadFile(w) \/ Send(w) \/ RemoveFile(w)
      PROVE  Attended(i)'
  <2>1. /\ up = "serving" /\ UNCHANGED <<queue, tasks, timers, writer>>
        /\ \A v \in Workers : worker[v].at # "idle" =>
             worker'[v].at # "idle" /\ worker'[v].id = worker[v].id
    <3>1. CASE Send(w)
      BY <3>1, SendEffect DEF Send, SendOk, SendLate, SendError, SendQuota
    <3>2. CASE ~Send(w)
      BY <1>7, <3>2 DEF CheckFile, ReadFile, RemoveFile, WorkerType, WorkerStates
    <3> QED
      BY <3>1, <3>2
  <2> QED
    BY <1>1, <2>1
<1>8. ASSUME NEW w \in Workers, PopJob(w) PROVE Attended(i)'
  <2>1. i # worker[w].id /\ i \in Pending
    BY <1>8 DEF PopJob, QueueType, NoJob
  <2>2. \A v \in Workers \ {w} : worker'[v] = worker[v]
    BY <1>8 DEF PopJob
  <2> QED
    BY <1>1, <1>8, <2>1 DEF PopJob
<1>9. ASSUME NEW w \in Workers, HandleFailure(w) PROVE Attended(i)'
  <2>1. CASE i = worker[w].id
    <3>1. queue[i] # NoJob
      BY <1>0, <1>9, <2>1 DEF HandleFailure, NoJob
    <3>2. queue[i].retries + 1 > MaxRetries \/ worker[w].at = "fatal"
            => queue'[i].status = "failed"
      BY <1>9, <2>1, <3>1 DEF HandleFailure, QueueType, Jobs
    <3>3. timers' = [timers EXCEPT ![i] = @ + 1]
      BY <1>0, <1>9, <2>1, <3>1, <3>2 DEF HandleFailure
    <3>4. timers'[i] > 0
      BY <3>3 DEF PoolType
    <3> QED
      BY <3>4
  <2>2. CASE i # worker[w].id
    <3>1. i \in Pending /\ timers'[i] = timers[i]
      BY <1>9, <2>2 DEF HandleFailure, QueueType, PoolType
    <3>2. \A v \in Workers \ {w} : worker'[v] = worker[v]
      BY <1>9 DEF HandleFailure
    <3> QED
      BY <1>1, <1>9, <2>2, <3>1 DEF HandleFailure
  <2> QED
    BY <2>1, <2>2
<1>10. ASSUME NEW j \in Ids, Retry(j) PROVE Attended(i)'
  <2>1. /\ \A n \in 1..Len(tasks) :
             n \in 1..Len(tasks') /\ tasks'[n] = tasks[n]
        /\ Len(tasks') \in 1..Len(tasks') /\ tasks'[Len(tasks')] = j
    BY <1>10 DEF Retry
  <2>2. i # j => timers'[i] = timers[i]
    BY <1>10 DEF Retry
  <2> QED
    BY <1>1, <1>10, <2>1 DEF Retry
<1>11. CASE ProcessQueue
  <2>1. PICK n \in 1..Len(SetToSeq(Pending)) : SetToSeq(Pending)[n] = i
    BY <1>11, IdsFinite, FS_Subset, SetToSeqLists DEF ProcessQueue
  <2>2. SetToSeq(Pending) \in Seq(Ids)
    BY IdsFinite, FS_Subset, SetToSeqLists
  <2>3. /\ Len(tasks) + n \in 1..Len(tasks')
        /\ tasks'[Len(tasks) + n] = i
    BY <1>11, <2>1 DEF ProcessQueue
  <2> QED
    BY <2>3
<1>12. CASE Recover
  <2>1. \A d \in Writers : writer[d].at = "submit" => writer'[d] = writer[d]
    BY <1>12 DEF Recover
  <2> QED
    BY <1>1, <1>12 DEF Recover
<1>13. CASE Load \/ Crash
  BY <1>13 DEF Load, Crash
<1>14. CASE UNCHANGED vars
  BY <1>1, <1>14 DEF vars
<1> QED
  BY <1>2, <1>3, <1>4, <1>5, <1>6, <1>7, <1>8, <1>9, <1>10, <1>11, <1>12,
     <1>13, <1>14
  DEF Next, Enqueue, Execute, Startup

(* NoStrandedJob: a pending job has a task in the pool, a timer, a worker, *)
(* or an enqueue about to submit it, through failures, replacements and    *)
(* restarts.                                                               *)
THEOREM Attendance == Spec => []NoStrandedJob
<1>1. Init => NoStrandedJob
  BY DEF Init, NoStrandedJob
<1>2. IInv /\ NoStrandedJob /\ [Next]_vars => NoStrandedJob'
  BY AttendedStep, TypeParts DEF NoStrandedJob, Attended, IInv, Parts
<1> QED
  BY <1>1, <1>2, Inductive, PTL DEF Spec

-----------------------------------------------------------------------------
(* The data of the queue.  Who changes the files or the queue in more than *)
(* one step keeps the lock from the first to the last of them.             *)
LockInv ==
  /\ \A c \in Writers : writer[c].at \in {"move", "record"} => lockedBy = c
  /\ \A w \in Workers : worker[w].at = "pop" => lockedBy = w

(* What shutil.move put in place is there when the job is recorded.        *)
MovedInv ==
  \A c \in Writers : writer[c].at = "record" =>
    uploads[writer[c].id][writer[c].second] # Absent

(* The file of a job is missing only while the job is replaced or removed. *)
InChange(i) ==
  \/ \E c \in Writers : writer[c].at \in {"move", "record"} /\ writer[c].id = i
  \/ \E w \in Workers : worker[w].at = "pop" /\ worker[w].id = i
HasData(i) ==
  queue[i] # NoJob => uploads[i][queue[i].second] # Absent \/ InChange(i)
DataInv == crashes = 0 => up # "down" /\ \A i \in Ids : HasData(i)

LEMMA LockStep ==
  ASSUME Parts, LockInv, [Next]_vars PROVE LockInv'
<1> USE DEF Parts, LockInv, Free
<1>1. ASSUME NEW c \in Clients, Use(c) PROVE LockInv'
  <2>1. UNCHANGED <<lockedBy, worker>>
    BY <1>1 DEF Use, Open, OpenHandle, Create, Write, Release, guarded
  <2>2. \A d \in Writers :
           writer'[d].at \in {"move", "record"} => writer'[d] = writer[d]
    BY <1>1 DEF Use, Open, OpenHandle, Create, Write, Release, IdleWriter,
       WriterType, WriterStates
  <2> QED
    BY <2>1, <2>2
<1>2. ASSUME NEW c \in Writers, RemoveOld(c) PROVE LockInv'
  <2>1. /\ lockedBy = Nobody /\ lockedBy' = c /\ worker' = worker
        /\ \A d \in Writers \ {c} : writer'[d] = writer[d]
    BY <1>2 DEF RemoveOld, WriterType
  <2>2. \A d \in Writers : writer[d].at \notin {"move", "record"}
    BY <2>1, NobodyAssumption
  <2>3. \A w \in Workers : worker[w].at # "pop"
    BY <2>1, NobodyAssumption
  <2> QED
    BY <2>1, <2>2, <2>3
<1>3. ASSUME NEW c \in Writers, MoveNew(c) \/ Submit(c) PROVE LockInv'
  <2>1. /\ UNCHANGED <<lockedBy, worker>>
        /\ \A d \in Writers \ {c} : writer'[d] = writer[d]
        /\ writer'[c].at \in {"move", "record"} => writer[c].at = "move"
    BY <1>3 DEF MoveNew, Submit, guarded, Starting, IdleWriter, WriterType,
       WriterStates
  <2> QED
    BY <2>1
<1>4. ASSUME NEW c \in Writers, Record(c) PROVE LockInv'
  <2>1. /\ lockedBy = c /\ worker' = worker
        /\ \A d \in Writers \ {c} : writer'[d] = writer[d]
        /\ writer'[c].at = "submit"
    BY <1>4 DEF Record, WriterType, WriterStates
  <2>2. \A d \in Writers : writer'[d].at \notin {"move", "record"}
    BY <2>1
  <2>3. \A w \in Workers : worker'[w].at # "pop"
    BY <2>1, ActorsAssumption DEF Writers
  <2> QED
    BY <2>2, <2>3
<1>5. ASSUME NEW w \in Workers, RemoveFile(w) PROVE LockInv'
  <2>1. /\ lockedBy = Nobody /\ lockedBy' = w /\ writer' = writer
        /\ \A v \in Workers \ {w} : worker'[v] = worker[v]
    BY <1>5 DEF RemoveFile
  <2> QED
    BY <2>1, NobodyAssumption
<1>6. ASSUME NEW w \in Workers, PopJob(w) PROVE LockInv'
  <2>1. /\ lockedBy \in {w, Nobody} /\ writer' = writer
        /\ \A v \in Workers \ {w} : worker'[v] = worker[v]
        /\ worker'[w].at = "idle"
    BY <1>6 DEF PopJob, IdleWorker, WorkerType
  <2>2. \A d \in Writers : writer'[d].at \notin {"move", "record"}
    BY <2>1, NobodyAssumption, ActorsAssumption DEF Writers
  <2>3. \A v \in Workers : worker'[v].at # "pop"
    BY <2>1, NobodyAssumption
  <2> QED
    BY <2>2, <2>3
<1>7. ASSUME NEW w \in Workers,
             Start(w) \/ CheckFile(w) \/ ReadFile(w) \/ Send(w) \/ HandleFailure(w)
      PROVE  LockInv'
  <2>1. /\ UNCHANGED <<lockedBy, writer>>
        /\ \A v \in Workers : worker'[v].at = "pop" => worker'[v] = worker[v]
    <3>1. CASE Send(w)
      BY <3>1, SendEffect DEF Send, SendOk, SendLate, SendError, SendQuota, guarded
    <3>2. CASE ~Send(w)
      BY <1>7, <3>2
      DEF Start, CheckFile, ReadFile, HandleFailure, IdleWorker, guarded,
         WorkerType, WorkerStates
    <3> QED
      BY <3>1, <3>2
  <2> QED
    BY <2>1
<1>8. ASSUME NEW i \in Ids, Retry(i) PROVE LockInv'
  BY <1>8 DEF Retry, guarded
<1>9. CASE Startup
  <2>1. /\ UNCHANGED <<lockedBy, worker>>
        /\ \A d \in Writers :
             writer'[d].at \in {"move", "record"} => writer'[d] = writer[d]
    BY <1>9 DEF Startup, Load, Recover, ProcessQueue, Starting, IdleWriter,
       guarded, WriterType, WriterStates
  <2> QED
    BY <2>1
<1>10. CASE Crash
  BY <1>10 DEF Crash, IdleWorker, IdleWriter
<1>11. CASE UNCHANGED vars
  BY <1>11 DEF vars, guarded
<1> QED
  BY <1>1, <1>2, <1>3, <1>4, <1>5, <1>6, <1>7, <1>8, <1>9, <1>10, <1>11
  DEF Next, Enqueue, Execute

LEMMA MovedStep ==
  ASSUME Parts, LockInv, MovedInv, [Next]_vars PROVE MovedInv'
<1> USE DEF Parts, MovedInv, Free
<1>1. ASSUME uploads' = uploads,
             \A d \in Writers :
               writer'[d].at = "record" => writer'[d] = writer[d]
      PROVE  MovedInv'
  BY <1>1
<1>2. ASSUME lockedBy = Nobody, \A d \in Writers : writer'[d].at # "record"
      PROVE  MovedInv'
  BY <1>2
<1>3. ASSUME NEW c \in Clients, Use(c) PROVE MovedInv'
  <2>1. /\ uploads' = uploads
        /\ \A d \in Writers :
             writer'[d].at = "record" => writer'[d] = writer[d]
    BY <1>3 DEF Use, Open, OpenHandle, Create, Write, Release, IdleWriter,
       disk, WriterType, WriterStates
  <2> QED
    BY <1>1, <2>1
<1>4. ASSUME NEW c \in Writers, RemoveOld(c) PROVE MovedInv'
  <2>1. /\ lockedBy = Nobody
        /\ \A d \in Writers \ {c} : writer'[d] = writer[d]
        /\ writer'[c].at = "move"
    BY <1>4 DEF RemoveOld, WriterType, WriterStates
  <2> QED
    BY <1>2, <2>1, NobodyAssumption DEF LockInv
<1>5. ASSUME NEW c \in Writers, MoveNew(c) PROVE MovedInv'
  <2>1. \A d \in Writers \ {c} : writer'[d].at # "record"
    BY <1>5 DEF MoveNew, LockInv
  <2>2. /\ writer[c].entry.content # Absent
        /\ writer[c].id \in Ids /\ writer[c].second \in 0..MaxTime
    BY BoundsAssumption
    DEF WriterType, WriterStates, Entries, Contents, Absent, Empty
  <2>3. uploads'[writer[c].id][writer[c].second] = writer[c].entry.content
    BY <1>5, <2>2 DEF MoveNew, DiskType
  <2>4. writer'[c].id = writer[c].id /\ writer'[c].second = writer[c].second
    BY <1>5 DEF MoveNew, WriterType, WriterStates
  <2> QED
    BY <2>1, <2>2, <2>3, <2>4
<1>6. ASSUME NEW c \in Writers, Record(c) \/ Submit(c) PROVE MovedInv'
  <2>1. /\ uploads' = uploads
        /\ \A d \in Writers :
             writer'[d].at = "record" => writer'[d] = writer[d]
    BY <1>6 DEF Record, Submit, Starting, IdleWriter, disk, WriterType,
       WriterStates
  <2> QED
    BY <1>1, <2>1
<1>7. ASSUME NEW w \in Workers, RemoveFile(w) PROVE MovedInv'
  <2>1. lockedBy = Nobody /\ writer' = writer
    BY <1>7 DEF RemoveFile
  <2> QED
    BY <1>2, <2>1, NobodyAssumption DEF LockInv
<1>8. ASSUME NEW w \in Workers,
             \/ Start(w) \/ CheckFile(w) \/ ReadFile(w) \/ Send(w)
             \/ PopJob(w) \/ HandleFailure(w)
      PROVE  MovedInv'
  <2>1. UNCHANGED <<uploads, writer>>
    BY <1>8
    DEF Start, CheckFile, ReadFile, Send, SendOk, SendLate, SendError,
       SendQuota, PopJob, HandleFailure, disk
  <2> QED
    BY <1>1, <2>1
<1>9. ASSUME NEW i \in Ids, Retry(i) PROVE MovedInv'
  BY <1>1, <1>9 DEF Retry, disk
<1>10. CASE Startup
  <2>1. /\ uploads' = uploads
        /\ \A d \in Writers :
             writer'[d].at = "record" => writer'[d] = writer[d]
    BY <1>10 DEF Startup, Load, Recover, ProcessQueue, Starting, IdleWriter,
       disk, WriterType, WriterStates
  <2> QED
    BY <1>1, <2>1
<1>11. CASE Crash
  BY <1>11 DEF Crash, IdleWriter
<1>12. CASE UNCHANGED vars
  BY <1>12 DEF vars, disk
<1> QED
  BY <1>3, <1>4, <1>5, <1>6, <1>7, <1>8, <1>9, <1>10, <1>11, <1>12
  DEF Next, Enqueue, Execute
(* A step that leaves a job and its file alone keeps its data, if whoever  *)
(* was about to change them still is.                                      *)
LEMMA DataKept ==
  ASSUME NEW i \in Ids, HasData(i), UNCHANGED <<queue, uploads>>,
         InChange(i) => InChange(i)'
  PROVE  HasData(i)'
BY DEF HasData

LEMMA DataStep ==
  ASSUME Parts, LockInv, MovedInv, DataInv, [Next]_vars PROVE DataInv'
<1> USE DEF Parts, Free
<1> SUFFICES ASSUME crashes' = 0
             PROVE  up' # "down" /\ \A i \in Ids : HasData(i)'
  BY DEF DataInv
<1>0. /\ crashes = 0 /\ up # "down" /\ up' # "down" /\ ~Crash /\ ~Load
      /\ \A i \in Ids : HasData(i)
  <2>1. ~Crash
    BY BoundsAssumption DEF Crash, ProcessType
  <2>2. crashes' = crashes
    BY <2>1
    DEF Next, Use, Open, OpenHandle, Create, Write, Release, Enqueue,
       RemoveOld, MoveNew, Record, Submit, Execute, Start, CheckFile, ReadFile,
       Send, SendOk, SendLate, SendError, SendQuota, RemoveFile, PopJob,
       HandleFailure, Retry, Startup, Load, Recover, ProcessQueue, vars, process
  <2>3. up # "down" /\ \A i \in Ids : HasData(i)
    BY <2>2 DEF DataInv
  <2>4. up' \in {up, "serving", "booting"}
    BY <2>1
    DEF Next, Use, Open, OpenHandle, Create, Write, Release, Enqueue,
       RemoveOld, MoveNew, Record, Submit, Execute, Start, CheckFile, ReadFile,
       Send, SendOk, SendLate, SendError, SendQuota, RemoveFile, PopJob,
       HandleFailure, Retry, Startup, Load, Recover, ProcessQueue, vars, process
  <2> QED
    BY <2>1, <2>2, <2>3, <2>4 DEF Load
<1> SUFFICES ASSUME NEW i \in Ids PROVE HasData(i)'
  BY <1>0
<1>1. ASSUME UNCHANGED <<queue, uploads>>,
             \A d \in Writers :
               writer[d].at \in {"move", "record"} => writer'[d] = writer[d],
             \A w \in Workers : worker[w].at = "pop" => worker'[w] = worker[w]
      PROVE  HasData(i)'
  <2>1. InChange(i) => InChange(i)'
    BY <1>1 DEF InChange
  <2> QED
    BY <1>0, <1>1, <2>1, DataKept
(* Whoever takes the lock finds every job with its file.                   *)
<1>2. ASSUME lockedBy = Nobody PROVE ~InChange(i)
  BY <1>2, NobodyAssumption DEF LockInv, InChange
<1>3. ASSUME NEW c \in Clients, Use(c) PROVE HasData(i)'
  <2>1. UNCHANGED <<queue, uploads, worker>>
    BY <1>3 DEF Use, Open, OpenHandle, Create, Write, Release, guarded
  <2>2. \A d \in Writers :
           writer[d].at \in {"move", "record"} => writer'[d] = writer[d]
    BY <1>3 DEF Use, Open, OpenHandle, Create, Write, Release, WriterType
  <2> QED
    BY <1>1, <2>1, <2>2
<1>4. ASSUME NEW c \in Writers, RemoveOld(c) PROVE HasData(i)'
  <2>1. /\ lockedBy = Nobody /\ queue' = queue
        /\ writer'[c].at = "move" /\ writer'[c].id = writer[c].id
    BY <1>4 DEF RemoveOld, WriterType, WriterStates
  <2>2. CASE i = writer[c].id
    BY <2>1, <2>2 DEF HasData, InChange
  <2>3. CASE i # writer[c].id
    <3>1. uploads'[i] = uploads[i]
      BY <1>4, <2>3 DEF RemoveOld, DiskType
    <3> QED
      BY <1>0, <1>2, <2>1, <3>1 DEF HasData
  <2> QED
    BY <2>2, <2>3
<1>5. ASSUME NEW c \in Writers, MoveNew(c) PROVE HasData(i)'
  <2>1. /\ queue' = queue /\ writer[c].at = "move"
        /\ writer'[c].at = "record" /\ writer'[c].id = writer[c].id
    BY <1>5 DEF MoveNew, guarded, WriterType, WriterStates
  <2>2. CASE i = writer[c].id
    BY <2>1, <2>2 DEF HasData, InChange
  <2>3. CASE i # writer[c].id
    <3>1. uploads'[i] = uploads[i]
      BY <1>5, <2>3 DEF MoveNew, DiskType
    <3>2. lockedBy = c
      BY <2>1 DEF LockInv
    <3>3. ~InChange(i)
      BY <2>3, <3>2, ActorsAssumption DEF LockInv, InChange, Writers
    <3> QED
      BY <1>0, <2>1, <3>1, <3>3 DEF HasData
  <2> QED
    BY <2>2, <2>3
<1>6. ASSUME NEW c \in Writers, Record(c) PROVE HasData(i)'
  <2>1. uploads' = uploads /\ writer[c].at = "record" /\ writer[c].id \in Ids
    BY <1>6 DEF Record, disk, WriterType, WriterStates
  <2>2. CASE i = writer[c].id
    <3>1. queue'[i].second = writer[c].second
      BY <1>6, <2>1, <2>2 DEF Record, QueueType
    <3>2. uploads[i][writer[c].second] # Absent
      BY <2>1, <2>2 DEF MovedInv
    <3> QED
      BY <2>1, <3>1, <3>2 DEF HasData
  <2>3. CASE i # writer[c].id
    <3>1. queue'[i] = queue[i]
      BY <1>6, <2>3 DEF Record, QueueType
    <3>2. lockedBy = c
      BY <2>1 DEF LockInv
    <3>3. ~InChange(i)
      BY <2>3, <3>2, ActorsAssumption DEF LockInv, InChange, Writers
    <3> QED
      BY <1>0, <2>1, <3>1, <3>3 DEF HasData
  <2> QED
    BY <2>2, <2>3
<1>7. ASSUME NEW c \in Writers, Submit(c) PROVE HasData(i)'
  <2>1. UNCHANGED <<queue, uploads, worker>>
    BY <1>7 DEF Submit, guarded, disk
  <2>2. \A d \in Writers :
           writer[d].at \in {"move", "record"} => writer'[d] = writer[d]
    BY <1>7 DEF Submit
  <2> QED
    BY <1>1, <2>1, <2>2
<1>8. ASSUME NEW w \in Workers,
             Start(w) \/ CheckFile(w) \/ ReadFile(w) \/ Send(w)
      PROVE  HasData(i)'
  <2>1. UNCHANGED <<queue, uploads, writer>>
    BY <1>8
    DEF Start, CheckFile, ReadFile, Send, SendOk, SendLate, SendError,
       SendQuota, guarded, disk
  <2>2. \A v \in Workers : worker[v].at = "pop" => worker'[v] = worker[v]
    <3>1. CASE Send(w)
      BY <3>1, SendEffect
    <3>2. CASE ~Send(w)
      BY <1>8, <3>2 DEF Start, CheckFile, ReadFile, WorkerType
    <3> QED
      BY <3>1, <3>2
  <2> QED
    BY <1>1, <2>1, <2>2
<1>9. ASSUME NEW w \in Workers, RemoveFile(w) PROVE HasData(i)'
  <2>1. /\ lockedBy = Nobody /\ queue' = queue
        /\ worker'[w].at = "pop" /\ worker'[w].id = worker[w].id
    BY <1>9 DEF RemoveFile, WorkerType, WorkerStates
  <2>2. CASE i = worker[w].id
    BY <2>1, <2>2 DEF HasData, InChange
  <2>3. CASE i # worker[w].id
    <3>1. uploads'[i] = uploads[i]
      BY <1>9, <2>3 DEF RemoveFile, DiskType
    <3> QED
      BY <1>0, <1>2, <2>1, <3>1 DEF HasData
  <2> QED
    BY <2>2, <2>3
<1>10. ASSUME NEW w \in Workers, PopJob(w) PROVE HasData(i)'
  <2>1. uploads' = uploads /\ lockedBy \in {w, Nobody}
    BY <1>10 DEF PopJob, disk, LockInv
  <2>2. CASE i = worker[w].id
    <3>1. queue'[i] = NoJob
      BY <1>10, <2>2 DEF PopJob, QueueType
    <3> QED
      BY <3>1 DEF HasData
  <2>3. CASE i # worker[w].id
    <3>1. queue'[i] = queue[i]
      BY <1>10, <2>3 DEF PopJob, QueueType
    <3>2. ~InChange(i)
      BY <1>2, <2>1, <2>3, ActorsAssumption DEF LockInv, InChange, Writers
    <3> QED
      BY <1>0, <2>1, <3>1, <3>2 DEF HasData
  <2> QED
    BY <2>2, <2>3
<1>11. ASSUME NEW w \in Workers, HandleFailure(w) PROVE HasData(i)'
  <2>1. uploads' = uploads /\ lockedBy = Nobody
    BY <1>11 DEF HandleFailure, disk
  <2>2. queue'[i] # NoJob => queue[i] # NoJob /\ queue'[i].second = queue[i].second
    BY <1>11 DEF HandleFailure, QueueType, Jobs
  <2> QED
    BY <1>0, <1>2, <2>1, <2>2 DEF HasData
<1>12. ASSUME NEW j \in Ids, Retry(j) PROVE HasData(i)'
  BY <1>1, <1>12 DEF Retry, guarded, disk
<1>13. CASE Recover \/ ProcessQueue
  <2>1. /\ UNCHANGED <<queue, uploads, worker>>
        /\ \A d \in Writers :
             writer[d].at \in {"move", "record"} => writer'[d] = writer[d]
    BY <1>13 DEF Recover, ProcessQueue, guarded, disk, WriterType
  <2> QED
    BY <1>1, <2>1
<1>14. CASE UNCHANGED vars
  BY <1>1, <1>14 DEF vars, guarded, disk
<1> QED
  BY <1>0, <1>3, <1>4, <1>5, <1>6, <1>7, <1>8, <1>9, <1>10, <1>11, <1>12,
     <1>13, <1>14
  DEF Next, Enqueue, Execute, Startup

(* QueuedDataPresent: as long as the process has not died, the file of     *)
(* every queued job is there whenever the lock is free, so that reads are  *)
(* served from it and the upload finds it, for any number of threads that  *)
(* enqueue, upload, fail and retry at once.                                *)
THEOREM DataOfJobs == Spec => []QueuedDataPresent
<1> DEFINE J == LockInv /\ MovedInv /\ DataInv
<1>1. Init => J
  BY DEF Init, LockInv, MovedInv, DataInv, HasData, Starting, IdleWriter,
     IdleWorker
<1>2. IInv /\ J /\ [Next]_vars => J'
  BY LockStep, MovedStep, DataStep, TypeParts DEF IInv, Parts
<1>3. J => QueuedDataPresent
  BY NobodyAssumption
  DEF LockInv, DataInv, HasData, InChange, QueuedDataPresent, Free
<1> QED
  BY <1>1, <1>2, <1>3, Inductive, PTL DEF Spec

-----------------------------------------------------------------------------
(* What is sent, before the first crash.  The contents of a handle become  *)
(* those of its version with the first write, or are them from the start.  *)
OpenInv ==
  \A c \in Clients : writer[c].at = "open" =>
    LET entry == writer[c].entry
    IN \/ entry.content = entry.version
       \/ entry.content = Empty /\ entry.kind = "update"

(* The first start finds no journal, so that the recovery has nothing to   *)
(* enqueue, and nobody uses the file system until it is over.              *)
BootInv ==
  /\ up # "down" /\ writer[Boot].at \in {"recover", "idle"}
  /\ writer[Boot].at = "recover" => up = "booting"
  /\ up = "booting" =>
       journal = {} /\ \A c \in Clients : writer[c].at = "idle"

(* From the release to Drive, the contents are of released versions.       *)
QueuedReleased ==
  \A c \in Clients : writer[c].at \in {"enqueue", "move", "record"} =>
    writer[c].entry.content \in released
StoredReleased ==
  \A i \in Ids, s \in 0..MaxTime : uploads[i][s] \in {Absent} \union released
ReadReleased ==
  \A w \in Workers : worker[w].at = "send" => worker[w].data \in released
SentReleased ==
  /\ \A i \in Existing : drive[i] \in {0} \union released
  /\ \A v \in Contents : copies[v] > 0 => v \in released
SentInv == QueuedReleased /\ StoredReleased /\ ReadReleased /\ SentReleased

FirstRunInv == OpenInv /\ (crashes = 0 => BootInv /\ SentInv)

LEMMA OpenContents ==
  ASSUME Parts, OpenInv, [Next]_vars PROVE OpenInv'
<1> USE DEF Parts, OpenInv
<1>1. ASSUME \A c \in Clients : writer'[c].at = "open" => writer'[c] = writer[c]
      PROVE  OpenInv'
  BY <1>1
<1>2. ASSUME NEW c \in Clients, NEW i \in Existing \union live, Open(c, i)
      PROVE  OpenInv'
  <2>1. /\ writer'[c].entry.content = Empty
        /\ writer'[c].entry.kind = "update"
        /\ \A d \in Clients \ {c} : writer'[d] = writer[d]
    BY <1>2 DEF Open, OpenHandle, WriterType, Writers
  <2> QED
    BY <2>1
<1>3. ASSUME NEW c \in Clients, Create(c) PROVE OpenInv'
  <2>1. /\ writer'[c].entry.content = writer'[c].entry.version
        /\ \A d \in Clients \ {c} : writer'[d] = writer[d]
    BY <1>3 DEF Create, OpenHandle, WriterType, Writers
  <2> QED
    BY <2>1
<1>4. ASSUME NEW c \in Clients, Write(c) PROVE OpenInv'
  <2>1. /\ writer'[c].entry.content = writer'[c].entry.version
        /\ \A d \in Clients \ {c} : writer'[d] = writer[d]
    BY <1>4 DEF Write, WriterType, WriterStates, Entries, Writers
  <2> QED
    BY <2>1
<1>5. ASSUME NEW c \in Clients, Release(c) PROVE OpenInv'
  <2>1. \A d \in Clients : writer'[d].at = "open" => writer'[d] = writer[d]
    BY <1>5 DEF Release, IdleWriter, WriterType, WriterStates, Writers
  <2> QED
    BY <1>1, <2>1
<1>6. ASSUME NEW c \in Writers, Enqueue(c) PROVE OpenInv'
  <2>1. \A d \in Clients : writer'[d].at = "open" => writer'[d] = writer[d]
    BY <1>6 DEF Enqueue, RemoveOld, MoveNew, Record, Submit, Starting,
       IdleWriter, WriterType, WriterStates, Writers
  <2> QED
    BY <1>1, <2>1
<1>7. ASSUME NEW w \in Workers, Execute(w) PROVE OpenInv'
  <2>1. writer' = writer
    BY <1>7
    DEF Execute, Start, CheckFile, ReadFile, Send, SendOk, SendLate, SendError,
       SendQuota, RemoveFile, PopJob, HandleFailure
  <2> QED
    BY <2>1
<1>8. CASE Startup \/ Crash \/ UNCHANGED vars \/ \E i \in Ids : Retry(i)
  <2>1. \A d \in Clients : writer'[d].at = "open" => writer'[d] = writer[d]
    BY <1>8
    DEF Startup, Load, Recover, ProcessQueue, Crash, Retry, vars, Starting,
       IdleWriter, WriterType, WriterStates, Writers
  <2> QED
    BY <1>1, <2>1
<1> QED
  BY <1>2, <1>3, <1>4, <1>5, <1>6, <1>7, <1>8 DEF Next, Use

(* Without a crash, no step is one of a restart.                           *)
LEMMA FirstRun ==
  ASSUME Parts, [Next]_vars, crashes' = 0
  PROVE  crashes = 0 /\ ~Crash
<1>1. ~Crash
  BY BoundsAssumption DEF Crash, Parts, ProcessType
<1>2. crashes' = crashes
  BY <1>1
  DEF Next, Use, Open, OpenHandle, Create, Write, Release, Enqueue, RemoveOld,
     MoveNew, Record, Submit, Execute, Start, CheckFile, ReadFile, Send,
     SendOk, SendLate, SendError, SendQuota, RemoveFile, PopJob, HandleFailure,
     Retry, Startup, Load, Recover, ProcessQueue, vars, process
<1> QED
  BY <1>1, <1>2

LEMMA BootStep ==
  ASSUME Parts, BootInv, [Next]_vars, ~Crash PROVE BootInv'
<1> USE ActorsAssumption DEF Parts, BootInv, WriterType, Writers
<1>1. ASSUME NEW c \in Clients, Use(c) PROVE BootInv'
  <2>1. up' = up /\ up # "booting" /\ writer'[Boot] = writer[Boot]
    BY <1>1 DEF Use, Open, OpenHandle, Create, Write, Release, process
  <2> QED
    BY <2>1
<1>2. ASSUME NEW c \in Writers, Enqueue(c) PROVE BootInv'
  <2>1. c \in Clients /\ writer[c].at # "idle"
    BY <1>2 DEF Enqueue, RemoveOld, MoveNew, Record, Submit
  <2>2. up' = up /\ writer'[Boot] = writer[Boot]
    BY <1>2, <2>1 DEF Enqueue, RemoveOld, MoveNew, Record, Submit, process
  <2> QED
    BY <2>1, <2>2
<1>3. ASSUME NEW w \in Workers, Execute(w) PROVE BootInv'
  <2>1. UNCHANGED <<up, writer, journal>>
    BY <1>3
    DEF Execute, Start, CheckFile, ReadFile, Send, SendOk, SendLate, SendError,
       SendQuota, RemoveFile, PopJob, HandleFailure, process, disk
  <2> QED
    BY <2>1
<1>4. ASSUME NEW i \in Ids, Retry(i) PROVE BootInv'
  BY <1>4 DEF Retry, process, disk
<1>5. CASE Startup
  <2>1. ProcessQueue
    BY <1>5 DEF Startup, Load, Recover
  <2>2. up' = "serving" /\ writer'[Boot].at = "idle"
    BY <2>1 DEF ProcessQueue, IdleWriter
  <2> QED
    BY <2>2
<1>6. CASE UNCHANGED vars
  BY <1>6 DEF vars, process, disk
<1> QED
  BY <1>1, <1>2, <1>3, <1>4, <1>5, <1>6 DEF Next

LEMMA SentStep ==
  ASSUME Parts, OpenInv, BootInv, SentInv, [Next]_vars, ~Crash PROVE SentInv'
<1> USE DEF Parts, SentInv
<1>0. /\ released \subseteq Versions /\ Absent \notin Versions
      /\ released \subseteq released'
  <2>1. released \subseteq released'
    BY
    DEF Next, Use, Open, OpenHandle, Create, Write, Release, Enqueue,
       RemoveOld, MoveNew, Record, Submit, Execute, Start, CheckFile, ReadFile,
       Send, SendOk, SendLate, SendError, SendQuota, RemoveFile, PopJob,
       HandleFailure, Retry, Startup, Load, Recover, ProcessQueue, Crash, vars,
       history
  <2> QED
    BY <2>1 DEF HistoryType, Versions, Absent
<1>1. ASSUME \A d \in Clients :
               writer'[d].at \in {"enqueue", "move", "record"} =>
                 /\ writer[d].at \in {"enqueue", "move", "record"}
                 /\ writer'[d].entry = writer[d].entry
      PROVE  QueuedReleased'
  BY <1>0, <1>1 DEF QueuedReleased
<1>2. ASSUME UNCHANGED uploads PROVE StoredReleased'
  BY <1>0, <1>2 DEF StoredReleased
<1>3. ASSUME \A w \in Workers : worker'[w].at = "send" =>
               worker[w].at = "send" /\ worker'[w].data = worker[w].data
      PROVE  ReadReleased'
  BY <1>0, <1>3 DEF ReadReleased
<1>4. ASSUME UNCHANGED <<drive, copies>> PROVE SentReleased'
  BY <1>0, <1>4 DEF SentReleased
<1>5. ASSUME NEW c \in Clients, Use(c) PROVE SentInv'
  <2>1. UNCHANGED <<uploads, worker, drive, copies>>
    BY <1>5 DEF Use, Open, OpenHandle, Create, Write, Release, world, disk
  <2>2. QueuedReleased'
    <3>1. ASSUME Release(c), MustUpload(writer[c].entry) PROVE QueuedReleased'
      <4>1. /\ writer'[c].entry = writer[c].entry
            /\ \A d \in Clients \ {c} : writer'[d] = writer[d]
        BY <3>1, ConstantTypes DEF Release, WriterType, WriterStates, Writers,
           MustUpload, IdleWriter
      <4>2. writer[c].entry.version \in released'
        BY <3>1 DEF Release
      <4>3. writer[c].entry.content = writer[c].entry.version
        BY <3>1 DEF Release, MustUpload, OpenInv
      <4> QED
        BY <1>0, <4>1, <4>2, <4>3 DEF QueuedReleased
    <3>2. ASSUME Release(c), ~MustUpload(writer[c].entry) PROVE QueuedReleased'
      <4>1. \A d \in Clients :
              writer'[d].at \in {"enqueue", "move", "record"} =>
                 writer'[d] = writer[d]
        BY <3>2 DEF Release, IdleWriter, WriterType, WriterStates, Writers
      <4> QED
        BY <1>1, <4>1
    <3>3. ASSUME ~Release(c) PROVE QueuedReleased'
      <4>1. \A d \in Clients :
              writer'[d].at \in {"enqueue", "move", "record"} =>
                 writer'[d] = writer[d]
        BY <1>5, <3>3 DEF Use, Open, OpenHandle, Create, Write, IdleWriter,
           WriterType, WriterStates, Writers
      <4> QED
        BY <1>1, <4>1
    <3> QED
      BY <3>1, <3>2, <3>3
  <2> QED
    BY <1>2, <1>3, <1>4, <2>1, <2>2
<1>6. ASSUME NEW c \in Writers, Enqueue(c) PROVE SentInv'
  <2>1. UNCHANGED <<worker, drive, copies>>
    BY <1>6 DEF Enqueue, RemoveOld, MoveNew, Record, Submit, world
  <2>2. c \in Clients
    BY <1>6 DEF Enqueue, RemoveOld, MoveNew, Record, Submit, BootInv, Writers
  <2>3. QueuedReleased'
    <3>1. \A d \in Clients :
            writer'[d].at \in {"enqueue", "move", "record"} =>
               /\ writer[d].at \in {"enqueue", "move", "record"}
               /\ writer'[d].entry = writer[d].entry
      BY <1>6 DEF Enqueue, RemoveOld, MoveNew, Record, Submit, Starting,
         IdleWriter, WriterType, WriterStates, Writers
    <3> QED
      BY <1>1, <3>1
  <2>4. StoredReleased'
    <3>1. CASE RemoveOld(c)
      BY <1>0, <3>1 DEF RemoveOld, StoredReleased, DiskType
    <3>2. CASE MoveNew(c)
      <4>1. writer[c].entry.content \in released
        BY <2>2, <3>2 DEF MoveNew, QueuedReleased
      <4> QED
        BY <1>0, <3>2, <4>1 DEF MoveNew, StoredReleased, DiskType
    <3>3. CASE Record(c) \/ Submit(c)
      BY <1>2, <3>3 DEF Record, Submit, disk
    <3> QED
      BY <1>6, <3>1, <3>2, <3>3 DEF Enqueue
  <2> QED
    BY <1>3, <1>4, <2>1, <2>3, <2>4
<1>7. ASSUME NEW w \in Workers, Execute(w) PROVE SentInv'
  <2>1. UNCHANGED writer
    BY <1>7
    DEF Execute, Start, CheckFile, ReadFile, Send, SendOk, SendLate, SendError,
       SendQuota, RemoveFile, PopJob, HandleFailure
  <2>2. QueuedReleased'
    BY <1>1, <2>1
  <2>3. StoredReleased'
    <3>1. CASE RemoveFile(w)
      BY <1>0, <3>1 DEF RemoveFile, StoredReleased, DiskType
    <3>2. CASE ~RemoveFile(w)
      BY <1>2, <1>7, <3>2
      DEF Execute, Start, CheckFile, ReadFile, Send, SendOk, SendLate,
         SendError, SendQuota, PopJob, HandleFailure, disk
    <3> QED
      BY <3>1, <3>2
  <2>4. ReadReleased'
    <3>1. CASE ReadFile(w)
      <4>1. worker[w].id \in Ids /\ worker[w].second \in 0..MaxTime
        BY DEF WorkerType, WorkerStates
      <4>2. LocalFile(w) \in {Absent} \union released
        BY <4>1 DEF LocalFile, StoredReleased
      <4>3. /\ \A v \in Workers \ {w} : worker'[v] = worker[v]
            /\ worker'[w].at = "send" => worker'[w].data = LocalFile(w)
            /\ worker'[w].at = "send" => LocalFile(w) # Absent
        BY <3>1 DEF ReadFile, WorkerType, WorkerStates
      <4> QED
        BY <1>0, <4>2, <4>3 DEF ReadReleased
    <3>2. CASE ~ReadFile(w)
      <4>1. \A v \in Workers : worker'[v].at = "send" =>
              worker[v].at = "send" /\ worker'[v].data = worker[v].data
        <5>1. CASE Send(w)
          BY <5>1, SendEffect
        <5>2. CASE ~Send(w)
          <6>1. \A v \in Workers : worker'[v].at = "send" => worker'[v] = worker[v]
            BY <1>7, <3>2, <5>2
            DEF Execute, Start, CheckFile, RemoveFile, PopJob, HandleFailure,
               IdleWorker, WorkerType, WorkerStates
          <6> QED
            BY <6>1
        <5> QED
          BY <5>1, <5>2
      <4> QED
        BY <1>3, <4>1
    <3> QED
      BY <3>1, <3>2
  <2>5. SentReleased'
    <3>1. CASE SendOk(w) \/ SendLate(w)
      <4>1. worker[w].data \in released /\ Applied(w)
        BY <3>1 DEF SendOk, SendLate, ReadReleased
      <4> QED
        BY <1>0, <4>1 DEF Applied, SentReleased, WorldType
    <3>2. CASE ~(SendOk(w) \/ SendLate(w))
      BY <1>4, <1>7, <3>2
      DEF Execute, Start, CheckFile, ReadFile, Send, SendError, SendQuota,
         RemoveFile, PopJob, HandleFailure, world
    <3> QED
      BY <3>1, <3>2
  <2> QED
    BY <2>2, <2>3, <2>4, <2>5
<1>8. CASE Startup \/ UNCHANGED vars \/ \E i \in Ids : Retry(i)
  <2>1. UNCHANGED <<uploads, worker, drive, copies>>
    BY <1>8 DEF Startup, Load, Recover, ProcessQueue, Retry, vars, disk, world
  <2>2. \A d \in Clients :
          writer'[d].at \in {"enqueue", "move", "record"} =>
            writer'[d] = writer[d]
    BY <1>8, ActorsAssumption
    DEF Startup, Load, Recover, ProcessQueue, Retry, vars, Starting,
       IdleWriter, BootInv, WriterType, Writers
  <2> QED
    BY <1>1, <1>2, <1>3, <1>4, <2>1, <2>2
<1> QED
  BY <1>5, <1>6, <1>7, <1>8 DEF Next

LEMMA FirstRunKept == Spec => []FirstRunInv
<1>1. Init => FirstRunInv
  BY ActorsAssumption
  DEF Init, FirstRunInv, OpenInv, BootInv, SentInv, QueuedReleased,
     StoredReleased, ReadReleased, SentReleased, Starting, IdleWriter,
     IdleWorker, Writers
<1>2. IInv /\ FirstRunInv /\ [Next]_vars => FirstRunInv'
  BY OpenContents, FirstRun, BootStep, SentStep, TypeParts
  DEF IInv, Parts, FirstRunInv
<1> QED
  BY <1>1, <1>2, Inductive, PTL DEF Spec

(* OnlyReleasedSent: as long as the process has not died, Drive receives   *)
(* nothing but what some handle wrote and released, in whatever order the  *)
(* handles, the workers and the retries take their steps.                  *)
THEOREM SendsReleased == Spec => []OnlyReleasedSent
<1>1. FirstRunInv => OnlyReleasedSent
  BY DEF FirstRunInv, SentInv, SentReleased, OnlyReleasedSent
<1> QED
  BY <1>1, FirstRunKept, PTL

-----------------------------------------------------------------------------
(* How often a new file is sent, before the first crash, while the handles *)
(* of a file follow each other.                                            *)
OneHandlePerFile ==
  \A c, d \in Clients :
    /\ writer[c].at # "idle" /\ writer[d].at # "idle"
    /\ writer[c].id = writer[d].id
    => c = d

(* Who attends to the job of an id: tasks, workers, or an enqueue          *)
InTasks(i) == \E n \in 1..Len(tasks) : tasks[n] = i
Once(i) == \A m, n \in 1..Len(tasks) : tasks[m] = i /\ tasks[n] = i => m = n
OnIt(i) == {w \in Workers : worker[w].at # "idle" /\ worker[w].id = i}
Submits(i) == \E c \in Clients : writer[c].at = "submit" /\ writer[c].id = i

(* The version is in an upload file of the id, or a worker has read it     *)
Holds(i, v) ==
  \/ \E s \in 0..MaxTime : uploads[i][s] = v
  \/ \E w \in Workers :
       worker[w].at = "send" /\ worker[w].id = i /\ worker[w].data = v

(* A handle before its job is recorded, and before its file is moved       *)
Preparing(c) == writer[c].at \in {"open", "enqueue", "move", "record"}
Unmoved(c) == writer[c].at \in {"open", "enqueue", "move"}

(* Nobody has a job for the id, and nothing it holds was ever sent.        *)
Untouched(i) ==
  /\ queue[i] = NoJob /\ ~InTasks(i) /\ timers[i] = 0 /\ OnIt(i) = {}
  /\ ~Submits(i)
  /\ \A v \in Versions : Holds(i, v) => copies[v] = 0
Unsent(v) == copies[v] = 0 /\ \A i \in Ids : ~Holds(i, v)

(* An id is made for the handle that creates the file.                     *)
IdInv ==
  /\ live \subseteq {<<"local", v>> : v \in 1..versions}
  /\ \A c \in Clients : writer[c].at # "idle" =>
       /\ writer[c].id \in Existing \union live
       /\ writer[c].entry.version \in 1..versions
IdleInv == up = "booting" => \A i \in Ids : queue[i] = NoJob

(* Up to its job, such a file is untouched, and a version is unsent.       *)
NewFileInv ==
  /\ \A v \in Versions : v > versions => Untouched(<<"local", v>>)
  /\ \A c \in Clients, i \in Ids :
       /\ Preparing(c) /\ writer[c].entry.kind = "create" /\ writer[c].id = i
       => Untouched(i)
NewVersionInv ==
  /\ \A v \in Versions : v > versions => Unsent(v)
  /\ \A c \in Clients, v \in Versions :
       Unmoved(c) /\ writer[c].entry.version = v => Unsent(v)
  /\ \A c, d \in Clients :
       /\ Unmoved(c) /\ Unmoved(d)
       /\ writer[c].entry.version = writer[d].entry.version
       => c = d
MovesVersionInv ==
  \A c \in Clients : writer[c].at \in {"enqueue", "move"} =>
    writer[c].entry.content = writer[c].entry.version

(* A version is of one file.                                               *)
HomeInv ==
  \A v \in Versions, i, j \in Ids : Holds(i, v) /\ Holds(j, v) => i = j

(* A job that creates is attended to by one at a time.                     *)
Lone(i) ==
  /\ Once(i) /\ timers[i] <= 1
  /\ \A w, x \in OnIt(i) : w = x
  /\ InTasks(i) => timers[i] = 0 /\ OnIt(i) = {} /\ ~Submits(i)
  /\ timers[i] > 0 => OnIt(i) = {} /\ ~Submits(i)
  /\ OnIt(i) # {} => ~Submits(i)

(* How many files that many tries make                                     *)
Made(n) == Attempts * n

(* Its tries are counted, and the requests of the one that a worker has    *)
(* not reported apart.                                                     *)
Creates(w, i) == w \in OnIt(i) /\ worker[w].kind = "create"
Before(w) == worker[w].at \in {"check", "read", "send"}
Requests(w) == IF Before(w) THEN worker[w].attempt - 1 ELSE Attempts
Tried(i, v) ==
  \/ copies[v] <= Made(queue[i].retries)
  \/ \E w \in OnIt(i) : copies[v] <= Made(queue[i].retries) + Requests(w)
Counted(i) ==
  queue[i].status = "pending" =>
    /\ queue[i].retries <= MaxRetries
    /\ \A v \in Versions : Holds(i, v) => Tried(i, v)
JobInv(i) ==
  /\ queue[i].kind = "create" => Lone(i) /\ Counted(i)
  /\ queue[i].kind = "create" /\ queue[i].status # "pending" =>
       \A w \in Workers : ~Creates(w, i)
  /\ \A w, x \in Workers : Creates(w, i) /\ Creates(x, i) => w = x
  /\ \A w \in Workers : Creates(w, i) /\ Before(w) =>
       \A v \in Versions : Holds(i, v) =>
         copies[v] <= Made(MaxRetries) + Requests(w)

TriesInv ==
  /\ IdInv /\ IdleInv /\ NewFileInv /\ NewVersionInv /\ MovesVersionInv
  /\ HomeInv /\ \A i \in Ids : JobInv(i)
  /\ \A v \in Contents : copies[v] <= Made(MaxRetries + 1)
FirstTriesInv == crashes = 0 => TriesInv

(* What is known before a step of the first run                           *)
Kept == Parts /\ OpenInv /\ BootInv /\ SentInv /\ TriesInv

(* A step that is about other ids                                          *)
SameJob(i) ==
  /\ queue'[i] = queue[i] /\ timers'[i] = timers[i]
  /\ InTasks(i)' => InTasks(i)
  /\ Once(i) => Once(i)'
  /\ OnIt(i)' = OnIt(i) /\ \A w \in OnIt(i) : worker'[w] = worker[w]
  /\ Submits(i)' => Submits(i)
SameData(i) ==
  \A v \in Versions : Holds(i, v)' => Holds(i, v) /\ copies'[v] = copies[v]

LEMMA MadeGrows ==
  /\ \A n \in Nat : Made(n) \in Nat /\ Made(n + 1) = Made(n) + Attempts
  /\ \A m, n \in Nat : m <= n => Made(m) <= Made(n)
<1> USE AttemptsAssumption DEF Made
<1>1. \A n \in Nat : Made(n) \in Nat /\ Made(n + 1) = Made(n) + Attempts
  OBVIOUS
<1>2. ASSUME NEW m \in Nat, NEW n \in Nat, m <= n PROVE Made(m) <= Made(n)
  <2>1. PICK d \in Nat : n = m + d
    BY <1>2
  <2>2. Attempts * (m + d) = Attempts * m + Attempts * d
    OBVIOUS
  <2>3. Attempts * d \in Nat /\ Attempts * m \in Nat
    OBVIOUS
  <2> QED
    BY <2>1, <2>2, <2>3
<1> QED
  BY <1>1, <1>2

LEMMA UntouchedFrame ==
  ASSUME NEW i \in Ids, Untouched(i), SameJob(i), SameData(i)
  PROVE  Untouched(i)'
BY DEF Untouched, SameJob, SameData

LEMMA JobFrame ==
  ASSUME NEW i \in Ids, JobInv(i), SameJob(i), SameData(i)
  PROVE  JobInv(i)'
<1> USE DEF SameJob, SameData
<1>1. \A w \in Workers : Creates(w, i)' => Creates(w, i) /\ worker'[w] = worker[w]
  BY DEF Creates
<1>2. \A w \in OnIt(i) : Before(w)' <=> Before(w)
  BY DEF Before
<1>3. Lone(i) => Lone(i)'
  BY DEF Lone
<1>4. Counted(i) => Counted(i)'
  <2>1. \A w \in OnIt(i) : Requests(w)' = Requests(w)
    BY <1>2 DEF Requests
  <2>2. ASSUME NEW v \in Versions, Holds(i, v)', Tried(i, v) PROVE Tried(i, v)'
    BY <2>1, <2>2 DEF Tried
  <2> QED
    BY <2>2 DEF Counted
<1>5. \A w, x \in Workers : Creates(w, i)' /\ Creates(x, i)' => w = x
  BY <1>1 DEF JobInv
<1>6. ASSUME NEW w \in Workers, Creates(w, i)', Before(w)'
      PROVE  \A v \in Versions : Holds(i, v)' =>
               copies'[v] <= Made(MaxRetries) + Requests(w)'
  <2>1. Creates(w, i) /\ Before(w) /\ worker'[w] = worker[w]
    BY <1>1, <1>2, <1>6 DEF Creates
  <2>2. Requests(w)' = Requests(w)
    BY <2>1, <1>6 DEF Requests
  <2> QED
    BY <2>1, <2>2 DEF JobInv
<1>7. queue'[i].kind = "create" /\ queue'[i].status # "pending" =>
        \A w \in Workers : ~Creates(w, i)'
  BY <1>1 DEF JobInv
<1> QED
  BY <1>3, <1>4, <1>5, <1>6, <1>7 DEF JobInv

(* A step that leaves the handles alone and works on one id, which is not  *)
(* that of a new file before its job                                       *)
LEMMA WorkerFrame ==
  ASSUME Kept, NEW k \in Ids, ~Untouched(k),
         UNCHANGED <<writer, live, versions, up>>,
         \A i \in Ids \ {k} : SameJob(i),
         queue[k] = NoJob => queue'[k] = NoJob,
         \A i \in Ids, v \in Versions : Holds(i, v)' => Holds(i, v),
         \A v \in Versions : copies'[v] # copies[v] => Holds(k, v),
         JobInv(k)',
         \A v \in Contents : copies'[v] <= Made(MaxRetries + 1)
  PROVE  TriesInv'
<1> USE DEF Kept, TriesInv
<1>1. \A i \in Ids \ {k} : SameData(i)
  BY DEF SameData, HomeInv
<1>2. IdInv' /\ MovesVersionInv'
  BY DEF IdInv, MovesVersionInv
<1>3. IdleInv'
  BY DEF IdleInv, SameJob
<1>4. \A i \in Ids : Untouched(i) => Untouched(i)'
  BY <1>1, UntouchedFrame
<1>5. NewFileInv'
  <2>1. \A v \in Versions : <<"local", v>> \in Ids
    BY DEF Ids, New
  <2>2. \A c \in Clients : Preparing(c)' <=> Preparing(c)
    BY DEF Preparing
  <2> QED
    BY <1>4, <2>1, <2>2 DEF NewFileInv
<1>6. NewVersionInv'
  <2>1. \A v \in Versions : Unsent(v) => Unsent(v)'
    BY DEF Unsent
  <2>2. \A c \in Clients : Unmoved(c)' <=> Unmoved(c)
    BY DEF Unmoved
  <2> QED
    BY <2>1, <2>2 DEF NewVersionInv
<1>7. HomeInv'
  BY DEF HomeInv
<1>8. \A i \in Ids : JobInv(i)'
  BY <1>1, JobFrame
<1> QED
  BY <1>2, <1>3, <1>5, <1>6, <1>7, <1>8

(* A worker, or the timer, on the id k                                     *)
LEMMA OtherJobs ==
  ASSUME Kept, NEW k \in Ids,
         \A w \in Workers :
           \/ worker'[w] = worker[w]
           \/ /\ worker[w].at = "idle" \/ worker[w].id = k
              /\ worker'[w].at = "idle" \/ worker'[w].id = k,
         UNCHANGED writer,
         \A i \in Ids \ {k} : queue'[i] = queue[i] /\ timers'[i] = timers[i],
         \A i \in Ids \ {k} : InTasks(i)' => InTasks(i),
         \A i \in Ids \ {k} : Once(i) => Once(i)'
  PROVE  \A i \in Ids \ {k} : SameJob(i)
<1> SUFFICES ASSUME NEW i \in Ids \ {k} PROVE SameJob(i)
  OBVIOUS
<1>1. OnIt(i)' = OnIt(i)
  BY DEF OnIt
<1>2. \A w \in OnIt(i) : worker'[w] = worker[w]
  BY DEF OnIt
<1>3. Submits(i)' => Submits(i)
  BY DEF Submits
<1> QED
  BY <1>1, <1>2, <1>3 DEF SameJob

(* What is held after a step that neither moves nor reads a file           *)
LEMMA HoldsLess ==
  ASSUME Kept,
         \A i \in Ids, s \in 0..MaxTime : uploads'[i][s] \in {Absent, uploads[i][s]},
         \A w \in Workers : worker'[w].at = "send" =>
           /\ worker[w].at = "send" /\ worker'[w].id = worker[w].id
           /\ worker'[w].data = worker[w].data
  PROVE  \A i \in Ids, v \in Versions : Holds(i, v)' => Holds(i, v)
BY DEF Holds, Versions, Absent

LEMMA StartTries ==
  ASSUME Kept, NEW w \in Workers, Start(w)
  PROVE  TriesInv'
<1> USE DEF Kept, Parts
<1>1. PICK k \in Ids : k = Head(tasks)
  BY DEF Start, PoolType
<1>2. /\ tasks \in Seq(Ids) /\ tasks # <<>> /\ tasks[1] = k /\ InTasks(k)
      /\ Len(tasks') = Len(tasks) - 1
      /\ \A n \in 1..Len(tasks') : tasks'[n] = tasks[n + 1]
  BY <1>1 DEF Start, PoolType, InTasks
<1>3. /\ \A i \in Ids : InTasks(i)' => InTasks(i)
      /\ \A i \in Ids : Once(i) => Once(i)'
      /\ Once(k) => ~InTasks(k)'
  <2>1. \A n \in 1..Len(tasks') : n + 1 \in 1..Len(tasks) /\ n + 1 # 1
    BY <1>2
  <2>2. 1 \in 1..Len(tasks)
    BY <1>2
  <2>3. \A i \in Ids : InTasks(i)' => InTasks(i)
    BY <1>2, <2>1 DEF InTasks
  <2>4. \A i \in Ids : Once(i) => Once(i)'
    <3>1. SUFFICES ASSUME NEW i \in Ids, Once(i),
                          NEW m \in 1..Len(tasks'), NEW n \in 1..Len(tasks'),
                          tasks'[m] = i, tasks'[n] = i
                   PROVE  m = n
      BY DEF Once
    <3>2. tasks[m + 1] = i /\ tasks[n + 1] = i
      BY <1>2, <3>1
    <3>3. m + 1 = n + 1
      BY <2>1, <3>1, <3>2 DEF Once
    <3> QED
      BY <3>3
  <2>5. Once(k) => ~InTasks(k)'
    BY <1>2, <2>1, <2>2 DEF Once, InTasks
  <2> QED
    BY <2>3, <2>4, <2>5
<1>4. UNCHANGED <<queue, uploads, timers, copies, writer, live, versions, up>>
  BY DEF Start, guarded, disk, world, process, history
<1>5. /\ worker[w].at = "idle"
      /\ \A x \in Workers \ {w} : worker'[x] = worker[x]
      /\ \/ worker'[w] = worker[w]
         \/ /\ queue[k].status = "pending"
            /\ worker'[w].at = "check" /\ worker'[w].id = k
            /\ worker'[w].kind = queue[k].kind /\ worker'[w].attempt = 1
  BY <1>1 DEF Start, WorkerType
<1>6. ~Untouched(k)
  BY <1>2 DEF Untouched
<1>7. \A i \in Ids \ {k} : SameJob(i)
  BY <1>3, <1>4, <1>5, OtherJobs
<1>8. \A i \in Ids, v \in Versions : Holds(i, v)' => Holds(i, v)
  BY <1>4, <1>5, HoldsLess
<1>9. JobInv(k)'
  <2>1. JobInv(k)
    BY DEF TriesInv
  <2>2. OnIt(k)' \subseteq OnIt(k) \union {w} /\ w \notin OnIt(k)
    BY <1>5 DEF OnIt
  <2>3. Submits(k)' <=> Submits(k)
    BY <1>4 DEF Submits
  <2>4. queue[k].kind = "create" => OnIt(k) = {} /\ Lone(k)'
    BY <1>2, <1>3, <1>4, <2>1, <2>2, <2>3 DEF JobInv, Lone
  <2>5. \A x \in Workers \ {w} :
          (x \in OnIt(k)' <=> x \in OnIt(k)) /\ (Before(x)' <=> Before(x))
            /\ (Creates(x, k)' <=> Creates(x, k)) /\ Requests(x)' = Requests(x)
    BY <1>5 DEF OnIt, Before, Creates, Requests
  <2>6. queue[k].kind = "create" => Counted(k)'
    <3>1. SUFFICES ASSUME queue[k].kind = "create" PROVE Counted(k)'
      OBVIOUS
    <3>2. Counted(k) /\ OnIt(k) = {}
      BY <2>1, <2>4, <3>1 DEF JobInv
    <3>3. ASSUME NEW v \in Versions, Tried(k, v) PROVE Tried(k, v)'
      BY <1>4, <3>2, <3>3 DEF Tried
    <3> QED
      BY <1>4, <1>8, <3>2, <3>3 DEF Counted
  <2>7. Creates(w, k)' => queue[k].kind = "create" /\ queue[k].status = "pending"
    BY <1>5 DEF Creates, OnIt
  <2>8. \A x \in Workers : Creates(x, k) => x \in OnIt(k)
    BY DEF Creates
  <2>9. ASSUME NEW x \in Workers, Creates(x, k)', Before(x)',
               NEW v \in Versions, Holds(k, v)'
        PROVE  copies'[v] <= Made(MaxRetries) + Requests(x)'
    <3>1. Holds(k, v)
      BY <1>8, <2>9
    <3>2. CASE x = w
      <4>1. OnIt(k) = {} /\ Counted(k) /\ queue[k].status = "pending"
        BY <2>1, <2>4, <2>7, <2>9, <3>2 DEF JobInv
      <4>2. /\ copies[v] \in Nat /\ queue[k].retries \in Nat
        BY ConstantTypes DEF WorldType, QueueType, Jobs
      <4>3. copies[v] <= Made(queue[k].retries) /\ queue[k].retries <= MaxRetries
        BY <3>1, <4>1 DEF Counted, Tried
      <4>4. /\ Made(queue[k].retries) <= Made(MaxRetries)
            /\ Made(queue[k].retries) \in Nat /\ Made(MaxRetries) \in Nat
        BY <4>2, <4>3, BoundsAssumption, MadeGrows
      <4>5. Requests(x)' = 0
        BY <1>5, <2>2, <2>9, <3>2 DEF Requests, Creates, OnIt
      <4> QED
        BY <1>4, <4>2, <4>3, <4>4, <4>5
    <3>3. CASE x # w
      BY <1>4, <2>1, <2>5, <2>9, <3>1, <3>3 DEF JobInv
    <3> QED
      BY <3>2, <3>3
  <2> QED
    BY <1>4, <2>1, <2>4, <2>5, <2>6, <2>7, <2>8, <2>9 DEF JobInv
<1>10. \A v \in Contents : copies'[v] <= Made(MaxRetries + 1)
  BY <1>4 DEF TriesInv
<1> QED
  BY <1>4, <1>6, <1>7, <1>8, <1>9, <1>10, WorkerFrame

(* A worker goes on with its job.  It may have sent what it had read.      *)
Sends(w) ==
  LET data == worker[w].data
  IN /\ worker[w].at = "send" /\ worker[w].kind = "create"
     /\ ~Before(w)' \/ worker'[w].attempt = worker[w].attempt + 1
     /\ copies' = [copies EXCEPT ![data] = @ + 1]

LEMMA GoesOn ==
  ASSUME Kept, NEW w \in Workers, worker[w].at # "idle", worker'[w].at # "idle",
         worker'[w].id = worker[w].id, worker'[w].kind = worker[w].kind,
         Before(w)' => Before(w) /\ worker'[w].attempt >= worker[w].attempt,
         worker'[w].attempt \in 1..Attempts,
         \A x \in Workers \ {w} : worker'[x] = worker[x],
         UNCHANGED <<queue, tasks, timers, writer, live, versions, up>>,
         \A i \in Ids, v \in Versions : Holds(i, v)' => Holds(i, v),
         UNCHANGED copies \/ Sends(w)
  PROVE  TriesInv'
<1> USE DEF Kept, Parts
<1>1. PICK k \in Ids : k = worker[w].id
  BY DEF WorkerType, WorkerStates
<1>2. ~Untouched(k) /\ w \in OnIt(k)
  BY <1>1 DEF Untouched, OnIt
<1>3. \A i \in Ids \ {k} : SameJob(i)
  <2>1. \A i \in Ids : (InTasks(i)' => InTasks(i)) /\ (Once(i) => Once(i)')
    BY DEF InTasks, Once
  <2> QED
    BY <1>1, <2>1, OtherJobs
<1>4. \A v \in Versions : copies'[v] # copies[v] =>
        /\ Holds(k, v) /\ copies'[v] = copies[v] + 1
        /\ Creates(w, k) /\ Before(w) /\ Sends(w)
  <2>1. SUFFICES ASSUME NEW v \in Versions, copies'[v] # copies[v]
                 PROVE  /\ Holds(k, v) /\ copies'[v] = copies[v] + 1
                        /\ Creates(w, k) /\ Before(w) /\ Sends(w)
    OBVIOUS
  <2>2. v \in Contents /\ Sends(w)
    BY <2>1, ConstantTypes
  <2>3. v = worker[w].data /\ copies'[v] = copies[v] + 1
    BY <2>1, <2>2 DEF Sends, WorldType
  <2>4. Holds(k, v)
    BY <1>1, <2>2, <2>3 DEF Sends, Holds
  <2> QED
    BY <1>2, <2>2, <2>3, <2>4 DEF Sends, Creates, Before
<1>5. /\ copies \in [Contents -> Nat] /\ copies' \in [Contents -> Nat]
      /\ Versions \subseteq Contents
  BY ConstantTypes DEF Sends, WorldType
<1>6. /\ JobInv(k) /\ Made(queue[k].retries) \in Nat /\ Made(MaxRetries) \in Nat
      /\ Made(MaxRetries + 1) = Made(MaxRetries) + Attempts
  <2>1. queue[k].retries \in Nat
    BY DEF QueueType, Jobs
  <2> QED
    BY <2>1, BoundsAssumption, MadeGrows DEF TriesInv
<1>7. OnIt(k)' = OnIt(k) /\ \A x \in Workers : Creates(x, k)' <=> Creates(x, k)
  <2>1. OnIt(k)' = OnIt(k)
    BY <1>1 DEF OnIt
  <2> QED
    BY <2>1 DEF Creates
<1>8. Lone(k) => Lone(k)'
  BY <1>7 DEF Lone, Once, InTasks, Submits
<1>9. \A x \in Workers \ {w} : (Before(x)' <=> Before(x)) /\ Requests(x)' = Requests(x)
  BY DEF Before, Requests
(* The requests of w are counted.                                          *)
<1>10. /\ Requests(w) \in 0..Attempts /\ Requests(w)' \in 0..Attempts
       /\ Requests(w) <= Requests(w)'
       /\ Before(w) /\ Sends(w) => Requests(w) + 1 <= Requests(w)'
  <2>1. worker[w].attempt \in 1..Attempts /\ Attempts \in Nat
    BY AttemptsAssumption DEF WorkerType, WorkerStates
  <2>2. CASE Before(w)'
    BY <2>1, <2>2 DEF Requests, Sends
  <2>3. CASE ~Before(w)'
    BY <2>1, <2>3 DEF Requests
  <2> QED
    BY <2>2, <2>3
<1>11. Lone(k) /\ Counted(k) => Counted(k)'
  <2>1. SUFFICES ASSUME Lone(k), Counted(k), queue[k].status = "pending",
                        NEW v \in Versions, Holds(k, v)'
                 PROVE  Tried(k, v)'
    BY DEF Counted
  <2>2. Tried(k, v) /\ OnIt(k) = {w}
    BY <1>2, <2>1 DEF Counted, Lone
  <2>3. /\ copies[v] \in Nat
        /\ copies[v] <= Made(queue[k].retries) + Requests(w)
    BY <1>5, <1>6, <1>10, <2>2 DEF Tried
  <2>4. copies'[v] <= Made(queue[k].retries) + Requests(w)'
    <3>1. CASE copies'[v] = copies[v]
      BY <1>6, <1>10, <2>3, <3>1, AttemptsAssumption
    <3>2. CASE copies'[v] # copies[v]
      BY <1>4, <1>6, <1>10, <2>3, <3>2, AttemptsAssumption
    <3> QED
      BY <3>1, <3>2
  <2> QED
    BY <1>2, <1>7, <2>4 DEF Tried
<1>12. ASSUME NEW x \in Workers, Creates(x, k)', Before(x)', NEW v \in Versions,
              Holds(k, v)'
       PROVE  copies'[v] <= Made(MaxRetries) + Requests(x)'
  <2>1. Creates(x, k) /\ Before(x) /\ Holds(k, v)
    BY <1>7, <1>9, <1>12
  <2>2. copies[v] \in Nat /\ copies[v] <= Made(MaxRetries) + Requests(x)
    BY <1>5, <1>6, <2>1 DEF JobInv
  <2>3. CASE copies'[v] = copies[v]
    BY <1>6, <1>9, <1>10, <2>2, <2>3, AttemptsAssumption
  <2>4. CASE copies'[v] # copies[v]
    <3>1. x = w
      BY <1>4, <1>6, <2>1, <2>4 DEF JobInv
    <3> QED
      BY <1>4, <1>6, <1>10, <2>2, <2>4, <3>1, AttemptsAssumption
  <2> QED
    BY <2>3, <2>4
<1>13. JobInv(k)'
  BY <1>6, <1>7, <1>8, <1>11, <1>12 DEF JobInv
<1>14. \A v \in Contents : copies'[v] <= Made(MaxRetries + 1)
  <2>1. SUFFICES ASSUME NEW v \in Contents, copies'[v] # copies[v]
                 PROVE  copies'[v] <= Made(MaxRetries + 1)
    BY DEF TriesInv
  <2>2. Sends(w) /\ v = worker[w].data
    BY <2>1 DEF Sends, WorldType
  <2>3. v \in Versions
    BY <2>2 DEF Sends, SentInv, ReadReleased, HistoryType
  <2>4. Holds(k, v) /\ Creates(w, k) /\ Before(w) /\ copies'[v] = copies[v] + 1
    BY <1>4, <2>1, <2>3
  <2>5. copies[v] \in Nat /\ copies[v] <= Made(MaxRetries) + Requests(w)
    BY <1>5, <1>6, <2>3, <2>4 DEF JobInv
  <2> QED
    BY <1>6, <1>10, <2>2, <2>4, <2>5, AttemptsAssumption
<1> QED
  BY <1>2, <1>3, <1>4, <1>13, <1>14, WorkerFrame

LEMMA CheckFileTries ==
  ASSUME Kept, NEW w \in Workers, CheckFile(w)
  PROVE  TriesInv'
<1> USE DEF Kept, Parts
<1>1. /\ worker[w].at = "check" /\ worker'[w].at \in {"drop", "read"}
      /\ worker'[w].id = worker[w].id /\ worker'[w].kind = worker[w].kind
      /\ worker'[w].attempt = worker[w].attempt /\ worker[w].attempt \in 1..Attempts
      /\ \A x \in Workers \ {w} : worker'[x] = worker[x]
  BY DEF CheckFile, WorkerType, WorkerStates
<1>2. UNCHANGED <<queue, tasks, timers, writer, live, versions, up, uploads, copies>>
  BY DEF CheckFile, guarded, disk, pool, world, process, history
<1>3. Before(w)
  BY <1>1 DEF Before
<1> QED
  BY <1>1, <1>2, <1>3, HoldsLess, GoesOn

LEMMA ReadFileTries ==
  ASSUME Kept, NEW w \in Workers, ReadFile(w)
  PROVE  TriesInv'
<1> USE DEF Kept, Parts
<1>1. /\ worker[w].at = "read"
      /\ \/ worker'[w].at = "fail"
         \/ worker'[w].at = "send" /\ worker'[w].data = LocalFile(w)
      /\ worker'[w].id = worker[w].id /\ worker'[w].kind = worker[w].kind
      /\ worker'[w].attempt = worker[w].attempt /\ worker[w].attempt \in 1..Attempts
      /\ \A x \in Workers \ {w} : worker'[x] = worker[x]
  BY DEF ReadFile, WorkerType, WorkerStates
<1>2. UNCHANGED <<queue, tasks, timers, writer, live, versions, up, uploads, copies>>
  BY DEF ReadFile, guarded, disk, pool, world, process, history
<1>3. Before(w)
  BY <1>1 DEF Before
<1>4. ASSUME NEW i \in Ids, NEW v \in Versions, Holds(i, v)' PROVE Holds(i, v)
  <2>1. worker[w].second \in 0..MaxTime
    BY DEF WorkerType, WorkerStates
  <2>2. CASE \E s \in 0..MaxTime : uploads'[i][s] = v
    BY <1>2, <2>2 DEF Holds
  <2>3. CASE \E x \in Workers :
               worker'[x].at = "send" /\ worker'[x].id = i /\ worker'[x].data = v
    BY <1>1, <2>1, <2>3 DEF Holds, LocalFile
  <2> QED
    BY <1>4, <2>2, <2>3 DEF Holds
<1> QED
  BY <1>1, <1>2, <1>3, <1>4, GoesOn

LEMMA SendTries ==
  ASSUME Kept, NEW w \in Workers, Send(w)
  PROVE  TriesInv'
<1> USE DEF Kept, Parts
<1>1. /\ worker[w].at = "send" /\ Before(w)
      /\ worker[w].attempt \in 1..Attempts
      /\ \A x \in Workers \ {w} : worker'[x] = worker[x]
  BY SendEffect DEF Before
<1>2. /\ worker'[w].id = worker[w].id /\ worker'[w].kind = worker[w].kind
      /\ worker'[w].data = worker[w].data
      /\ \/ /\ worker'[w].at \in {"remove", "fail", "fatal"}
            /\ worker'[w].attempt = 1
         \/ /\ worker'[w].at = "send" /\ worker[w].attempt < Attempts
            /\ worker'[w].attempt = worker[w].attempt + 1
  BY SendEffect
<1>3. UNCHANGED <<queue, tasks, timers, writer, live, versions, up, uploads>>
  BY DEF Send, SendOk, SendLate, SendError, SendQuota, guarded, disk, pool,
     world, process, history
<1>4. /\ worker'[w].attempt \in 1..Attempts
      /\ Before(w)' => worker'[w].attempt = worker[w].attempt + 1
      /\ Before(w)' => worker'[w].attempt >= worker[w].attempt
  BY <1>1, <1>2, AttemptsAssumption DEF Before
<1>5. UNCHANGED copies \/ Sends(w)
  BY <1>1, <1>4 DEF Send, SendOk, SendLate, SendError, SendQuota, Applied,
     Sends, world
<1>6. \A i \in Ids, v \in Versions : Holds(i, v)' => Holds(i, v)
  BY <1>1, <1>2, <1>3, HoldsLess
<1>7. worker[w].at # "idle" /\ worker'[w].at # "idle"
  BY <1>1, <1>2
<1> QED
  BY <1>1, <1>2, <1>3, <1>4, <1>5, <1>6, <1>7, GoesOn

LEMMA RemoveFileTries ==
  ASSUME Kept, NEW w \in Workers, RemoveFile(w)
  PROVE  TriesInv'
<1> USE DEF Kept, Parts
<1>1. /\ worker[w].at = "remove" /\ worker'[w].at = "pop"
      /\ worker'[w].id = worker[w].id /\ worker'[w].kind = worker[w].kind
      /\ worker'[w].attempt = worker[w].attempt /\ worker[w].attempt \in 1..Attempts
      /\ \A x \in Workers \ {w} : worker'[x] = worker[x]
  BY DEF RemoveFile, WorkerType, WorkerStates
<1>2. UNCHANGED <<queue, tasks, timers, writer, live, versions, up, copies>>
  BY DEF RemoveFile, pool, world, process, history
<1>3. ~Before(w)'
  BY <1>1 DEF Before
<1>4. \A i \in Ids, s \in 0..MaxTime : uploads'[i][s] \in {Absent, uploads[i][s]}
  BY DEF RemoveFile, DiskType
<1>5. \A i \in Ids, v \in Versions : Holds(i, v)' => Holds(i, v)
  BY <1>1, <1>4, HoldsLess
<1> QED
  BY <1>1, <1>2, <1>3, <1>5, GoesOn

(* A worker ends.                                                          *)
LEMMA Ends ==
  ASSUME Kept, NEW w \in Workers, NEW k \in Ids, k = worker[w].id,
         worker[w].at # "idle", worker' = [worker EXCEPT ![w] = IdleWorker],
         \A i \in Ids \ {k} : queue'[i] = queue[i] /\ timers'[i] = timers[i],
         UNCHANGED <<tasks, writer, live, versions, up, uploads, copies>>,
         queue[k] = NoJob => queue'[k] = NoJob,
         queue'[k].kind = "create" =>
           Lone(k)' /\ Counted(k)' /\ OnIt(k)' = {}
  PROVE  TriesInv'
<1> USE DEF Kept, Parts
<1>1. ~Untouched(k)
  BY DEF Untouched, OnIt
<1>2. /\ worker'[w].at = "idle"
      /\ \A x \in Workers \ {w} : worker'[x] = worker[x]
  BY DEF WorkerType, IdleWorker
<1>3. \A i \in Ids \ {k} : SameJob(i)
  <2>1. \A i \in Ids : (InTasks(i)' => InTasks(i)) /\ (Once(i) => Once(i)')
    BY DEF InTasks, Once
  <2> QED
    BY <1>2, <2>1, OtherJobs
<1>4. \A i \in Ids, v \in Versions : Holds(i, v)' => Holds(i, v)
  BY <1>2, HoldsLess
<1>5. \A x \in Workers : Creates(x, k)' => Creates(x, k) /\ worker'[x] = worker[x]
  BY <1>2 DEF Creates, OnIt
<1>6. JobInv(k)
  BY DEF TriesInv
<1>7. \A x, y \in Workers : Creates(x, k)' /\ Creates(y, k)' => x = y
  BY <1>5, <1>6 DEF JobInv
<1>8. \A x \in Workers : Creates(x, k)' /\ Before(x)' =>
        \A v \in Versions : Holds(k, v)' =>
          copies'[v] <= Made(MaxRetries) + Requests(x)'
  BY <1>4, <1>5, <1>6 DEF JobInv, Before, Requests
<1>9. queue'[k].kind = "create" => \A x \in Workers : ~Creates(x, k)'
  BY DEF Creates
<1>10. JobInv(k)'
  BY <1>7, <1>8, <1>9 DEF JobInv
<1>11. \A v \in Contents : copies'[v] <= Made(MaxRetries + 1)
  BY DEF TriesInv
<1> QED
  BY <1>1, <1>3, <1>4, <1>10, <1>11, WorkerFrame

LEMMA PopJobTries ==
  ASSUME Kept, NEW w \in Workers, PopJob(w)
  PROVE  TriesInv'
<1> USE DEF Kept, Parts
<1>1. PICK k \in Ids : k = worker[w].id
  BY DEF WorkerType, WorkerStates
<1>2. /\ worker[w].at # "idle" /\ worker' = [worker EXCEPT ![w] = IdleWorker]
      /\ queue' = [queue EXCEPT ![k] = NoJob]
      /\ UNCHANGED <<tasks, timers, writer, live, versions, up, uploads, copies>>
  BY <1>1 DEF PopJob, disk, pool, world, process, history
<1>3. /\ queue'[k] = NoJob /\ NoJob.kind # "create"
      /\ \A i \in Ids \ {k} : queue'[i] = queue[i] /\ timers'[i] = timers[i]
  BY <1>2 DEF QueueType, NoJob
<1>4. queue'[k].kind # "create"
  BY <1>3
<1> QED
  BY <1>1, <1>2, <1>3, <1>4, Ends

LEMMA HandleFailureTries ==
  ASSUME Kept, NEW w \in Workers, HandleFailure(w)
  PROVE  TriesInv'
<1> USE DEF Kept, Parts
<1>1. PICK k \in Ids : k = worker[w].id
  BY DEF WorkerType, WorkerStates
<1>2. /\ worker[w].at # "idle" /\ worker' = [worker EXCEPT ![w] = IdleWorker]
      /\ UNCHANGED <<tasks, writer, live, versions, up, uploads, copies>>
  BY DEF HandleFailure, disk, world, process, history
<1>3. \A i \in Ids \ {k} : queue'[i] = queue[i] /\ timers'[i] = timers[i]
  BY <1>1 DEF HandleFailure, QueueType, PoolType
<1>4. queue[k] = NoJob => queue'[k] = NoJob
  BY <1>1 DEF HandleFailure
<1>5. ASSUME queue'[k].kind = "create"
      PROVE  Lone(k)' /\ Counted(k)' /\ OnIt(k)' = {}
  <2>1. queue[k] # NoJob
    BY <1>4, <1>5 DEF NoJob
  <2>2. /\ queue[k].kind = "create" /\ queue[k].retries \in Nat
        /\ queue'[k].retries = queue[k].retries + 1
        /\ queue'[k].status = "pending" =>
             queue[k].status = "pending" /\ queue[k].retries + 1 <= MaxRetries
        /\ timers[k] \in Nat /\ timers'[k] \in {timers[k], timers[k] + 1}
    <3>1. queue[k] \in Jobs /\ timers[k] \in Nat
      BY DEF QueueType, PoolType
    <3>2. /\ queue[k].retries \in Nat /\ queue'[k].kind = queue[k].kind
          /\ queue'[k].retries = queue[k].retries + 1
          /\ queue'[k].status \in {"failed", queue[k].status}
          /\ queue'[k].status = "failed" \/ ~(queue[k].retries + 1 > MaxRetries)
      BY <1>1, <2>1, <3>1 DEF HandleFailure, QueueType, Jobs
    <3>3. timers'[k] \in {timers[k], timers[k] + 1}
      BY <1>1, <2>1 DEF HandleFailure, PoolType
    <3> QED
      BY <1>5, <3>1, <3>2, <3>3, BoundsAssumption
  <2>3. Lone(k) /\ Counted(k)
    BY <2>2 DEF TriesInv, JobInv
  <2>4. OnIt(k) = {w} /\ OnIt(k)' = {}
    <3>1. OnIt(k) = {w}
      BY <1>1, <1>2, <2>3 DEF Lone, OnIt
    <3>2. OnIt(k)' \subseteq OnIt(k) \ {w}
      BY <1>2 DEF OnIt, WorkerType, IdleWorker
    <3> QED
      BY <3>1, <3>2
  <2>5. Lone(k)'
    <3>1. timers[k] = 0 /\ ~InTasks(k) /\ ~Submits(k) /\ Once(k)
      BY <2>2, <2>3, <2>4 DEF Lone
    <3>2. ~InTasks(k)' /\ ~Submits(k)' /\ Once(k)'
      BY <1>2, <3>1 DEF InTasks, Submits, Once
    <3> QED
      BY <2>2, <2>4, <3>1, <3>2 DEF Lone
  <2>6. Counted(k)'
    <3>1. SUFFICES ASSUME queue'[k].status = "pending",
                          NEW v \in Versions, Holds(k, v)'
                   PROVE  copies'[v] <= Made(queue'[k].retries)
      BY <2>2 DEF Counted, Tried
    <3>2. Holds(k, v)
      <4>1. \A x \in Workers : worker'[x].at = "send" => worker'[x] = worker[x]
        BY <1>2 DEF WorkerType, IdleWorker
      <4> QED
        BY <1>2, <3>1, <4>1, HoldsLess
    <3>3. Tried(k, v) /\ copies[v] \in Nat
      BY <2>2, <2>3, <3>1, <3>2, ConstantTypes DEF Counted, WorldType
    <3>4. /\ Made(queue[k].retries) \in Nat
          /\ Made(queue'[k].retries) = Made(queue[k].retries) + Attempts
      BY <2>2, MadeGrows
    <3>5. Requests(w) \in 0..Attempts
      BY AttemptsAssumption DEF Requests, WorkerType, WorkerStates
    <3> QED
      BY <1>2, <2>4, <3>3, <3>4, <3>5, AttemptsAssumption DEF Tried
  <2> QED
    BY <2>4, <2>5, <2>6
<1> QED
  BY <1>1, <1>2, <1>3, <1>4, <1>5, Ends

(* What a task added to the pool changes                                   *)
LEMMA AddTask ==
  ASSUME PoolType, NEW k \in Ids, tasks' = Append(tasks, k)
  PROVE  /\ \A i \in Ids \ {k} : InTasks(i)' => InTasks(i)
         /\ \A i \in Ids \ {k} : Once(i) => Once(i)'
         /\ ~InTasks(k) => Once(k)'
<1>1. /\ tasks \in Seq(Ids) /\ Len(tasks') = Len(tasks) + 1
      /\ tasks'[Len(tasks) + 1] = k
      /\ \A n \in 1..Len(tasks) : tasks'[n] = tasks[n]
  BY DEF PoolType
<1>2. \A n \in 1..Len(tasks') : n \in 1..Len(tasks) \/ n = Len(tasks) + 1
  BY <1>1
<1>3. \A i \in Ids \ {k} : InTasks(i)' => InTasks(i)
  BY <1>1, <1>2 DEF InTasks
<1>4. \A i \in Ids \ {k} : Once(i) => Once(i)'
  BY <1>1, <1>2 DEF Once
<1>5. ~InTasks(k) => Once(k)'
  BY <1>1, <1>2 DEF InTasks, Once
<1> QED
  BY <1>3, <1>4, <1>5

LEMMA RetryTries ==
  ASSUME Kept, NEW k \in Ids, Retry(k)
  PROVE  TriesInv'
<1> USE DEF Kept, Parts
<1>1. /\ timers[k] > 0 /\ tasks' = Append(tasks, k)
      /\ timers[k] \in Nat /\ timers'[k] = timers[k] - 1
      /\ UNCHANGED <<queue, worker, writer, live, versions, up, uploads, copies>>
      /\ \A i \in Ids \ {k} : timers'[i] = timers[i]
  BY DEF Retry, guarded, disk, world, process, history, PoolType
<1>2. ~Untouched(k)
  BY <1>1 DEF Untouched
<1>3. /\ \A i \in Ids \ {k} : InTasks(i)' => InTasks(i)
      /\ \A i \in Ids \ {k} : Once(i) => Once(i)'
      /\ ~InTasks(k) => Once(k)'
  BY <1>1, AddTask
<1>4. \A i \in Ids \ {k} : SameJob(i)
  BY <1>1, <1>3, OtherJobs
<1>5. \A i \in Ids, v \in Versions : Holds(i, v)' => Holds(i, v)
  BY <1>1, HoldsLess
<1>6. JobInv(k)'
  <2>1. JobInv(k)
    BY DEF TriesInv
  <2>2. OnIt(k)' = OnIt(k) /\ (Submits(k)' <=> Submits(k))
    BY <1>1 DEF OnIt, Submits
  <2>3. Lone(k) => Lone(k)'
    <3>1. SUFFICES ASSUME Lone(k) PROVE Lone(k)'
      OBVIOUS
    <3>2. timers[k] = 1 /\ ~InTasks(k) /\ OnIt(k) = {} /\ ~Submits(k)
      BY <1>1, <3>1 DEF Lone
    <3> QED
      BY <1>1, <1>3, <2>2, <3>2 DEF Lone
  <2>4. \A x \in Workers : /\ Creates(x, k)' <=> Creates(x, k)
                           /\ Before(x)' <=> Before(x)
                           /\ Requests(x)' = Requests(x)
    BY <1>1, <2>2 DEF Creates, Before, Requests
  <2>5. Counted(k) => Counted(k)'
    <3>1. \A v \in Versions : Tried(k, v) => Tried(k, v)'
      BY <1>1, <2>2, <2>4 DEF Tried, OnIt
    <3> QED
      BY <1>1, <1>5, <3>1 DEF Counted
  <2> QED
    BY <1>1, <1>5, <2>1, <2>3, <2>4, <2>5 DEF JobInv
<1>7. \A v \in Contents : copies'[v] <= Made(MaxRetries + 1)
  BY <1>1 DEF TriesInv
<1> QED
  BY <1>1, <1>2, <1>4, <1>5, <1>6, <1>7, WorkerFrame

LEMMA VersionsKnown ==
  ASSUME Kept
  PROVE  /\ versions \in Nat /\ versions <= MaxVersions
         /\ \A n : n \in 1..versions => n \in Versions
         /\ \A c \in Clients : writer[c].at # "idle" =>
              /\ writer[c].entry.version \in 1..versions
              /\ writer[c].entry.version \in Versions
<1>1. versions \in Nat /\ versions <= MaxVersions
  BY BoundsAssumption DEF Kept, Parts, HistoryType
<1>2. \A n : n \in 1..versions => n \in Versions
  BY <1>1, BoundsAssumption DEF Versions
<1> QED
  BY <1>1, <1>2 DEF Kept, TriesInv, IdInv

(* A step of an open handle, or of its enqueue, on the file of the handle. *)
(* The version is held for the file once it is moved.                      *)
LEMMA HandleFrame ==
  ASSUME Kept, OneHandlePerFile, NEW c \in Clients, NEW k \in Ids,
         writer[c].at # "idle", writer[c].id = k,
         \A d \in Clients \ {c} : writer'[d] = writer[d],
         writer'[c].at # "idle" =>
           writer'[c].id = k /\ writer'[c].entry.version = writer[c].entry.version,
         Unmoved(c)' => Unmoved(c),
         writer'[c].at \in {"enqueue", "move"} =>
           writer'[c].entry.content = writer'[c].entry.version,
         Preparing(c)' /\ writer'[c].entry.kind = "create" => Untouched(k)',
         UNCHANGED <<up, versions, live, copies>>,
         \A i \in Ids \ {k} : SameJob(i) /\ SameData(i),
         \A v \in Versions : Holds(k, v)' =>
           \/ Holds(k, v)
           \/ v = writer[c].entry.version /\ Unmoved(c) /\ ~Unmoved(c)',
         JobInv(k)'
  PROVE  TriesInv'
<1> USE DEF Kept, Parts
<1> USE DEF TriesInv
<1>1. up # "booting"
  BY DEF BootInv
<1>2. IdInv'
  <2>1. writer[c].id \in Existing \union live /\ writer[c].entry.version \in 1..versions
    BY DEF IdInv
  <2> QED
    BY <2>1 DEF IdInv
<1>3. IdleInv' /\ MovesVersionInv'
  BY <1>1 DEF IdleInv, MovesVersionInv
<1>4. NewFileInv'
  <2>1. ASSUME NEW v \in Versions, v > versions PROVE Untouched(<<"local", v>>)'
    <3>1. <<"local", v>> \in New /\ <<"local", v>> \in Ids
      BY DEF New, Ids
    <3>2. k \in Existing \union live
      BY DEF IdInv
    <3>3. <<"local", v>> \notin Existing
      BY <3>1, NewAssumption
    <3>4. <<"local", v>> \notin live
      BY <2>1, VersionsKnown DEF IdInv
    <3>5. <<"local", v>> \in Ids \ {k}
      BY <3>1, <3>2, <3>3, <3>4
    <3>6. Untouched(<<"local", v>>)
      BY <2>1 DEF NewFileInv
    <3> QED
      BY <3>5, <3>6, UntouchedFrame
  <2>2. ASSUME NEW d \in Clients, NEW i \in Ids, Preparing(d)',
               writer'[d].entry.kind = "create", writer'[d].id = i
        PROVE  Untouched(i)'
    <3>1. CASE d = c
      BY <2>2, <3>1 DEF Preparing
    <3>2. CASE d # c
      <4>1. writer'[d] = writer[d] /\ Preparing(d)
        BY <2>2, <3>2 DEF Preparing
      <4>2. Untouched(i)
        BY <2>2, <4>1 DEF NewFileInv
      <4>3. i # k
        BY <2>2, <3>2, <4>1 DEF OneHandlePerFile, Preparing
      <4> QED
        BY <4>2, <4>3, UntouchedFrame
    <3> QED
      BY <3>1, <3>2
  <2> QED
    BY <2>1, <2>2 DEF NewFileInv
<1>5. \A i \in Ids, v \in Versions : Holds(i, v)' =>
        \/ Holds(i, v)
        \/ i = k /\ v = writer[c].entry.version /\ Unmoved(c) /\ ~Unmoved(c)'
  BY DEF SameData
<1>6. \A d \in Clients : Unmoved(d)' =>
        Unmoved(d) /\ writer'[d].entry.version = writer[d].entry.version
  BY DEF Unmoved
<1>7. NewVersionInv'
  <2>1. ASSUME NEW v \in Versions, v > versions PROVE Unsent(v)'
    <3>1. v # writer[c].entry.version
      BY <2>1, VersionsKnown
    <3> QED
      BY <1>5, <2>1, <3>1 DEF NewVersionInv, Unsent
  <2>2. ASSUME NEW d \in Clients, NEW v \in Versions, Unmoved(d)',
               writer'[d].entry.version = v
        PROVE  Unsent(v)'
    <3>1. Unmoved(d) /\ writer[d].entry.version = v /\ Unsent(v)
      BY <1>6, <2>2 DEF NewVersionInv
    <3>2. v = writer[c].entry.version /\ Unmoved(c) => Unmoved(c)'
      BY <2>2, <3>1 DEF NewVersionInv
    <3> QED
      BY <1>5, <3>1, <3>2 DEF Unsent
  <2>3. ASSUME NEW d \in Clients, NEW e \in Clients, Unmoved(d)', Unmoved(e)',
               writer'[d].entry.version = writer'[e].entry.version
        PROVE  d = e
    BY <1>6, <2>3 DEF NewVersionInv
  <2> QED
    BY <2>1, <2>2, <2>3 DEF NewVersionInv
<1>8. HomeInv'
  <2>1. SUFFICES ASSUME NEW v \in Versions, NEW i \in Ids, NEW j \in Ids,
                        Holds(i, v)', Holds(j, v)'
                 PROVE  i = j
    BY DEF HomeInv
  <2>2. CASE v = writer[c].entry.version /\ Unmoved(c)
    <3>1. ~Holds(i, v) /\ ~Holds(j, v)
      BY <2>2 DEF NewVersionInv, Unsent
    <3> QED
      BY <1>5, <2>1, <3>1
  <2>3. CASE ~(v = writer[c].entry.version /\ Unmoved(c))
    BY <1>5, <2>1, <2>3 DEF HomeInv
  <2> QED
    BY <2>2, <2>3
<1>9. \A i \in Ids : JobInv(i)'
  BY JobFrame
<1> QED
  BY <1>2, <1>3, <1>4, <1>7, <1>8, <1>9

(* A step of a handle that has nothing to do with jobs                     *)
LEMMA OtherSteps ==
  ASSUME Kept, UNCHANGED <<queue, tasks, timers, worker>>,
         \A d \in Clients : writer'[d].at = "submit" => writer'[d] = writer[d]
  PROVE  \A i \in Ids : SameJob(i)
<1> SUFFICES ASSUME NEW i \in Ids PROVE SameJob(i)
  OBVIOUS
<1>1. OnIt(i)' = OnIt(i) /\ (InTasks(i)' => InTasks(i)) /\ (Once(i) => Once(i)')
  BY DEF OnIt, InTasks, Once
<1>2. Submits(i)' => Submits(i)
  BY DEF Submits
<1> QED
  BY <1>1, <1>2 DEF SameJob

LEMMA SameHolds ==
  ASSUME Kept, UNCHANGED <<worker, copies>>,
         \A i \in Ids, s \in 0..MaxTime : uploads'[i][s] \in {Absent, uploads[i][s]}
  PROVE  \A i \in Ids : SameData(i)
BY HoldsLess DEF SameData

(* A handle is written to, released, or its enqueue removes the old file.  *)
LEMMA BeforeMoveTries ==
  ASSUME Kept, OneHandlePerFile, NEW c \in Clients,
         Write(c) \/ Release(c) \/ RemoveOld(c)
  PROVE  TriesInv'
<1> USE DEF Kept, Parts
<1>1. c \in Writers /\ writer[c] \in WriterStates
  BY DEF Writers, WriterType
<1>2. PICK k \in Ids : k = writer[c].id
  BY <1>1 DEF WriterStates
<1>3. UNCHANGED <<queue, tasks, timers, worker, up, versions, live, copies>>
  BY DEF Write, Release, RemoveOld, guarded, pool, world, process, history
<1>4. \A d \in Clients \ {c} : writer'[d] = writer[d]
  BY DEF Write, Release, RemoveOld, Writers, WriterType
<1>5. /\ writer[c].at \in {"open", "enqueue"}
      /\ writer'[c].at \in {"idle", "open", "enqueue", "move"}
      /\ writer'[c].at # "idle" =>
           /\ writer'[c].id = writer[c].id
           /\ writer'[c].entry.version = writer[c].entry.version
           /\ writer'[c].entry.kind = writer[c].entry.kind
      /\ writer'[c].at \in {"enqueue", "move"} =>
           writer'[c].entry = writer[c].entry
      /\ writer'[c].at = "move" => writer[c].at = "enqueue"
  BY <1>1 DEF Write, Release, RemoveOld, WriterType, WriterStates, Entries,
     IdleWriter
<1>6. writer'[c].at \in {"enqueue", "move"} =>
        writer'[c].entry.content = writer'[c].entry.version
  <2>1. CASE Release(c) /\ writer'[c].at \in {"enqueue", "move"}
    <3>1. MustUpload(writer[c].entry)
      BY <1>1, <2>1 DEF Release, IdleWriter, WriterType
    <3> QED
      BY <1>5, <2>1, <3>1 DEF Release, MustUpload, OpenInv
  <2>2. CASE Write(c)
    BY <1>1, <2>2 DEF Write, WriterType, WriterStates
  <2>3. CASE RemoveOld(c)
    BY <1>5, <2>3 DEF RemoveOld, TriesInv, MovesVersionInv
  <2> QED
    BY <2>1, <2>2, <2>3
<1>7. \A i \in Ids, s \in 0..MaxTime : uploads'[i][s] \in {Absent, uploads[i][s]}
  <2>1. CASE RemoveOld(c)
    BY <2>1 DEF RemoveOld, DiskType
  <2>2. CASE Write(c) \/ Release(c)
    BY <2>2 DEF Write, Release
  <2> QED
    BY <2>1, <2>2
<1>8. \A i \in Ids : SameJob(i) /\ SameData(i)
  <2>1. \A d \in Clients : writer'[d].at = "submit" => writer'[d] = writer[d]
    BY <1>4, <1>5
  <2> QED
    BY <1>3, <1>7, <2>1, OtherSteps, SameHolds
<1>9. JobInv(k)'
  BY <1>8, JobFrame DEF TriesInv
<1>10. Preparing(c)' /\ writer'[c].entry.kind = "create" => Untouched(k)'
  <2>1. ASSUME Preparing(c)', writer'[c].entry.kind = "create" PROVE Untouched(k)
    BY <1>2, <1>5, <2>1 DEF Preparing, TriesInv, NewFileInv
  <2> QED
    BY <1>8, <2>1, UntouchedFrame
<1>11. Unmoved(c)
  BY <1>5 DEF Unmoved
<1>12. \A v \in Versions : Holds(k, v)' => Holds(k, v)
  BY <1>8 DEF SameData
<1> QED
  BY <1>2, <1>3, <1>4, <1>5, <1>6, <1>8, <1>9, <1>10, <1>11, <1>12, HandleFrame

LEMMA MoveNewTries ==
  ASSUME Kept, OneHandlePerFile, NEW c \in Clients, MoveNew(c)
  PROVE  TriesInv'
<1> USE DEF Kept, Parts
<1>1. c \in Writers /\ writer[c] \in WriterStates
  BY DEF Writers, WriterType
<1>2. PICK k \in Ids : k = writer[c].id
  BY <1>1 DEF WriterStates
<1>3. UNCHANGED <<queue, tasks, timers, worker, up, versions, live, copies>>
  BY DEF MoveNew, guarded, pool, world, process, history
<1>4. \A d \in Clients \ {c} : writer'[d] = writer[d]
  BY DEF MoveNew, Writers, WriterType
<1>5. /\ writer[c].at = "move" /\ writer'[c].at = "record"
      /\ writer'[c].id = k /\ writer'[c].entry = writer[c].entry
  BY <1>1, <1>2 DEF MoveNew, WriterType, WriterStates
<1>6. PICK v0 \in Versions : v0 = writer[c].entry.version
  BY <1>5, VersionsKnown
<1>7. writer[c].entry.content = v0 /\ Unsent(v0)
  BY <1>5, <1>6 DEF TriesInv, MovesVersionInv, NewVersionInv, Unmoved
<1>8. \A i \in Ids, s \in 0..MaxTime :
        \/ uploads'[i][s] = uploads[i][s]
        \/ i = k /\ uploads'[i][s] = v0
  BY <1>2, <1>7 DEF MoveNew, DiskType
<1>9. \A i \in Ids, v \in Versions : Holds(i, v)' =>
        Holds(i, v) \/ (i = k /\ v = v0)
  BY <1>3, <1>8 DEF Holds
<1>10. \A i \in Ids : SameJob(i)
  <2>1. \A d \in Clients : writer'[d].at = "submit" => writer'[d] = writer[d]
    BY <1>4, <1>5
  <2> QED
    BY <1>3, <2>1, OtherSteps
<1>11. \A i \in Ids \ {k} : SameData(i)
  BY <1>3, <1>9 DEF SameData
<1>12. copies'[v0] = 0 /\ \A v \in Versions : copies'[v] = copies[v]
  BY <1>3, <1>7 DEF Unsent
<1>13. JobInv(k)'
  <2>1. JobInv(k) /\ OnIt(k)' = OnIt(k)
    BY <1>10 DEF TriesInv, SameJob
  <2>2. \A w \in Workers : /\ Creates(w, k)' <=> Creates(w, k)
                           /\ Before(w)' <=> Before(w)
                           /\ Requests(w)' = Requests(w)
    BY <1>3, <2>1 DEF Creates, Before, Requests
  <2>3. Lone(k) => Lone(k)'
    BY <1>3, <1>10, <2>1 DEF Lone, SameJob
  <2>4. Counted(k) => Counted(k)'
    <3>1. \A v \in Versions : Tried(k, v) => Tried(k, v)'
      BY <1>3, <2>1, <2>2, <1>12 DEF Tried, OnIt
    <3>2. Tried(k, v0)'
      <4>1. queue'[k].retries \in Nat
        BY <1>3 DEF QueueType, Jobs
      <4> QED
        BY <1>12, <4>1, MadeGrows DEF Tried
    <3> QED
      BY <1>3, <1>9, <3>1, <3>2 DEF Counted
  <2>5. ASSUME NEW w \in Workers, Creates(w, k)', Before(w)', NEW v \in Versions,
               Holds(k, v)'
        PROVE  copies'[v] <= Made(MaxRetries) + Requests(w)'
    <3>1. CASE v = v0
      <4>1. Requests(w) \in Nat
        BY AttemptsAssumption DEF Requests, WorkerType, WorkerStates
      <4>2. Made(MaxRetries) \in Nat
        BY BoundsAssumption, MadeGrows
      <4> QED
        BY <1>12, <2>2, <3>1, <4>1, <4>2
    <3>2. CASE v # v0
      BY <1>9, <1>12, <2>1, <2>2, <2>5, <3>2 DEF JobInv
    <3> QED
      BY <3>1, <3>2
  <2> QED
    BY <1>3, <2>1, <2>2, <2>3, <2>4, <2>5 DEF JobInv
<1>14. Preparing(c)' /\ writer'[c].entry.kind = "create" => Untouched(k)'
  <2>1. SUFFICES ASSUME writer[c].entry.kind = "create" PROVE Untouched(k)'
    BY <1>5
  <2>2. Untouched(k)
    BY <1>2, <1>5, <2>1 DEF Preparing, TriesInv, NewFileInv
  <2> QED
    BY <1>9, <1>10, <1>12, <2>2 DEF Untouched, SameJob
<1>15. Unmoved(c) /\ ~Unmoved(c)'
  BY <1>5 DEF Unmoved
<1>16. \A v \in Versions : Holds(k, v)' =>
         Holds(k, v) \/ (v = writer[c].entry.version /\ Unmoved(c) /\ ~Unmoved(c)')
  BY <1>6, <1>9, <1>15
<1> QED
  BY <1>2, <1>3, <1>4, <1>5, <1>10, <1>11, <1>13, <1>14, <1>15, <1>16, HandleFrame

LEMMA RecordTries ==
  ASSUME Kept, OneHandlePerFile, NEW c \in Clients, Record(c)
  PROVE  TriesInv'
<1> USE DEF Kept, Parts
<1>1. c \in Writers /\ writer[c] \in WriterStates
  BY DEF Writers, WriterType
<1>2. PICK k \in Ids : k = writer[c].id
  BY <1>1 DEF WriterStates
<1>3. UNCHANGED <<tasks, timers, worker, up, versions, live, copies, uploads>>
  BY DEF Record, disk, pool, world, process
<1>4. \A d \in Clients \ {c} : writer'[d] = writer[d]
  BY DEF Record, Writers, WriterType
<1>5. /\ writer[c].at = "record" /\ writer'[c].at = "submit"
      /\ writer'[c].id = k /\ writer'[c].entry = writer[c].entry
  BY <1>1, <1>2 DEF Record, WriterType, WriterStates
<1>6. /\ \A i \in Ids \ {k} : queue'[i] = queue[i]
      /\ queue'[k].status = "pending" /\ queue'[k].retries = queue[k].retries
      /\ queue'[k].kind = writer[c].entry.kind
  BY <1>2 DEF Record, QueueType
<1>7. \A i \in Ids : /\ OnIt(i)' = OnIt(i)
                     /\ InTasks(i)' <=> InTasks(i)
                     /\ Once(i)' <=> Once(i)
  BY <1>3 DEF OnIt, InTasks, Once
<1>8. \A i \in Ids : SameData(i)
  BY <1>3, SameHolds
<1>9. \A i \in Ids \ {k} : SameJob(i)
  <2>1. \A i \in Ids \ {k} : Submits(i)' => Submits(i)
    BY <1>4, <1>5 DEF Submits
  <2> QED
    BY <1>3, <1>6, <1>7, <2>1 DEF SameJob
<1>10. queue'[k].kind = "create" => Lone(k)' /\ Counted(k)'
  <2>1. SUFFICES ASSUME queue'[k].kind = "create" PROVE Lone(k)' /\ Counted(k)'
    OBVIOUS
  <2>2. Untouched(k)
    BY <1>2, <1>5, <1>6, <2>1 DEF Preparing, TriesInv, NewFileInv
  <2>3. ~InTasks(k) /\ timers[k] = 0 /\ OnIt(k) = {} /\ queue'[k].retries = 0
    BY <1>6, <2>2 DEF Untouched, NoJob
  <2>4. Lone(k)'
    <3>1. Once(k)
      BY <2>3 DEF Once, InTasks
    <3> QED
      BY <1>3, <1>7, <2>3, <3>1 DEF Lone
  <2>5. Counted(k)'
    <3>1. Made(0) \in Nat /\ 0 <= MaxRetries
      BY MadeGrows, BoundsAssumption
    <3> QED
      BY <1>8, <2>2, <2>3, <3>1 DEF Counted, Tried, Untouched, SameData
  <2> QED
    BY <2>4, <2>5
<1>11. JobInv(k)'
  <2>1. JobInv(k)
    BY DEF TriesInv
  <2>2. \A w \in Workers : /\ Creates(w, k)' <=> Creates(w, k)
                           /\ Before(w)' <=> Before(w)
                           /\ Requests(w)' = Requests(w)
    BY <1>3, <1>7 DEF Creates, Before, Requests
  <2> QED
    BY <1>6, <1>8, <1>10, <2>1, <2>2 DEF JobInv, SameData
<1>12. ~Unmoved(c)' /\ ~Preparing(c)'
  BY <1>5 DEF Unmoved, Preparing
<1>13. \A v \in Versions : Holds(k, v)' => Holds(k, v)
  BY <1>8 DEF SameData
<1> QED
  BY <1>2, <1>3, <1>4, <1>5, <1>8, <1>9, <1>11, <1>12, <1>13, HandleFrame

LEMMA SubmitTries ==
  ASSUME Kept, OneHandlePerFile, NEW c \in Clients, Submit(c)
  PROVE  TriesInv'
<1> USE DEF Kept, Parts
<1>1. c \in Writers /\ writer[c] \in WriterStates /\ c # Boot
  BY ActorsAssumption DEF Writers, WriterType
<1>2. PICK k \in Ids : k = writer[c].id
  BY <1>1 DEF WriterStates
<1>3. UNCHANGED <<queue, timers, worker, up, versions, live, copies, uploads>>
      /\ tasks' = Append(tasks, k)
  BY <1>2 DEF Submit, Submitted, guarded, disk, world, process, history
<1>4. \A d \in Clients \ {c} : writer'[d] = writer[d]
  BY DEF Submit, Writers, WriterType
<1>5. writer[c].at = "submit" /\ writer'[c].at = "idle"
  BY <1>1 DEF Submit, WriterType, Starting, IdleWriter
<1>6. /\ \A i \in Ids \ {k} : InTasks(i)' => InTasks(i)
      /\ \A i \in Ids \ {k} : Once(i) => Once(i)'
      /\ ~InTasks(k) => Once(k)'
  BY <1>3, AddTask
<1>7. \A i \in Ids : OnIt(i)' = OnIt(i)
  BY <1>3 DEF OnIt
<1>8. \A i \in Ids : SameData(i)
  BY <1>3, SameHolds
<1>9. \A i \in Ids : Submits(i)' => Submits(i)
  BY <1>4, <1>5 DEF Submits
<1>10. \A i \in Ids \ {k} : SameJob(i)
  BY <1>3, <1>6, <1>7, <1>9 DEF SameJob
<1>11. JobInv(k)'
  <2>1. JobInv(k)
    BY DEF TriesInv
  <2>2. Submits(k) /\ ~Submits(k)'
    BY <1>2, <1>4, <1>5 DEF Submits, OneHandlePerFile
  <2>3. Lone(k) => Lone(k)'
    BY <1>3, <1>6, <1>7, <2>2 DEF Lone, PoolType
  <2>4. \A w \in Workers : /\ Creates(w, k)' <=> Creates(w, k)
                           /\ Before(w)' <=> Before(w)
                           /\ Requests(w)' = Requests(w)
    BY <1>3, <1>7 DEF Creates, Before, Requests
  <2>5. Counted(k) => Counted(k)'
    <3>1. \A v \in Versions : Tried(k, v) => Tried(k, v)'
      BY <1>3, <1>7, <2>4 DEF Tried, OnIt
    <3> QED
      BY <1>3, <1>8, <3>1 DEF Counted, SameData
  <2> QED
    BY <1>3, <1>8, <2>1, <2>3, <2>4, <2>5 DEF JobInv, SameData
<1>12. ~Unmoved(c)' /\ ~Preparing(c)'
  BY <1>5 DEF Unmoved, Preparing
<1>13. \A v \in Versions : Holds(k, v)' => Holds(k, v)
  BY <1>8 DEF SameData
<1> QED
  BY <1>2, <1>3, <1>4, <1>5, <1>8, <1>10, <1>11, <1>12, <1>13, HandleFrame

(* A handle is opened, for a new file or one that is there.                *)
LEMMA OpenTries ==
  ASSUME Kept, NEW c \in Clients,
         Create(c) \/ \E i \in Existing \union live : Open(c, i)
  PROVE  TriesInv'
<1> USE DEF Kept, Parts
<1> DEFINE n == versions + 1
<1>1. versions \in Nat /\ n \in Versions
  BY BoundsAssumption DEF Create, Open, OpenHandle, HistoryType, Versions
<1>2. UNCHANGED <<queue, tasks, timers, worker, up, copies, uploads>> /\ versions' = n
  BY DEF Create, Open, OpenHandle, guarded, pool, world, process
<1>3. \A d \in Clients \ {c} : writer'[d] = writer[d]
  BY DEF Create, Open, OpenHandle, Writers, WriterType
<1>4. /\ writer'[c].at = "open" /\ writer'[c].entry.version = n
      /\ writer'[c].id \in Existing \union live'
      /\ writer'[c].entry.kind = "create" => writer'[c].id = <<"local", n>>
      /\ live \subseteq live' /\ live' \subseteq live \union {<<"local", n>>}
  BY <1>1 DEF Create, Open, OpenHandle, process, Writers, WriterType
<1>5. up # "booting"
  BY DEF Create, Open, OpenHandle
<1>6. \A i \in Ids : SameJob(i) /\ SameData(i)
  <2>1. \A d \in Clients : writer'[d].at = "submit" => writer'[d] = writer[d]
    BY <1>3, <1>4
  <2> QED
    BY <1>2, <2>1, OtherSteps, SameHolds
<1>7. \A i \in Ids : JobInv(i)' /\ (Untouched(i) => Untouched(i)')
  BY <1>6, JobFrame, UntouchedFrame DEF TriesInv
<1>8. IdInv'
  <2>1. \A v : v \in 1..versions => v \in 1..n
    BY <1>1
  <2>2. n \in 1..n
    BY <1>1
  <2>3. live' \subseteq {<<"local", v>> : v \in 1..n}
    BY <1>4, <2>1, <2>2 DEF TriesInv, IdInv
  <2> QED
    BY <1>2, <1>3, <1>4, <2>1, <2>2, <2>3 DEF TriesInv, IdInv
<1>9. IdleInv' /\ MovesVersionInv'
  BY <1>2, <1>3, <1>4, <1>5 DEF TriesInv, IdleInv, MovesVersionInv
<1>10. NewFileInv'
  <2>1. ASSUME NEW v \in Versions, v > versions PROVE Untouched(<<"local", v>>)'
    <3>1. <<"local", v>> \in Ids
      BY DEF Ids, New
    <3> QED
      BY <1>7, <2>1, <3>1 DEF TriesInv, NewFileInv
  <2>2. \A v \in Versions : v > n => v > versions
    BY <1>1 DEF Versions
  <2>3. ASSUME NEW d \in Clients, NEW i \in Ids, Preparing(d)',
               writer'[d].entry.kind = "create", writer'[d].id = i
        PROVE  Untouched(i)'
    <3>1. CASE d = c
      <4>1. PICK v \in Versions : v = n
        BY <1>1
      <4>2. i = <<"local", v>>
        BY <1>4, <2>3, <3>1, <4>1
      <4>3. v > versions
        BY <1>1, <4>1
      <4> QED
        BY <2>1, <4>2, <4>3
    <3>2. CASE d # c
      <4>1. writer'[d] = writer[d] /\ Preparing(d)
        BY <1>3, <2>3, <3>2 DEF Preparing
      <4> QED
        BY <1>7, <2>3, <4>1 DEF TriesInv, NewFileInv
    <3> QED
      BY <3>1, <3>2
  <2> QED
    BY <1>2, <2>1, <2>2, <2>3 DEF NewFileInv
<1>11. NewVersionInv'
  <2>1. \A v \in Versions : Unsent(v) => Unsent(v)'
    BY <1>2, <1>6 DEF Unsent, SameData
  <2>2. \A v \in Versions : v > n => v > versions
    BY <1>1 DEF Versions
  <2>3. \A d \in Clients \ {c} : Unmoved(d)' => Unmoved(d) /\ writer'[d] = writer[d]
    BY <1>3 DEF Unmoved
  <2>4. \A d \in Clients : Unmoved(d) => writer[d].entry.version # n
    BY <1>1, VersionsKnown DEF Unmoved
  <2>5. n > versions
    BY <1>1
  <2>6. ASSUME NEW d \in Clients, NEW v \in Versions, Unmoved(d)',
               writer'[d].entry.version = v
        PROVE  Unsent(v)'
    <3>1. CASE d = c
      BY <1>4, <2>1, <2>5, <2>6, <3>1 DEF TriesInv, NewVersionInv
    <3>2. CASE d # c
      BY <2>1, <2>3, <2>6, <3>2 DEF TriesInv, NewVersionInv
    <3> QED
      BY <3>1, <3>2
  <2>7. ASSUME NEW d \in Clients, NEW e \in Clients, Unmoved(d)', Unmoved(e)',
               writer'[d].entry.version = writer'[e].entry.version
        PROVE  d = e
    BY <1>4, <2>3, <2>4, <2>7 DEF TriesInv, NewVersionInv
  <2> QED
    BY <1>2, <2>1, <2>2, <2>6, <2>7 DEF TriesInv, NewVersionInv
<1>12. HomeInv'
  BY <1>6 DEF TriesInv, HomeInv, SameData
<1> QED
  BY <1>2, <1>7, <1>8, <1>9, <1>10, <1>11, <1>12 DEF TriesInv

(* The first start finds no jobs.                                          *)
LEMMA StillTries ==
  ASSUME Kept, ProcessQueue \/ UNCHANGED vars
  PROVE  TriesInv'
<1> USE DEF Kept, Parts
<1>1. /\ UNCHANGED <<queue, timers, worker, copies, uploads, live, versions>>
      /\ \A d \in Clients : writer'[d] = writer[d]
      /\ up' = "booting" => up = "booting"
  BY ActorsAssumption DEF ProcessQueue, vars, guarded, disk, pool, world,
     process, history, Writers, WriterType
<1>2. tasks' = tasks
  <2>1. CASE ProcessQueue
    <3>1. Pending = {}
      BY <2>1 DEF ProcessQueue, BootInv, TriesInv, IdleInv, Pending, NoJob
    <3>2. SetToSeq({}) \in Seq({})
      BY FS_EmptySet, SetToSeqLists
    <3>3. SetToSeq({}) = <<>>
      BY <3>2
    <3> QED
      BY <2>1, <3>1, <3>3 DEF ProcessQueue, PoolType
  <2>2. CASE UNCHANGED vars
    BY <2>2 DEF vars, pool
  <2> QED
    BY <2>1, <2>2
<1>3. \A i \in Ids : SameJob(i) /\ SameData(i)
  BY <1>1, <1>2, OtherSteps, SameHolds
<1>4. \A i \in Ids : JobInv(i)' /\ (Untouched(i) => Untouched(i)')
  BY <1>3, JobFrame, UntouchedFrame DEF TriesInv
<1>5. IdInv' /\ IdleInv' /\ MovesVersionInv'
  BY <1>1 DEF TriesInv, IdInv, IdleInv, MovesVersionInv
<1>6. NewFileInv'
  <2>1. \A v \in Versions : <<"local", v>> \in Ids
    BY DEF Ids, New
  <2> QED
    BY <1>1, <1>4, <2>1 DEF TriesInv, NewFileInv, Preparing
<1>7. NewVersionInv'
  <2>1. \A v \in Versions : Unsent(v) => Unsent(v)'
    BY <1>1, <1>3 DEF Unsent, SameData
  <2> QED
    BY <1>1, <2>1 DEF TriesInv, NewVersionInv, Unmoved
<1>8. HomeInv'
  BY <1>3 DEF TriesInv, HomeInv, SameData
<1> QED
  BY <1>1, <1>4, <1>5, <1>6, <1>7, <1>8 DEF TriesInv

LEMMA TriesStep ==
  ASSUME Parts, OpenInv, BootInv, SentInv, TriesInv, OneHandlePerFile,
         [Next]_vars, ~Crash
  PROVE  TriesInv'
<1>1. Kept
  BY DEF Kept
<1>2. ASSUME NEW c \in Clients, Use(c) PROVE TriesInv'
  BY <1>1, <1>2, OpenTries, BeforeMoveTries DEF Use
<1>3. ASSUME NEW c \in Writers, Enqueue(c) PROVE TriesInv'
  <2>1. c \in Clients
    BY <1>3 DEF Enqueue, RemoveOld, MoveNew, Record, Submit, BootInv, Writers
  <2> QED
    BY <1>1, <1>3, <2>1, BeforeMoveTries, MoveNewTries, RecordTries, SubmitTries
    DEF Enqueue
<1>4. ASSUME NEW w \in Workers, Execute(w) PROVE TriesInv'
  BY <1>1, <1>4, StartTries, CheckFileTries, ReadFileTries, SendTries,
     RemoveFileTries, PopJobTries, HandleFailureTries DEF Execute
<1>5. ASSUME NEW i \in Ids, Retry(i) PROVE TriesInv'
  BY <1>1, <1>5, RetryTries
<1>6. CASE Startup
  <2>1. ProcessQueue
    BY <1>6 DEF Startup, Load, Recover, BootInv
  <2> QED
    BY <1>1, <2>1, StillTries
<1>7. CASE UNCHANGED vars
  BY <1>1, <1>7, StillTries
<1> QED
  BY <1>2, <1>3, <1>4, <1>5, <1>6, <1>7 DEF Next

LEMMA TriesInit == Init => TriesInv
<1> SUFFICES ASSUME Init PROVE TriesInv
  OBVIOUS
<1> USE ConstantTypes, BoundsAssumption, ActorsAssumption DEF Init
<1>1. \A c \in Clients : writer[c].at = "idle"
  BY DEF Starting, IdleWriter, Writers
<1>2. \A i \in Ids, v \in Versions : ~Holds(i, v)
  BY DEF Holds, Absent, Versions, IdleWorker
<1>3. \A i \in Ids : Untouched(i)
  <2>1. \A i \in Ids : ~InTasks(i) /\ OnIt(i) = {} /\ ~Submits(i)
    BY <1>1 DEF InTasks, OnIt, IdleWorker, Submits
  <2> QED
    BY <1>2, <2>1 DEF Untouched
<1>4. \A v \in Versions : Unsent(v)
  BY <1>2 DEF Unsent
<1>5. \A i \in Ids : JobInv(i)
  BY <1>3 DEF Untouched, JobInv, Creates, NoJob
<1>6. \A v \in Versions : <<"local", v>> \in Ids
  BY DEF Ids, New
<1>7. IdInv /\ IdleInv /\ MovesVersionInv
  BY <1>1 DEF IdInv, IdleInv, MovesVersionInv
<1>8. NewFileInv /\ NewVersionInv
  BY <1>1, <1>3, <1>4, <1>6 DEF NewFileInv, NewVersionInv, Preparing, Unmoved
<1>9. HomeInv
  BY <1>2 DEF HomeInv
<1>10. \A v \in Contents : copies[v] <= Made(MaxRetries + 1)
  <2>1. MaxRetries + 1 \in Nat
    OBVIOUS
  <2>2. Made(MaxRetries + 1) \in Nat
    BY <2>1, MadeGrows
  <2> QED
    BY <2>2
<1> QED
  BY <1>5, <1>7, <1>8, <1>9, <1>10 DEF TriesInv

(* OneFilePerRequest: while the handles of each file follow each other,    *)
(* and the process has not died, a new file is made on Drive at most once  *)
(* per request of each try, although answers get lost, tenacity sends      *)
(* again, retries wait in timers, an update may replace the job, and any   *)
(* number of workers take tasks.                                           *)
THEOREM TriesBoundFiles == Spec /\ []OneHandlePerFile => []OneFilePerRequest
<1>1. Init => FirstTriesInv
  BY TriesInit DEF FirstTriesInv
<1>2. /\ IInv /\ FirstRunInv /\ FirstTriesInv /\ OneHandlePerFile
      /\ [Next]_vars
      => FirstTriesInv'
  BY FirstRun, TriesStep, TypeParts DEF IInv, Parts, FirstRunInv, FirstTriesInv
<1>3. FirstTriesInv => OneFilePerRequest
  BY DEF FirstTriesInv, TriesInv, OneFilePerRequest, Made
<1> QED
  BY <1>1, <1>2, <1>3, Inductive, FirstRunKept, PTL DEF Spec

(* OneFilePerRequest for one FUSE thread, whose handles follow each other      *)
THEOREM OneClientBoundsFiles ==
  ASSUME NEW c, Clients = {c}
  PROVE  Spec => []OneFilePerRequest
<1>1. OneHandlePerFile
  BY DEF OneHandlePerFile
<1> QED
  BY <1>1, TriesBoundFiles, PTL
============================================================================
