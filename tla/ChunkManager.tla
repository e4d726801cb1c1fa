---------------------------- MODULE ChunkManager ----------------------------
(***************************************************************************)
(* ChunkManager of src/infrastructure/cache/chunk_manager.py, for one      *)
(* file: FUSE threads read ranges of chunks from the memory cache, the     *)
(* disk cache or Drive; downloads are futures shared through               *)
(* active_downloads and run by the read and the prefetch pool; a release   *)
(* of the edited file empties the caches.                                  *)
(*                                                                         *)
(* A chunk's content is the version of the file it comes from.  The memory *)
(* cache may drop any chunk at any time (ChunkCache says when it does),    *)
(* and the LockManager is one mutex per chunk (RWMutex).                   *)
(***************************************************************************)
EXTENDS Integers, Sequences, FiniteSets

CONSTANTS
  Readers,      \* FUSE threads
  NumChunks,    \* chunks of the file: 0..NumChunks-1
  Pools,        \* Pools.read, Pools.prefetch: the number of workers
  Ahead,        \* how many chunks a read prefetches: 2 in the code
  Sequential,   \* what is_sequential may be found to be
  UseDisk,      \* ~disable_disk_cache
  MaxReads, MaxEdits, MaxEvictions

ASSUME ChunksAssumption == NumChunks \in Nat \ {0} /\ Ahead \in Nat \ {0}
ASSUME PoolsAssumption == Pools \in [{"read", "prefetch"} -> Nat \ {0}]
ASSUME SwitchAssumption == Sequential \subseteq BOOLEAN /\ UseDisk \in BOOLEAN
ASSUME BoundsAssumption ==
  MaxReads \in Nat /\ MaxEdits \in Nat /\ MaxEvictions \in Nat

Chunks == 0..(NumChunks - 1)
Targets == 0..(NumChunks - 1 + Ahead)  \* a prefetch may aim past the end of the file
None == -1
NoFuture == 0

VARIABLES
  futures,    \* the futures in the order of their submission
  active,     \* active_downloads[c]: its future, and whether a prefetch
  stuck,      \* who waits for active_downloads_lock while holding it
  reader,     \* where each FUSE thread is
  memory, disk,  \* the version of each cached chunk
  drive,      \* the version of the file on Drive
  edit,       \* release of an edit: none; then it has enqueued the file,
              \* emptied the memory cache ("memory"), and the disk cache
  pending,    \* the edited file is in the upload queue
  reads, evictions,  \* how many there were
  calls,      \* history: Drive calls for a chunk that succeeded;
  lost,       \*   how often the chunk was dropped with no copy on disk;
  crossed     \*   chunks whose old content got past the last edit

registry == <<active, stuck>>
cache == <<memory, disk>>
file == <<drive, edit, pending>>
history == <<reads, evictions, calls, lost, crossed>>
vars == <<futures, registry, reader, cache, file, history>>

NoEntry == [future |-> NoFuture, prefetch |-> FALSE]
Idle == [at |-> "idle", chunk |-> 0, last |-> 0, target |-> 0,
         future |-> NoFuture, data |-> None]

Init ==
  /\ futures = <<>>
  /\ active = [c \in Targets |-> NoEntry]
  /\ stuck = {}
  /\ reader = [r \in Readers |-> Idle]
  /\ memory = [c \in Chunks |-> None] /\ disk = [c \in Chunks |-> None]
  /\ drive = 0 /\ edit = "none" /\ pending = FALSE
  /\ reads = 0 /\ evictions = 0
  /\ calls = [c \in Chunks |-> 0] /\ lost = [c \in Chunks |-> 0]
  /\ crossed = {}

LockFree == stuck = {}      \* active_downloads_lock

(* A task: pending, cancelled; start, memory, disk, fill, call, put, write *)
(* in download_chunk_from_drive_api, locked from "memory" on; result: it   *)
(* returned or raised; pop: its done callback; over.                       *)
Locked(f) == futures[f].at \in {"memory", "disk", "fill", "call", "put", "write"}
Done(f) == futures[f].at \in {"cancelled", "pop", "over"}
Running(f) == futures[f].at \notin {"pending", "cancelled", "over"}
HasLock(c) == \E f \in DOMAIN futures : futures[f].chunk = c /\ Locked(f)

(* An edit that has emptied the memory cache, or both while Drive still    *)
(* has the old content: what is put in a cache now may stay when it is     *)
(* over, as may what somebody has in hand then.                            *)
Late == edit = "memory" \/ (edit = "none" /\ pending)
Crossing(c) == crossed' = IF Late THEN crossed \union {c} ELSE crossed
InHand(c) ==
  \/ \E f \in DOMAIN futures :
       futures[f].chunk = c /\ futures[f].at \in {"fill", "put", "write"}
  \/ \E r \in Readers : reader[r].chunk = c /\ reader[r].at = "fill"

-----------------------------------------------------------------------------
(* read_content_range_with_caching                                         *)

(* Reads of a file whose upload is pending are served from the queued file *)
Begin(r, first, last, sequential) ==
  /\ reader[r].at = "idle" /\ reads < MaxReads /\ ~pending
  /\ first <= last
  /\ reads' = reads + 1
  /\ reader' = [reader EXCEPT ![r] =
       [at |-> IF sequential THEN "aim" ELSE "lookup", chunk |-> first,
        last |-> last, target |-> last + 1, future |-> NoFuture, data |-> None]]
  /\ UNCHANGED <<futures, registry, cache, file, evictions, calls, lost, crossed>>

Goto(r, at) == reader' = [reader EXCEPT ![r].at = at]

(* end_chunk + 1 .. end_chunk + Ahead, then the chunks themselves          *)
NextTarget(r) ==
  reader' = [reader EXCEPT ![r].target = @ + 1,
               ![r].at = IF reader[r].target < reader[r].last + Ahead
                           THEN "aim" ELSE "lookup"]

(* _prefetch: three looks, at three moments                                *)
Aim(r) ==
  /\ reader[r].at = "aim"
  /\ IF HasLock(reader[r].target) THEN NextTarget(r) ELSE Goto(r, "aimMemory")
  /\ UNCHANGED <<futures, registry, cache, file, history>>

Cached(where, c) == c \in Chunks /\ where[c] # None

AimMemory(r) ==
  /\ reader[r].at = "aimMemory"
  /\ IF Cached(memory, reader[r].target) THEN NextTarget(r)
                                         ELSE Goto(r, "aimDisk")
  /\ UNCHANGED <<futures, registry, cache, file, history>>

AimDisk(r) ==
  /\ reader[r].at = "aimDisk"
  /\ IF Cached(disk, reader[r].target) THEN NextTarget(r)
                                       ELSE Goto(r, "prefetch")
  /\ UNCHANGED <<futures, registry, cache, file, history>>

(* The chunk at hand is there: on to the next one, or return the bytes.    *)
NextChunk(h) == [h EXCEPT !.chunk = @ + 1, !.at = "lookup",
                          !.future = NoFuture, !.data = None]
DeliverTooFar(r) ==
  reader' = [reader EXCEPT ![r] = IF reader[r].chunk > reader[r].last
                                    THEN Idle ELSE NextChunk(reader[r])]
Deliver(r) ==
  reader' = [reader EXCEPT ![r] = IF reader[r].chunk = reader[r].last
                                    THEN Idle ELSE NextChunk(reader[r])]

Lookup(r) ==
  /\ reader[r].at = "lookup"
  /\ IF memory[reader[r].chunk] # None THEN Deliver(r) ELSE Goto(r, "lookupDisk")
  /\ UNCHANGED <<futures, registry, cache, file, history>>

LookupDisk(r) ==
  LET found == IF UseDisk THEN disk[reader[r].chunk] ELSE None
  IN /\ reader[r].at = "lookupDisk"
     /\ IF found = None THEN Goto(r, "fetch")
        ELSE reader' = [reader EXCEPT ![r].at = "fill", ![r].data = found]
     /\ UNCHANGED <<futures, registry, cache, file, history>>

Fill(r) ==
  /\ reader[r].at = "fill"
  /\ memory' = [memory EXCEPT ![reader[r].chunk] = reader[r].data]
  /\ Crossing(reader[r].chunk)
  /\ Deliver(r)
  /\ UNCHANGED <<futures, registry, disk, file, reads, evictions, calls, lost>>

-----------------------------------------------------------------------------
(* schedule_or_get_chunk_download_task, which holds active_downloads_lock  *)
(* but for its last line, add_done_callback.                               *)

Task(c, prefetch) ==
  [chunk |-> c, prefetch |-> prefetch, at |-> "pending", data |-> None,
   failed |-> FALSE, callback |-> FALSE]
EntryAlwaysPrefetch(f, prefetch) == [future |-> f, prefetch |-> TRUE]
Entry(f, prefetch) == [future |-> f, prefetch |-> prefetch]

Wanted(r) == IF reader[r].at = "prefetch" THEN reader[r].target
                                          ELSE reader[r].chunk
IsPrefetch(r) == reader[r].at = "prefetch"

ScheduleNew(r) ==
  LET c == Wanted(r)
      f == Len(futures) + 1
  IN /\ reader[r].at \in {"prefetch", "fetch"} /\ LockFree
     /\ active[c] = NoEntry
     /\ futures' = Append(futures, Task(c, IsPrefetch(r)))
     /\ active' = [active EXCEPT ![c] = Entry(f, IsPrefetch(r))]
     /\ reader' = [reader EXCEPT ![r].future = f,
                     ![r].at = IF IsPrefetch(r) THEN "prefetchCallback"
                                                ELSE "callback"]
     /\ UNCHANGED <<stuck, cache, file, history>>

Promotes(r) == ~IsPrefetch(r) /\ active[Wanted(r)].prefetch
Cancellable(f) == futures[f].at = "pending"

Share(r) ==
  LET f == active[Wanted(r)].future
  IN /\ reader[r].at \in {"prefetch", "fetch"} /\ LockFree
     /\ f # NoFuture
     /\ Promotes(r) => ~Cancellable(f)
     /\ \/ /\ IsPrefetch(r)       \* goes on without the future
           /\ NextTarget(r)
        \/ /\ ~IsPrefetch(r)
           /\ reader' = [reader EXCEPT ![r].future = f, ![r].at = "wait"]
     /\ UNCHANGED <<futures, registry, cache, file, history>>

(* future.cancel() runs the callbacks of the future in the calling thread, *)
(* which holds the lock that _remove_future asks for.                      *)
PromoteStuck(r) ==
  LET f == active[Wanted(r)].future
  IN /\ reader[r].at = "fetch" /\ LockFree
     /\ f # NoFuture /\ Promotes(r) /\ Cancellable(f) /\ futures[f].callback
     /\ futures' = [futures EXCEPT ![f].at = "cancelled"]
     /\ stuck' = {r}
     /\ Goto(r, "stuck")
     /\ UNCHANGED <<active, cache, file, history>>

(* Before the callback was added the promotion goes through: the download  *)
(* is submitted to the read pool, and then once more below.                *)
Promote(r) ==
  LET c == Wanted(r)
      f == active[c].future
      f2 == Len(futures) + 2
  IN /\ reader[r].at = "fetch" /\ LockFree
     /\ f # NoFuture /\ Promotes(r) /\ Cancellable(f) /\ ~futures[f].callback
     /\ futures' = [futures EXCEPT ![f].at = "cancelled"]
                     \o <<Task(c, FALSE), Task(c, FALSE)>>
     /\ active' = [active EXCEPT ![c] = Entry(f2, FALSE)]
     /\ reader' = [reader EXCEPT ![r].future = f2, ![r].at = "callback"]
     /\ UNCHANGED <<stuck, cache, file, history>>

(* add_done_callback: at once if the future is done, else remembered.      *)
AddCallbackIfPending(r) ==
  LET f == reader[r].future
  IN /\ reader[r].at \in {"callback", "prefetchCallback"}
     /\ futures' = [futures EXCEPT ![f].callback = ~Done(f)]
     /\ IF reader[r].at = "callback" THEN Goto(r, "wait") ELSE NextTarget(r)
     /\ UNCHANGED <<registry, cache, file, history>>
AddCallback(r) ==
  LET f == reader[r].future
  IN /\ reader[r].at \in {"callback", "prefetchCallback"}
     /\ Done(f) => LockFree
     /\ active' = IF Done(f) THEN [active EXCEPT ![futures[f].chunk] = NoEntry]
                             ELSE active
     /\ futures' = IF Done(f) THEN futures
                              ELSE [futures EXCEPT ![f].callback = TRUE]
     /\ IF reader[r].at = "callback" THEN Goto(r, "wait") ELSE NextTarget(r)
     /\ UNCHANGED <<stuck, cache, file, history>>

(* future.result(): the bytes, or the exception of the download            *)
Result(r) ==
  LET f == reader[r].future
  IN /\ reader[r].at = "wait" /\ Done(f)
     /\ IF futures[f].failed THEN reader' = [reader EXCEPT ![r] = Idle]
                             ELSE Deliver(r)
     /\ UNCHANGED <<futures, registry, cache, file, history>>

-----------------------------------------------------------------------------
(* The pools and download_chunk_from_drive_api                             *)

PoolOf(f) == IF futures[f].prefetch THEN "prefetch" ELSE "read"
Busy(pool) == {f \in DOMAIN futures : PoolOf(f) = pool /\ Running(f)}
Queued(pool) == {f \in DOMAIN futures : PoolOf(f) = pool /\ futures[f].at = "pending"}

At(f, at) == futures' = [futures EXCEPT ![f].at = at]

(* A chunk past the end of the file is empty, and not cached.              *)
Run(f) ==
  LET pool == PoolOf(f)
  IN /\ f \in Queued(pool) /\ \A g \in Queued(pool) : f <= g
     /\ Cardinality(Busy(pool)) < Pools[pool]
     /\ At(f, IF futures[f].chunk \in Chunks THEN "start" ELSE "result")
     /\ UNCHANGED <<registry, reader, cache, file, history>>

(* with lock_manager.exclusive_lock(chunk_key)                             *)
Lock(f) ==
  /\ futures[f].at = "start" /\ ~HasLock(futures[f].chunk)
  /\ At(f, "memory")
  /\ UNCHANGED <<registry, reader, cache, file, history>>

(* Somebody else may have downloaded the chunk by now.                     *)
CheckMemoryNot(f) ==
  /\ futures[f].at = "memory"
  /\ At(f, "call")
  /\ UNCHANGED <<registry, reader, cache, file, history>>
CheckMemory(f) ==
  /\ futures[f].at = "memory"
  /\ At(f, IF memory[futures[f].chunk] # None THEN "result" ELSE "disk")
  /\ UNCHANGED <<registry, reader, cache, file, history>>

CheckDisk(f) ==
  LET found == IF UseDisk THEN disk[futures[f].chunk] ELSE None
  IN /\ futures[f].at = "disk"
     /\ futures' = [futures EXCEPT ![f].data = found,
                      ![f].at = IF found = None THEN "call" ELSE "fill"]
     /\ UNCHANGED <<registry, reader, cache, file, history>>

FillMemory(f) ==
  /\ futures[f].at = "fill"
  /\ memory' = [memory EXCEPT ![futures[f].chunk] = futures[f].data]
  /\ Crossing(futures[f].chunk)
  /\ At(f, "result")
  /\ UNCHANGED <<registry, reader, disk, file, reads, evictions, calls, lost>>

Call(f) ==
  /\ futures[f].at = "call"
  /\ \/ /\ futures' = [futures EXCEPT ![f].at = "put", ![f].data = drive]
        /\ calls' = [calls EXCEPT ![futures[f].chunk] = @ + 1]
     \/ /\ futures' = [futures EXCEPT ![f].at = "result", ![f].failed = TRUE]
        /\ UNCHANGED calls
  /\ UNCHANGED <<registry, reader, cache, file, reads, evictions, lost, crossed>>

Put(f) ==
  /\ futures[f].at = "put"
  /\ memory' = [memory EXCEPT ![futures[f].chunk] = futures[f].data]
  /\ Crossing(futures[f].chunk)
  /\ At(f, "write")
  /\ UNCHANGED <<registry, reader, disk, file, reads, evictions, calls, lost>>

(* write_chunk_to_disk_cache: a write that fails is logged and forgotten,  *)
(* a directory that cannot be made fails the download.                     *)
WriteDisk(f) ==
  /\ futures[f].at = "write"
  /\ \/ /\ UseDisk
        /\ disk' = [disk EXCEPT ![futures[f].chunk] = futures[f].data]
        /\ Crossing(futures[f].chunk)
        /\ At(f, "result")
     \/ \E raises \in {FALSE, UseDisk} :
          /\ futures' = [futures EXCEPT ![f].at = "result", ![f].failed = raises]
          /\ UNCHANGED <<disk, crossed>>
  /\ UNCHANGED <<registry, reader, memory, file, reads, evictions, calls, lost>>

(* set_result or set_exception, then _remove_future by the worker          *)
FinishUnlessFailed(f) ==
  /\ futures[f].at = "result" /\ ~futures[f].failed
  /\ At(f, IF futures[f].callback THEN "pop" ELSE "over")
  /\ UNCHANGED <<registry, reader, cache, file, history>>
Finish(f) ==
  /\ futures[f].at = "result"
  /\ At(f, IF futures[f].callback THEN "pop" ELSE "over")
  /\ UNCHANGED <<registry, reader, cache, file, history>>

(* Whatever future is registered for the chunk by now is popped.           *)
RemoveFuture(f) ==
  /\ futures[f].at = "pop" /\ LockFree
  /\ active' = [active EXCEPT ![futures[f].chunk] = NoEntry]
  /\ At(f, "over")
  /\ UNCHANGED <<stuck, reader, cache, file, history>>

-----------------------------------------------------------------------------
(* Eviction, for whatever is put of this file or another; and the release  *)
(* of an edit                                                              *)

(* A chunk that is in the memory cache only leaves with its one copy.      *)
Losing(gone) == lost' = [c \in Chunks |-> IF c \in gone THEN lost[c] + 1 ELSE lost[c]]
OnlyInMemory == {c \in Chunks : memory[c] # None /\ disk[c] = None}

Evict(c) ==
  /\ memory[c] # None /\ evictions < MaxEvictions
  /\ evictions' = evictions + 1
  /\ memory' = [memory EXCEPT ![c] = None]
  /\ Losing(OnlyInMemory \intersect {c})
  /\ UNCHANGED <<futures, registry, reader, disk, file, reads, calls, crossed>>

EnqueueEdit ==
  /\ edit = "none" /\ ~pending /\ drive < MaxEdits
  /\ edit' = "enqueued" /\ pending' = TRUE
  /\ UNCHANGED <<futures, registry, reader, cache, drive, history>>

(* invalidate_file_chunks_cache: the memory first, then the directory      *)
InvalidateMemory ==
  /\ edit = "enqueued" /\ edit' = "memory"
  /\ memory' = [c \in Chunks |-> None]
  /\ Losing(OnlyInMemory)
  /\ crossed' = {}
  /\ UNCHANGED <<futures, registry, reader, disk, drive, pending, reads,
                 evictions, calls>>

InvalidateDiskNot ==
  /\ edit = "memory" /\ edit' = "none"
  /\ crossed' = crossed \union {c \in Chunks : InHand(c)}
  /\ UNCHANGED <<futures, registry, reader, cache, drive, pending, reads,
                 evictions, calls, lost>>

(* A rmtree that fails is logged, and leaves what it did not get to.       *)
InvalidateDisk ==
  /\ edit = "memory" /\ edit' = "none"
  /\ \E kept \in SUBSET {c \in Chunks : disk[c] # None} :
       /\ disk' = [c \in Chunks |-> IF c \in kept THEN disk[c] ELSE None]
       /\ Losing({c \in Chunks \ kept : disk[c] # None})
       /\ crossed' = crossed \union kept \union {c \in Chunks : InHand(c)}
  /\ UNCHANGED <<futures, registry, reader, memory, drive, pending, reads,
                 evictions, calls>>

(* The upload may end before or after the release does.                    *)
Uploaded ==
  /\ pending /\ pending' = FALSE
  /\ drive' = drive + 1
  /\ crossed' = crossed \union {c \in Chunks : InHand(c)}
  /\ UNCHANGED <<futures, registry, reader, cache, edit, reads, evictions,
                 calls, lost>>

-----------------------------------------------------------------------------
Schedule(r) ==
  ScheduleNew(r) \/ Share(r) \/ PromoteStuck(r) \/ Promote(r) \/ AddCallback(r)

Read(r) ==
  \/ Aim(r) \/ AimMemory(r) \/ AimDisk(r)
  \/ Lookup(r) \/ LookupDisk(r) \/ Fill(r) \/ Schedule(r) \/ Result(r)

Download(f) ==
  \/ Run(f) \/ Lock(f) \/ CheckMemory(f) \/ CheckDisk(f) \/ FillMemory(f)
  \/ Call(f) \/ Put(f) \/ WriteDisk(f) \/ Finish(f) \/ RemoveFuture(f)

Release == EnqueueEdit \/ InvalidateMemory \/ InvalidateDisk \/ Uploaded

Next ==
  \/ \E r \in Readers : Read(r) \/ \E first, last \in Chunks, s \in Sequential :
                                      Begin(r, first, last, s)
  \/ \E f \in DOMAIN futures : Download(f)
  \/ \E c \in Chunks : Evict(c)
  \/ Release

Spec == Init /\ [][Next]_vars

(* Every thread runs; the pools take their work in order.                  *)
MaxFutures == 2 * MaxReads * (NumChunks + Ahead)
Fairness ==
  /\ \A r \in Readers : WF_vars(Read(r))
  /\ \A n \in 1..MaxFutures : WF_vars(n \in DOMAIN futures /\ Download(n))
FairSpec == Spec /\ Fairness

-----------------------------------------------------------------------------
(* Properties                                                              *)

TypeOK ==
  /\ futures \in Seq([chunk : Targets, prefetch : BOOLEAN, failed : BOOLEAN,
                       callback : BOOLEAN, data : None..MaxEdits,
                       at : {"pending", "cancelled", "start", "memory", "disk",
                             "fill", "call", "put", "write", "result", "pop",
                             "over"}])
  /\ active \in [Targets -> [future : 0..Len(futures), prefetch : BOOLEAN]]
  /\ stuck \subseteq Readers
  /\ reader \in [Readers ->
       [at : {"idle", "aim", "aimMemory", "aimDisk", "prefetch",
              "prefetchCallback", "lookup", "lookupDisk", "fill", "fetch",
              "callback", "wait", "stuck"},
        chunk : Chunks, last : Chunks, target : 0..(NumChunks + Ahead),
        future : 0..Len(futures), data : None..MaxEdits]]
  /\ memory \in [Chunks -> None..MaxEdits] /\ disk \in [Chunks -> None..MaxEdits]
  /\ drive \in 0..MaxEdits /\ edit \in {"none", "enqueued", "memory"}
  /\ pending \in BOOLEAN /\ crossed \subseteq Chunks
  /\ reads \in 0..MaxReads /\ evictions \in 0..MaxEvictions
  /\ calls \in [Chunks -> Nat] /\ lost \in [Chunks -> Nat]

(* A read never waits for a future that somebody cancelled: only a         *)
(* prefetch that nobody waits for is ever promoted.                        *)
WaitsForLiveFuture ==
  \A r \in Readers :
    reader[r].at \in {"callback", "wait"}
      => futures[reader[r].future].at # "cancelled"

(* Drive is called for a chunk once, and once more for each time that the  *)
(* last copy was evicted (its write failed, or was not over), or that an   *)
(* edit removed it: reads and prefetches that ask for it together share    *)
(* its download, or find it in a cache when their turn comes.              *)
CallsAccounted == \A c \in Chunks : calls[c] <= 1 + lost[c]

(* A future that is done does not stay in active_downloads, where it would *)
(* answer every later read: somebody is about to pop it.                   *)
NoLeftover ==
  \A c \in Targets :
    LET f == active[c].future
    IN f # NoFuture /\ Done(f) =>
         \/ \E g \in DOMAIN futures : futures[g].chunk = c /\ futures[g].at = "pop"
         \/ \E r \in Readers :
              /\ reader[r].at \in {"callback", "prefetchCallback"}
              /\ futures[reader[r].future].chunk = c
         \/ ~LockFree

(* When an edit is released and uploaded, in whichever order, no cache has *)
(* a chunk of the old content, but for the chunks that somebody was about  *)
(* to put there just then and those that a failed rmtree left behind; and  *)
(* of these, the next edit.                                                *)
FreshAfterEdit ==
  edit = "none" /\ ~pending =>
    \A c \in Chunks \ crossed :
      memory[c] \in {None, drive} /\ disk[c] \in {None, drive}

(* No thread asks for a lock it holds (active_downloads_lock is not        *)
(* reentrant).                                                             *)
NoSelfDeadlock == stuck = {}

(* Every read returns, if no promotion catches its own lock.               *)
ReadsReturn ==
  []NoSelfDeadlock =>
    \A r \in Readers : reader[r].at # "idle" ~> reader[r].at = "idle"
==============================================================================
