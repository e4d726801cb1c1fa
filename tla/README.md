# Fuse+Drive in TLA+

A verification development for the file system in `src/`: a FUSE mount of a
Google Drive folder with a lock manager of its own, a chunk cache with
prefetching, and a persistent upload queue. Paths below are relative to
`src/src/`.

## 1. The system

| Component | State it keeps | Operations | Talks to |
|---|---|---|---|
| `LockManager`, `RWLock` (`infrastructure/concurrency/lock_manager.py`) | a table of `RWLock` objects by key with reference counts; who holds what (`_allocations`); who waits for what (`_waiting`); per object readers, writers, waiting writers | `shared_lock`, `exclusive_lock`, `has_lock`, cycle check | called by chunk downloads, write handles, stats |
| `ChunkManager` (`infrastructure/cache/chunk_manager.py`) | `active_downloads` (a future per chunk), recent chunks, disk cache | read a range, prefetch, schedule or share a download, promote a prefetch, invalidate a file | lock manager, dispatcher, Drive, memory cache; called by FUSE reads and by `release` |
| `InMemoryChunkEvictionCache` (same file) | ordered chunks, byte count, prefetch marks | `get`, `put`, `invalidate`, eviction | `ChunkManager`, under `mem_cache_lock` |
| `UploadManager` (`infrastructure/drive/upload_manager.py`) | `queue`, `queue.json`, the upload directory, retry timers | enqueue, execute a job, remove it, handle a failure, load, recover the journal | dispatcher, Drive, circuit breaker; called by `release` and at start |
| `FuseOps` handles (`fuse/operations/fuse_ops.py`) | open files, journal files, files kept local | `open`, `create`, `read`, `write`, `truncate`, `release` | chunk manager, upload manager, lock manager |
| `FuseOps` namespace (same file) | none of its own | `getattr`, `readdir`, `mkdir`, `rename`, `unlink`, `rmdir` | metadata cache, Drive |
| `MemoryMetadataCache` (`infrastructure/cache/memory_cache.py`) | three maps whose entries expire, one that does not | map, set, get, invalidate, mark loaded | calls back into `ChunkManager` |
| `RequestDispatcher` (`infrastructure/concurrency/dispatcher.py`) | five thread pools | `submit`, `shutdown` | runs downloads and uploads |
| Drive client, circuit breaker (`infrastructure/drive/`) | the quota flag | API calls with retries | everything |
| `StatsVFS` (`fuse/virtual_files/stats_vfs.py`) | none | virtual files under `/stats`; `trigger_deadlock` | lock manager |
| metrics, logging, `main.py`, contracts | counters | – | – |

FUSE calls the operations from several threads. What is hard: the
interleavings of those threads with the pool workers and the retry timers; the
gap between a `Future`'s life and the table that shares it; locks whose objects
come and go; a crash at any step of moving a file from the journal to the upload
queue; Drive calls that fail, or succeed and report failure. `PROJECT.json`
lists each such hazard at its line, with the properties that cover it or the
reason why none does yet.

What makes each component correct:

- *Lock manager*: one reader-writer mutex per key; no wakeup lost; a cycle of
  waiting threads is refused, and nothing else is.
- *Upload manager*: what was released is uploaded, or is on disk where the next
  start finds it, or has been given up; no pending job is forgotten, whatever
  queue a restart finds; Drive receives nothing that no handle wrote, and a new
  file no more often than it was asked for.
- *Chunk manager*: every read returns; a chunk is downloaded again only when its
  last copy is gone; no finished download stays registered; an edit leaves no old
  content but what crossed it.
- *Memory cache*: exact byte count, both limits, least recently used first.
- *Write handles*: a handle holds the content of the file when it was first
  used, once, with every later write and truncate where it was meant to go; the
  size shown is that of the content, but for times that can be told; every call
  returns.
- *Namespace*: what the metadata cache says of a path may be wrong for a bounded
  time only; a path that is found can be described and is listed.

## 2. The modules

| Module | Models | State and actions |
|---|---|---|
| `RWMutex` | what callers rely on | per key, the blocks that hold it shared or exclusively |
| `LockManager` | `lock_manager.py` | a *frame* `<<t, i>>` is the i-th nested `with` of thread `t`; `pc` says between which two critical sections it is. `GetLock` is `_get_lock`, `EnterOrRefuse` and `Refuse` the check and its exception, `AcquireRead`/`AcquireWrite` one turn of the `while` around `Condition.wait`, `Register`/`Unregister` the updates of `_allocations`, `ReleaseRead`/`ReleaseWrite` with their `notify_all`, `Unref` the `finally`. A new object is one nothing refers to, as the allocator gives |
| `LockManagerProofs`, `StatsVFSProofs`, `UploadManagerProofs`, `ChunkManagerProofs`, `ChunkCacheProofs`, `FuseHandlesProofs`, `NamespaceProofs` | – | the theorems of section 4 |
| `FiniteSums` | – | lemmas for those: sums over a finite set, folds, greatest elements |
| `StatsVFS` | the read of `/stats/trigger_deadlock` | composes `LockManager` with the two threads that each read starts and joins |
| `UploadManager` | `upload_manager.py`, and `open`, `create`, `write`, `release` of `FuseOps` | FUSE threads, the thread of `__init__`, pool workers, timers. Each file operation outside a lock, and each one of an enqueue or removal between which a crash matters, is a step; the steps of one critical section are tied together by `lockedBy`. Each request of an upload is a step: `_execute_with_retry` makes up to `Attempts` of one call (`SentAgain`). `Persist` saves `queue.json` or fails to, `Load` reads it or finds it unreadable, and `Recovered` leaves creates in the journal that cannot be decoded |
| `ChunkManager` | `ChunkManager`, the pools and `concurrent.futures` as used | FUSE threads, futures as records with the place where their task is, `active`, both caches, an edit's `release` and its upload. `WriteDisk` may fail, logged or not, and `InvalidateDisk` may leave any chunks behind |
| `ChunkCache` | `InMemoryChunkEvictionCache` | one action per call |
| `FuseHandles` | `open`, `create`, `read`, `write`, `truncate`, `release` and `_ensure_downloaded` of `FuseOps` | contents are sequences of cells. A call is a `thread` on its way through `Lock` or `LockFd`, the steps of `_ensure_downloaded` (`NoBase`, `Download`, `Fetch`, `Fill`, `FetchFails`), `Seek` and `Transfer`; `RecordSize` and `Enqueue` are the two halves of `release`. The metadata entry (its size) expires at any time. A listing is answered by Drive (`List`) and stored later (`Store`). A worker takes the job (`StartUpload`), sends what it took (`Send`), and pops whichever job is there by then (`RemoveJob`) or leaves it (`UploadFails`) |
| `MetadataCache` | `MemoryMetadataCache` | one operator per call, each a critical section of `_lock`. An entry is the time it has left; `Pass` is a unit of time |
| `Namespace` | `resolve_path_to_drive_node_id`, `_load_children`, `getattr`, `readdir`, `create`, `mkdir`, `rename`, `unlink`, `rmdir` of `FuseOps` | composes `MetadataCache` with threads and a Drive that others change (`RemoteAdd`, `RemoteDelete`). `Up`, `Check`, `Again` are the recursion of `resolve`; `List`, `MapItem`, `SetItem`, `Mark` one `_load_children`; then `Make`, `Delete`, `Move` or `Describe`, and what the call invalidates |
| `MC…` | – | the instances for TLC |

Abstractions. Contents are version numbers, one per write handle, and chunk
contents are the version of the file they come from; names, paths and bytes are
left out. A file opened with `O_TRUNC` behaves as opened and then written. The
requests that tenacity makes of an upload are steps of their own; those of other
Drive calls are part of the outcome of the call. An `os.remove` of an upload file
that fails is left out: the file is then found by nobody. `ChunkManager` stands
for one file: no step of the code relates the chunks of two files but the shared
memory cache, which may drop any chunk at any time (`Evict`; `ChunkCache` has the
rule). It uses the lock manager as one mutex per chunk, which `LockManager` is
proved to implement.

## 3. The runs

| Run | Instance | Shows |
|---|---|---|
| `locks_shared` | 3 threads, 1 key, 2 objects, one block deep in each mode and nested | mutual exclusion, objects in use, wakeups, and `ImplementsMutex`: the manager refines `RWMutex` |
| `stats_reads` | 2 concurrent reads, 4 threads, 2 locks, exclusive blocks nested in opposite orders | types; no deadlock; a refusal only in the face of one; every read is answered. Exclusive blocks are all the program uses |
| `uploads` | 1 client, 2 workers, 2 handles, one existing file, 2 requests per call that succeed, lose their answer or exceed the quota, all faults of the disk, 1 crash | queued data stays on disk; no stranded job; jobs settle, those included that an outdated `queue.json` brings back; only released versions reach Drive; a create makes one file per request at most |
| `uploads_reenqueue` | 1 client, 2 handles on one file | *violation* of read-after-write: the end of an upload pops the next job |
| `uploads_crash` | 1 handle, 1 crash | *violation*: a released file is in neither the journal nor the queue |
| `chunks` | 2 readers, 2 chunks and one prefetch past the end, one worker per pool | no wait for a cancelled future, nothing left in `active_downloads`, one call per chunk |
| `chunk_reads` | 2 readers, 1 chunk without prefetch, 2 edits, 1 eviction | reads return; one call per chunk and loss of its last copy; an edit leaves no old chunk but those that crossed it, and of these the next one none |
| `chunks_promotion` | 1 reader, 2 reads | *violation*: `cancel()` under `active_downloads_lock` runs a callback that takes it |
| `chunk_cache` | 3 chunks of 2 files, sizes 1, 2, 4, limits 2 chunks and 3 bytes, 6 calls | byte count, limits, marks, order of eviction |
| `handles` | 2 threads, 2 handles, 2 calls, 1 upload worker, listings; a file of two cells, an empty one, or none yet | contents exact, calls in place, size of the content, calls return |
| `handles_created` | 1 thread, 2 handles, 2 calls | *violation*: a file created, closed and opened again is edited from nothing |
| `namespace` | 2 threads, 2 directories with one name each, 2 calls or remote changes, entries live 2 units, a call takes 1 | stale paths and hidden files are bounded in time; what is found is described and listed |

The bounds are named constants (`MaxDepth`, `MaxVersions`, `MaxTime`,
`MaxRetries`, `MaxCrashes`, `MaxReads`, `MaxEdits`, `MaxEvictions`, `MaxCalls`,
`MaxHandles`, `Attempts`; `Slow` of the next paragraphs is an assumption).
They are the least at which the case of interest occurs: two versions of one
file for a replaced job, two seconds of the clock so that two upload files have
one name or two, one retry before giving up, two requests per call so that one is
sent again (5 in the code), one worker per pool so that a prefetch can be queued
while another runs. `uploads` leaves out the outcome `error`: `late` takes the
same steps and has an effect besides, and `SendError` happens to the updates of
ids that Drive does not know. Two things keep the state space small and change no
property: after the last crash no save fails, as nobody reads `queue.json` again,
and a crash forgets how many files of a version were made, as
`OneFilePerRequest` is about the time before it. `handles` was also checked with
three calls, with two upload workers, and with calls at two offsets. Symmetry is
used for threads, keys and objects, and only in runs without liveness.

`RefusedForCause` and `NoDeadlock` are about the code's own notion of a wait:
`WouldDeadlock` looks at who really holds an `RWLock`, not at `_allocations`.
`FreshAfterEdit` says exactly which chunks may be old after an edit: those in
`crossed`, which somebody put, or had in hand, after the memory cache was emptied
and before the edit was over, or which `rmtree` left behind. Any other chunk is
new, and `InvalidateMemory` of the next edit empties `crossed`, so that no copy
survives two edits unless it crosses both. Nothing in the code keeps reads away
from an edit, so there is no more to claim. `CallsAccounted` holds the number of
Drive calls of a chunk against the number of times its last copy went (`lost`):
a failed write to disk is not one yet, its eviction from memory is.
`ReadsReturn` assumes that no promotion has caught its own lock, which is
`chunks_promotion`; its run has one chunk and no prefetch, so that nothing is
promoted there, and with two readers on one worker a download can wait behind
another. Three threads in a cycle of three locks are beyond `stats_reads`.

`OnlyReleasedSent` and `QueuedDataPresent` are stated for runs without a crash:
after one, an unused journal file is uploaded as if it were an edit, and a job
may name a file that is gone. With one client a handle is released before the
next one is opened, while the job of the first may be anywhere in the pool. With
two clients the safety properties hold as well (4.6 million states, too many to
run with `JobsSettle`), but for `OneFilePerRequest`: if an edit of a new file is
released before the handle that created it, two tasks run the create. A crash
breaks it too, as recovery submits a job from the journal twice; the property is
about the time before one. `uploads_crash` has a single version: it shows the
loss between the move and the save, and not that of a version whose replacement
was never recorded.

`FuseHandles` takes from the kernel that writes and truncates of one file come
one at a time, that reads run beside them, and that a release comes after the
last call on its handle. `ContentExact` and `InPlace` name in `met` what a call
ran into: an expired entry (`expired`), a size in doubt (`doubted`), a truncate
and a first read filling the handle twice (`overlap`), two calls on a swap file
(`unlocked`). `SizeMatches` has `doubt`, which is raised by two releases that
cross, by a release during an upload, as its end pops the newer job and reads go
back to the older content, and by a listing (`disturbed`) that was answered while
new content was queued, sent or released, or that a release overtook before it
was stored. The doubt ends with a listing that met none of these, or when the
entry expires: that is what the property adds to naming the exceptions. Each
exception does break its property in the code, as the run shows when it is taken
out (with two offsets for the content of a swap file); they are on the list of hazards, and the properties do not cover them. The
reads of a handle that is not open for writing are in `ChunkManager`.

`Namespace` measures time in units: an entry lives `TTL`, and a call takes at
most `Slow` (the network decides; nothing in the code bounds it, and without a
bound a listing could be mapped arbitrarily late). What is stale lasts for
`TTL + Slow` per name on the path, since a directory that is found through an
old entry is listed as if it were there. The bound is tight: one unit less and
the run fails. The exclusion in `FoundIsDescribed` of a file that was
invalidated under another of its paths needs three calls of two threads, more
than the run makes. Two calls are enough for a listing with a change under way,
and for a change with what the cache held before it; three calls of one thread
were checked as well, on the same instance, and hold.

Fairness. Each started thread runs (weak fairness of a thread's next step, as
the operating system gives): of both threads of a stats read, of the readers and
the downloads of the chunk manager, of the FUSE threads inside a call on a handle.
The upload manager needs less: while one of its threads, timers or a restart can
go on, one of them does. `ThreadPoolExecutor` takes its tasks in order. Nobody has
to open, write or read a file, and the clock need not advance. Which waiter a
lock or a condition serves next is left open; no liveness is claimed that
depends on it.

## 4. What is proved

`LockManagerProofs` proves, for any finite set of threads, any keys and objects,
any modes and any depth of nesting (`ThreadsAssumption`, `DepthAssumption`,
`ModesAssumption`, `NoneAssumption`):

- `Inductive`: the invariant `IInv`. The code decides everything by counters, so
  the invariant says what each of them counts, as the cardinality of a set of
  frames: `_refs` the open blocks of a key (`RefsInv`), `_readers`, `_writers`,
  `_write_requests` of an object the blocks that have it or asked for it,
  `_allocations` the bodies that run (`CountInv`). `FrameInv` says that an open
  block works on the object `_locks` has for its key; this needs the counts,
  since `_release_ref` drops the object when the count says nobody is left.
  `ExclusionInv` is exclusion per object; with `FrameInv` it gives exclusion per
  key.
- `TypeCorrect` (`TypeOK`), `Exclusion` (`MutualExclusion`), `NothingDropped`
  (`LocksInUse`).
- `Wakeup` (`NoLostWakeup`): inductive on top of `IInv`. A reader blocked by a
  request finds either a woken writer or a sleeping one, whose waker is its own;
  a release that leaves sleepers leaves another reader.
- `Refinement` (`ImplementsMutex`): the step that is granted the `RWLock`
  acquires the abstract mutex, the one that releases it lets go, all others
  stutter.
- `DeadlockFreedom` (`NoDeadlock`), for behaviours in which no thread asks to
  share a key that an outer block of its own has (`NoSharedReentry`), in any
  modes. Three invariants on top of `IInv`: a thread is in one block at a time
  that is not held (`NestInv`), `_waiting` names its key from the check until
  `_allocations` has it (`WaitingInv`), and what `_detect_cycle` walks over has no
  cycle (`Acyclic`, said without paths: every set of threads has one that waits
  for none of them). A check that finds nothing keeps the last: if it closed a
  cycle, the threads of that cycle that own a key on the walk would have waited
  for each other before. A registration adds edges only to a thread that no
  longer waits. Then sleeping threads are no deadlock although the tables lag
  behind the `RWLock`s, since all other blocks of a sleeper are registered, and
  who sleeps for a waiting writer waits for the holder of the same key. The
  condition is needed: a nested shared block behind a queued writer is the
  deadlock `_detect_cycle` overlooks.
- `ExclusiveDeadlockFreedom`: the condition holds when all blocks are exclusive
  (`Exclusive`), which are all the program opens.
- `RefusalsHaveCause` (`RefusedForCause`), for exclusive blocks: were there no
  deadlock, the keys that no thread stuck with the refused one has would be closed
  under the walk, and the walk could not have met the thread. With shared blocks
  it is false, as TLC shows: a reader that was granted its lock and has not
  cleared `_waiting` is taken for one that waits.

`StatsVFSProofs` carries this over to the reads of `trigger_deadlock`, for any
number of them: `UsesLockManager` shows that each step is one of the lock manager
or none, `StatsTypeCorrect`, `ReadsNeverDeadlock` and `ReadsRefusedForCause`
follow (the last for exclusive blocks).

`UploadManagerProofs` proves, for any finite set of existing files (with any ids),
any clients and workers, any faults of the disk, any number of requests per call,
and any bounds on handles, retries, clock and crashes (`IdsAssumption`,
`ActorsAssumption`, `AttemptsAssumption`, `BoundsAssumption`):

- `Inductive`: `IInv` is the types and `WriterInv`: every journal entry, and
  every open file, has the version of a handle, and a dead process has no
  threads. The types of what recovery puts in the queue need the first; the
  second says that an enqueue or a `_process_queue` never goes on after a crash.
- `TypeCorrect` (`TypeOK`).
- `Attendance` (`NoStrandedJob`): inductive on top of `IInv`. A task that leaves
  the pool becomes a worker on its id; a worker that ends either removes the job,
  makes it `failed`, sets its timer, or found it replaced, and then the replacing
  enqueue or its task is there. After a restart, from whatever `queue.json` held,
  `_process_queue` submits every pending id (`SetToSeqLists`).
- `DataOfJobs` (`QueuedDataPresent`): who changes files or queue in several steps
  has the lock from the first to the last (`LockInv`), what was moved is there
  when it is recorded (`MovedInv`), and a job is without its file only while its
  id is replaced or removed (`DataInv`). A crash in between breaks the last, so
  the property is about the time before one. That a free lock belongs to no
  thread is `NobodyAssumption`.
- `SendsReleased` (`OnlyReleasedSent`): an open file holds nothing or its own
  version (`OpenInv`), the first start finds no journal and serves nobody until it
  is over (`BootInv`), and from the release over the upload file and the worker to
  Drive there are only released versions (`SentInv`). Recovery after a crash does
  send an unused journal file, so again this is about the time before one.
- `TriesBoundFiles` (`OneFilePerRequest`), before a crash and for behaviours in which no
  two clients have handles of one file at a time (`OneHandlePerFile`), whatever
  tasks, timers and workers are left of earlier handles. A new file is untouched
  until its job is recorded (`NewFileInv`), and a version is unsent until its file
  is moved (`NewVersionInv`) and held for one id from then on (`HomeInv`). As long as
  the job is one that creates, a single task, timer, worker or enqueue is on it
  (`Lone`), so that its `retries` count what was sent (`Made`), but for the requests of
  the try that a worker has not reported yet (`Requests`, `Counted`). Once an edit has made it an update, or it is
  removed, one worker at most can still create, and the bound leaves it one try
  (`JobInv`). That Drive gives no id of the form of a new file's is `NewAssumption`.
  The condition is needed: section 3 has the two clients that break the property.
- `OneClientBoundsFiles`: with one client the condition holds, as in the run.

`ChunkManagerProofs`, for any readers, chunks and pools, any depth of prefetch, any
number of edits, reads and evictions (`ChunksAssumption`, `PoolsAssumption`,
`SwitchAssumption`, `BoundsAssumption`):

- `Inductive`: `IInv` is the types and `Protocol`, which says where each party may
  be: a reader and the future it holds (`ReaderInv`), an entry of
  `active_downloads` (`ActiveInv`), a task in a queue, at a worker or ended
  (`TaskInv`), the lock of a chunk (`LockInv`), how many edits are left
  (`FileInv`), when a chunk is owed a call to Drive and who may make it
  (`OwedInv`), and where old content can be while an edit is on its way
  (`FreshInv`).
- `TypeCorrect` (`TypeOK`), `LiveFutures` (`WaitsForLiveFuture`), `DoneIsPopped`
  (`NoLeftover`), `OneDownloadPerChunk`, `CallsAreAccounted` (`CallsAccounted`) and
  `EditIsSeen` (`FreshAfterEdit`). The last two need the whole protocol: a second
  download of a chunk waits for the lock and then finds a copy, in memory or on
  disk, or else the loss of the last one was counted; a chunk outside `crossed` is
  in no cache and in nobody's hand with its old content.

`ChunkCacheProofs`, for any chunks, any sizes, and any limits (`LimitsAssumption`):
`Inductive` with `IInv` of the types, the order without repetition (`OrderInv`),
`BytesExact`, `WithinLimits` and `MarksPresent`; hence `TypeCorrect`,
`BytesAreCounted`, `LimitsHold`, `MarksAreOfChunks`, and the action property
`OldestAreEvicted` (`EvictsOldest`). The byte count is a sum over a set and eviction
a search for the least number of chunks to drop. `FiniteSums` has the lemmas:
that a sum over a finite set does not depend on the order of its elements, and how
it changes with one of them. They go by induction with a set in the place of the
predicate (`NatInduct`, `SubsetInduct`), as the library's schemas cannot be cited.

`FuseHandlesProofs`, for any threads, handles, files and sizes (`BoundsAssumption`,
`ThreadsAssumption`, `NumbersAssumption`, `FilesAssumption`): `Inductive` with `IInv` of
the types, what a handle has before and after its base (`HandleInv`), what a call
has reached and which locks it holds (`ThreadInv`), that two calls on a swap file
count as `unlocked` (`LocalInv`), `ContentExact`, and what is known of the size
(`SizeInv`): of the entry, between the steps of a release and of an upload, and
whatever content a worker still sends (`EntryInv`), and of a listing that is under
way and undisturbed (`ListingInv`);
`TypeCorrect`, `HandleHoldsItsEdits` (`ContentExact`), `OffsetStays` (`InPlace`),
`SizeIsOfContent` (`SizeMatches`).

`NamespaceProofs`, for any set of paths of any depth, any nodes, threads, lifetimes
and duration of calls (`PathsAssumption`, `IdsAssumption`, `TTLAssumption`,
`NodesAssumption`, `DirectoriesAssumption`, `InitialAssumption`, `BoundsAssumption`):

- `Inductive`: the heart is `Leads`: an id is that of the file at a path and at
  no other, except for paths that were touched not longer ago than a slack, which
  grows by `TTL + Slow` (`Life`) with each directory on the path and shrinks as the
  entry ages. It is kept for the cache (`CachedInv`), for
  what a thread has resolved so far (`PlaceInv`), for the listing it is mapping
  (`ListingInv`), and gives both time bounds. `LoadedInv`, `DescribedInv`, `RouteInv`
  and `FoundIsListed` say that the maps of the cache agree. Every step but `Tick`
  leaves the clock alone, changes Drive at a few paths it touches, and moves entries
  only from one of these places to another: one lemma, `FrameStep`, serves all of
  them.
- `TypeCorrect` (`TypeOK`), `StaleIsBounded` (`StaleBounded`), `HiddenIsBounded`
  (`HiddenBounded`), `FoundDescribed` (`FoundIsDescribed`), `FoundListed`
  (`FoundIsListed`). The time bounds hold for any depth; TLC checks
  them for paths of two names.

The proofs changed the models in three places, where the prover had found what the
instances hide: names in `children` need not be paths in play; a path also changes
when its node is moved or its content sent; the existing nodes get different ids.

Only model-checked: the liveness properties (`EveryReadAnswered`, `JobsSettle`,
`ReadsReturn`, `CallsReturn`), as liveness under fairness and enabledness are out of
the prover's reach. Every invariant and action property of a passing run has a
theorem.

## 5. What is not modelled yet, and the plan

1. `ReadAfterWrite` end to end: handles, upload queue and chunk cache composed,
   and the abstract file they should implement.
2. Journal recovery, which TLC finds to go wrong in three ways that have no run
   yet: an unwritten journal file empties the file on Drive, an id is cut at its
   underscore, two workers send one recovered job.
3. The table of swap files: reopening, renaming and removing them beside an open
   handle; the refusals for an exceeded quota.
4. Proofs: that a version is not lost between its release and a read, once the
   composition of item 1 is there.

Left out for good: the wording of `/stats` files, metrics and logs, the
credentials of the Drive client, paging, and the environment that `main.py`
reads.
