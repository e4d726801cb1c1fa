---------------------------- MODULE FuseHandles ----------------------------
(***************************************************************************)
(* Write handles of FuseOps (src/fuse/operations/fuse_ops.py) byte by      *)
(* byte, for one file of Drive and the editor's swap files: each handle    *)
(* has a journal file of its own, filled with the content of the file by   *)
(* _ensure_downloaded when it is first used; read and write do so under    *)
(* the lock of the handle, truncate under fd_lock, and a swap file has no  *)
(* lock.  release records the new size and queues the journal file.        *)
(*                                                                         *)
(* The kernel runs one write or truncate of a file at a time, reads beside *)
(* them, and a release after the last call on its handle.  The upload      *)
(* queue is its last content per file, and an upload what it does to that  *)
(* and to Drive (UploadManager has the rest: tries, timers, queue.json);   *)
(* the chunk caches, emptied by release, are ChunkManager's.               *)
(***************************************************************************)
EXTENDS Integers, Sequences

CONSTANTS
  Threads,      \* FUSE threads
  Uploaders,    \* workers of the "upload" pool
  Files,        \* what the file may hold at first: contents, or NoFile
  Offsets,      \* of reads and writes, one cell each
  Lengths,      \* of truncate
  MaxHandles, MaxCalls

Hole == 0
NoFile == <<-1>>
Unset == <<-2>>
Nobody == "nobody"

ASSUME BoundsAssumption == MaxHandles \in Nat /\ MaxCalls \in Nat
ASSUME ThreadsAssumption == Nobody \notin Threads
ASSUME NumbersAssumption == Offsets \subseteq Nat /\ Lengths \subseteq Nat
ASSUME FilesAssumption == \A f \in Files : f = NoFile \/ f \in Seq(Nat \ {Hole})

Handles == 1..MaxHandles   \* file descriptors; handle h writes the cell h
NoMetadata == -1

VARIABLES
  handle,     \* open_files
  opened,     \* next_fd
  thread,     \* where each FUSE thread is
  fdLock, handleLock,
  metadata,   \* the size in the file's metadata entry, or NoMetadata
  queued,     \* the file that get_pending_path finds, or NoFile
  drive,      \* content on Drive under the id of the handles, or NoFile
  upload,     \* what each worker is sending, and if that was replaced since
  created,    \* the file was made by create and has a local_ id
  calls,      \* how many there were
  expected,   \* history: what handle h should hold, Unset before its base;
  met,        \*   what the calls met on their way
  doubt,      \*   the size may be that of another content
  disturbed   \*   listings under way that met a change of the file

locks == <<fdLock, handleLock>>
file == <<metadata, queued, drive, upload, created>>
counts == <<opened, calls>>
sizes == <<doubt, disturbed>>
vars == <<handle, thread, locks, file, counts, expected, met, sizes>>

Unopened == [kind |-> "none", open |-> FALSE, content |-> <<>>, pos |-> 0,
             filled |-> FALSE, modified |-> FALSE]
Idle == [at |-> "idle", op |-> "read", handle |-> 0, arg |-> 0, data |-> <<>>]
NoUpload == [at |-> "none", content |-> <<>>, replaced |-> FALSE]

Init ==
  /\ handle = [h \in Handles |-> Unopened] /\ opened = 0
  /\ thread = [t \in Threads |-> Idle]
  /\ fdLock = Nobody /\ handleLock = [h \in Handles |-> Nobody]
  /\ drive \in Files /\ queued = NoFile /\ created = FALSE
  /\ upload = [u \in Uploaders |-> NoUpload]
  /\ metadata = IF drive = NoFile THEN NoMetadata ELSE Len(drive)
  /\ calls = 0
  /\ expected = [h \in Handles |-> Unset]
  /\ met = {} /\ doubt = FALSE /\ disturbed = {}

(* os.ftruncate, and os.write of data at pos                               *)
Resized(s, n) == [i \in 1..n |-> IF i <= Len(s) THEN s[i] ELSE Hole]
Overwritten(s, pos, data) ==
  LET end == pos + Len(data)
      base == IF data # <<>> /\ end > Len(s) THEN Resized(s, end) ELSE s
  IN [i \in DOMAIN base |-> IF i \in (pos + 1)..end THEN data[i - pos] ELSE base[i]]

FdFree == fdLock = Nobody
On(h) == {t \in Threads : thread[t].at # "idle" /\ thread[t].handle = h}
Releasing == \E t \in Threads : thread[t].at \in {"size", "enqueue"}
Listing == {t \in Threads : thread[t].at = "store"}
Sending == {u \in Uploaders : upload[u].at # "none"}

-----------------------------------------------------------------------------
(* open, create                                                            *)

NewHandle(kind, filled, modified) ==
  /\ FdFree /\ opened < MaxHandles
  /\ opened' = opened + 1
  /\ handle' = [handle EXCEPT ![opened + 1] =
                  [kind |-> kind, open |-> TRUE, content |-> <<>>, pos |-> 0,
                   filled |-> filled, modified |-> modified]]
  /\ expected' = [expected EXCEPT ![opened + 1] = IF filled THEN <<>> ELSE @]
  /\ UNCHANGED <<thread, locks, queued, drive, upload, calls, met, sizes>>

(* flags with O_TRUNC: an empty base, and a change                         *)
Open(truncate) ==
  /\ created \/ drive # NoFile
  /\ NewHandle("edit", truncate, truncate)
  /\ UNCHANGED <<metadata, created>>

Create ==
  /\ ~created /\ drive = NoFile
  /\ NewHandle("new", TRUE, TRUE)
  /\ created' = TRUE /\ metadata' = 0

CreateSwap ==
  /\ NewHandle("local", TRUE, TRUE)
  /\ UNCHANGED <<metadata, created>>

-----------------------------------------------------------------------------
(* read, write, truncate                                                   *)

Changes(op) == op \in {"write", "truncate"}
SameInode(g, h) == (handle[g].kind = "local") = (handle[h].kind = "local")

(* The kernel sends a call on an open handle; read and write look it up    *)
(* under fd_lock and go on to the lock of the handle, if it has one.       *)
Call(t, h, op, arg) ==
  LET local == handle[h].kind = "local"
  IN /\ thread[t].at = "idle" /\ handle[h].open /\ calls < MaxCalls
     /\ op # "truncate" => FdFree
     /\ Changes(op) =>
          \A u \in Threads : thread[u].at # "idle" /\ Changes(thread[u].op)
                               => ~SameInode(thread[u].handle, h)
     /\ calls' = calls + 1
     /\ met' = met \union (IF local /\ On(h) # {} THEN {"unlocked"} ELSE {})
     /\ thread' = [thread EXCEPT ![t] =
          [at |-> IF op = "truncate" THEN IF local THEN "io" ELSE "fdLock"
                                     ELSE IF local THEN "seek" ELSE "lock",
           op |-> op, handle |-> h, arg |-> arg, data |-> <<>>]]
     /\ UNCHANGED <<handle, locks, file, opened, expected, sizes>>

(* with exclusive_lock("file_handle:<fd>")                                 *)
LockNot(t) ==
  /\ thread[t].at = "lock"
  /\ thread' = [thread EXCEPT ![t].at = "ensure"]
  /\ UNCHANGED <<handle, locks, file, counts, expected, met, sizes>>
Lock(t) ==
  /\ thread[t].at = "lock" /\ handleLock[thread[t].handle] = Nobody
  /\ handleLock' = [handleLock EXCEPT ![thread[t].handle] = t]
  /\ thread' = [thread EXCEPT ![t].at = "ensure"]
  /\ UNCHANGED <<handle, fdLock, file, counts, expected, met, sizes>>

(* truncate: with fd_lock                                                  *)
LockFd(t) ==
  /\ thread[t].at = "fdLock" /\ FdFree
  /\ fdLock' = t
  /\ thread' = [thread EXCEPT ![t].at = "ensure"]
  /\ UNCHANGED <<handle, handleLock, file, counts, expected, met, sizes>>

Return(t) ==
  /\ thread' = [thread EXCEPT ![t] = Idle]
  /\ fdLock' = IF fdLock = t THEN Nobody ELSE fdLock
  /\ handleLock' = [h \in Handles |-> IF handleLock[h] = t THEN Nobody
                                                         ELSE handleLock[h]]

Filled(t) == thread' = [thread EXCEPT ![t].data = <<>>,
                ![t].at = IF thread[t].op = "truncate" THEN "io" ELSE "seek"]

(* get_pending_path, or else Drive, where a local_ id is unknown.  While   *)
(* an enqueue replaces the queued file it is missing for a moment.         *)
Visible ==
  IF queued = NoFile THEN {drive} \ {NoFile}
  ELSE {queued} \union
         IF \E t \in Threads : thread[t].at = "enqueue" THEN {drive} \ {NoFile} ELSE {}

Based(h, data) ==
  expected' = [expected EXCEPT ![h] = IF @ = Unset THEN data ELSE @]

(* _ensure_downloaded: without metadata, or with size 0, there is no base. *)
AlreadyFilled(t) ==
  /\ thread[t].at = "ensure" /\ handle[thread[t].handle].filled
  /\ Filled(t)
  /\ UNCHANGED <<handle, locks, file, counts, expected, met, sizes>>

NoBase(t) ==
  LET h == thread[t].handle
  IN /\ thread[t].at = "ensure" /\ ~handle[h].filled /\ metadata \in {NoMetadata, 0}
     /\ handle' = [handle EXCEPT ![h].filled = TRUE]
     /\ Filled(t)
     /\ \E data \in IF Visible = {} THEN {<<>>} ELSE Visible : Based(h, data)
     /\ met' = met \union (IF metadata = NoMetadata THEN {"expired"} ELSE {})
                   \union (IF Releasing \/ doubt THEN {"doubted"} ELSE {})
     /\ UNCHANGED <<locks, file, counts, sizes>>

Download(t) ==
  /\ thread[t].at = "ensure" /\ ~handle[thread[t].handle].filled
  /\ metadata > 0
  /\ thread' = [thread EXCEPT ![t].at = "fetch"]
  /\ UNCHANGED <<handle, locks, file, counts, expected, met, sizes>>

Fetch(t) ==
  /\ thread[t].at = "fetch"
  /\ \E data \in Visible :
       thread' = [thread EXCEPT ![t].at = "fill", ![t].data = data]
  /\ UNCHANGED <<handle, locks, file, counts, expected, met, sizes>>

(* Drive fails, or the queued file was uploaded and removed before it was  *)
(* opened: the call fails, and the next one tries again.                   *)
FetchFailsMarked(t) ==
  /\ thread[t].at = "fetch"
  /\ handle' = [handle EXCEPT ![thread[t].handle].filled = TRUE]
  /\ Return(t)
  /\ UNCHANGED <<file, counts, expected, met, sizes>>
FetchFailsLocked(t) ==
  /\ thread[t].at = "fetch"
  /\ thread' = [thread EXCEPT ![t] = Idle]
  /\ UNCHANGED <<handle, locks, file, counts, expected, met, sizes>>
FetchFails(t) ==
  /\ thread[t].at = "fetch"
  /\ Return(t)
  /\ UNCHANGED <<handle, file, counts, expected, met, sizes>>

(* os.write moves the offset of the descriptor.                            *)
Written(h, data) ==
  [handle EXCEPT ![h].content = Overwritten(@, handle[h].pos, data),
                 ![h].pos = @ + Len(data)]

Fill(t) ==
  LET h == thread[t].handle
  IN /\ thread[t].at = "fill"
     /\ handle' = [Written(h, thread[t].data) EXCEPT ![h].filled = TRUE]
     /\ Based(h, thread[t].data)
     /\ met' = met \union (IF handle[h].filled THEN {"overlap"} ELSE {})
     /\ Filled(t)
     /\ UNCHANGED <<locks, file, counts, sizes>>

Seek(t) ==
  /\ thread[t].at = "seek"
  /\ handle' = [handle EXCEPT ![thread[t].handle].pos = thread[t].arg]
  /\ thread' = [thread EXCEPT ![t].at = "io"]
  /\ UNCHANGED <<locks, file, counts, expected, met, sizes>>

Transfer(t) ==
  LET h == thread[t].handle
      c == handle[h].content
      n == thread[t].arg
  IN /\ thread[t].at = "io"
     /\ \/ /\ thread[t].op = "read"
           /\ handle' = [handle EXCEPT ![h].pos = IF @ < Len(c) THEN @ + 1 ELSE @]
           /\ UNCHANGED expected
        \/ /\ thread[t].op = "write"
           /\ handle' = [Written(h, <<h>>) EXCEPT ![h].modified = TRUE]
           /\ expected' = [expected EXCEPT ![h] = Overwritten(@, n, <<h>>)]
        \/ /\ thread[t].op = "truncate"
           /\ handle' = [handle EXCEPT ![h].content = Resized(@, n),
                                       ![h].modified = TRUE]
           /\ expected' = [expected EXCEPT ![h] = Resized(@, n)]
     /\ Return(t)
     /\ UNCHANGED <<file, counts, met, sizes>>

-----------------------------------------------------------------------------
(* release: pop the handle; then, for a modified file of Drive, record the *)
(* size and queue the journal file; a created file is queued at once.      *)

PoppedNot(h) == handle
Popped(h) == [handle EXCEPT ![h].open = FALSE]

Release(t, h) ==
  /\ thread[t].at = "idle" /\ handle[h].open /\ On(h) = {} /\ FdFree
  /\ \/ /\ handle[h].kind \in {"edit", "new"} /\ handle[h].modified
        /\ handle' = Popped(h)
        /\ thread' = [thread EXCEPT ![t].handle = h,
             ![t].at = IF handle[h].kind = "new" THEN "enqueue" ELSE "size"]
        /\ doubt' = (doubt \/ Releasing)
        /\ disturbed' = Listing
     \/ /\ handle[h].kind = "local" \/ ~handle[h].modified
        /\ handle' = [handle EXCEPT ![h] = Unopened]
        /\ UNCHANGED <<thread, sizes>>
  /\ UNCHANGED <<locks, file, counts, expected, met>>

RecordSizeNot(t) ==
  /\ thread[t].at = "size"
  /\ thread' = [thread EXCEPT ![t].at = "enqueue"]
  /\ UNCHANGED <<handle, locks, file, counts, expected, met, sizes>>
RecordSize(t) ==
  /\ thread[t].at = "size"
  /\ metadata' = IF metadata = NoMetadata THEN NoMetadata
                 ELSE Len(handle[thread[t].handle].content)
  /\ thread' = [thread EXCEPT ![t].at = "enqueue"]
  /\ UNCHANGED <<handle, locks, queued, drive, upload, created, counts, expected,
                 met, sizes>>

(* The file of the job that is replaced is deleted.                        *)
Enqueue(t) ==
  /\ thread[t].at = "enqueue"
  /\ queued' = handle[thread[t].handle].content
  /\ upload' = [u \in Uploaders |-> [upload[u] EXCEPT !.replaced = u \in Sending]]
  /\ handle' = [handle EXCEPT ![thread[t].handle] = Unopened]
  /\ thread' = [thread EXCEPT ![t] = Idle]
  /\ doubt' = (doubt \/ Sending # {})
  /\ UNCHANGED <<locks, metadata, drive, created, counts, expected, met, disturbed>>

-----------------------------------------------------------------------------
(* The upload of the queued file (execute_pending_upload_job)              *)

StartUpload(u) ==
  /\ upload[u].at = "none" /\ queued # NoFile
  /\ upload' = [upload EXCEPT ![u] =
                  [at |-> "sending", content |-> queued, replaced |-> FALSE]]
  /\ UNCHANGED <<handle, thread, locks, metadata, queued, drive, created, counts,
                 expected, met, sizes>>

(* Drive takes the file, perhaps more than once, and answers or not; that  *)
(* of a local_ id gets an id of its own.                                   *)
Send(u) ==
  /\ upload[u].at \in {"sending", "sent"}
  /\ drive' = IF created THEN drive ELSE upload[u].content
  /\ upload' = [upload EXCEPT ![u].at = "sent"]
  /\ UNCHANGED <<handle, thread, locks, metadata, queued, created, counts,
                 expected, met, sizes>>

(* _remove_job pops whatever job there is, after an upload or because the  *)
(* file is missing; after a failure the job stays.                         *)
RemoveJob(u) ==
  /\ upload[u].at = "sent" \/ (upload[u].at = "sending" /\ upload[u].replaced)
  /\ queued' = NoFile
  /\ upload' = [upload EXCEPT ![u] = NoUpload]
  /\ UNCHANGED <<handle, thread, locks, metadata, drive, created, counts,
                 expected, met, sizes>>

UploadFails(u) ==
  /\ upload[u].at # "none"
  /\ upload' = [upload EXCEPT ![u] = NoUpload]
  /\ UNCHANGED <<handle, thread, locks, metadata, queued, drive, created, counts,
                 expected, met, sizes>>

-----------------------------------------------------------------------------
(* The metadata entry                                                      *)

Expire ==
  /\ metadata # NoMetadata /\ metadata' = NoMetadata
  /\ doubt' = FALSE
  /\ UNCHANGED <<handle, thread, locks, queued, drive, upload, created, counts,
                 expected, met, disturbed>>

(* A listing of the directory: Drive, which does not know what is queued,  *)
(* answers, and then the entry is stored.                                  *)
List(t) ==
  /\ thread[t].at = "idle" /\ drive # NoFile
  /\ thread' = [thread EXCEPT ![t] = [Idle EXCEPT !.at = "store", !.arg = Len(drive)]]
  /\ disturbed' = IF queued # NoFile \/ Sending # {} \/ Releasing
                    THEN disturbed \union {t} ELSE disturbed \ {t}
  /\ UNCHANGED <<handle, locks, file, counts, expected, met, doubt>>

Store(t) ==
  /\ thread[t].at = "store"
  /\ metadata' = thread[t].arg
  /\ thread' = [thread EXCEPT ![t] = Idle]
  /\ doubt' = (t \in disturbed)
  /\ disturbed' = disturbed \ {t}
  /\ UNCHANGED <<handle, locks, queued, drive, upload, created, counts, expected,
                 met>>

-----------------------------------------------------------------------------
Ensure(t) ==
  AlreadyFilled(t) \/ NoBase(t) \/ Download(t) \/ Fetch(t) \/ FetchFails(t) \/ Fill(t)
Step(t) ==
  \/ Lock(t) \/ LockFd(t) \/ Ensure(t) \/ Seek(t) \/ Transfer(t)
  \/ RecordSize(t) \/ Enqueue(t) \/ Store(t)

Use(t) ==
  \E h \in Handles :
    \/ \E op \in {"read", "write"}, n \in Offsets : Call(t, h, op, n)
    \/ \E n \in Lengths : Call(t, h, "truncate", n)
    \/ Release(t, h)

Work(u) == StartUpload(u) \/ Send(u) \/ RemoveJob(u) \/ UploadFails(u)

Next ==
  \/ \E truncate \in BOOLEAN : Open(truncate)
  \/ Create \/ CreateSwap
  \/ \E t \in Threads : Use(t) \/ List(t) \/ Step(t)
  \/ \E u \in Uploaders : Work(u)
  \/ Expire

(* A thread inside a call runs.                                            *)
Spec == Init /\ [][Next]_vars /\ \A t \in Threads : WF_vars(Step(t))
-----------------------------------------------------------------------------
(* Properties                                                              *)

(* Types; a handle under release is closed, and nobody else is using it.   *)
TypeOK ==
  LET Contents == Seq(Nat)
  IN /\ handle \in [Handles ->
          [kind : {"none", "edit", "new", "local"}, open : BOOLEAN,
           content : Contents, pos : Nat, filled : BOOLEAN, modified : BOOLEAN]]
     /\ thread \in [Threads ->
          [at : {"idle", "lock", "fdLock", "ensure", "fetch", "fill", "seek", "io",
                 "size", "enqueue", "store"},
           op : {"read", "write", "truncate"}, handle : 0..MaxHandles, arg : Nat,
           data : Contents]]
     /\ fdLock \in Threads \union {Nobody}
     /\ handleLock \in [Handles -> Threads \union {Nobody}]
     /\ metadata \in Nat \union {NoMetadata} /\ created \in BOOLEAN
     /\ queued \in Contents \union {NoFile} /\ drive \in Contents \union {NoFile}
     /\ opened \in 0..MaxHandles /\ calls \in 0..MaxCalls
     /\ upload \in [Uploaders -> [at : {"none", "sending", "sent"},
                                  content : Contents, replaced : BOOLEAN]]
     /\ expected \in [Handles -> Contents \union {Unset}]
     /\ met \subseteq {"unlocked", "expired", "doubted", "overlap"}
     /\ doubt \in BOOLEAN /\ disturbed \subseteq Threads
     /\ \A t \in Threads : thread[t].at \in {"size", "enqueue"} =>
          ~handle[thread[t].handle].open /\ On(thread[t].handle) = {t}

(* A handle holds what the file held when the handle was first used, with  *)
(* every write and truncate since then, in order: the base is there, once, *)
(* whatever calls overlap or fail.  Not so, and left to the code's users:  *)
(* a first use that met an expired entry or a size in doubt (below), and a *)
(* truncate beside the first read, which both fill the base; a created     *)
(* file; two calls at once on a swap file.                                 *)
Exact(h) == handle[h].filled => handle[h].content = expected[h]
ContentExact ==
  \A h \in Handles :
    CASE handle[h].kind = "edit" ->
           ~created /\ met \subseteq {"unlocked"} => Exact(h)
      [] handle[h].kind = "local" -> "unlocked" \notin met => Exact(h)
      [] OTHER                    -> Exact(h)

(* The offset a call has set is still there when it reads or writes: calls *)
(* on one descriptor do not move it under each other.                      *)
InPlace ==
  \A t \in Threads :
    LET h == thread[t].handle
    IN thread[t].at = "io" /\ thread[t].op # "truncate"
         /\ {"overlap", "unlocked"} \intersect met = {}
         => handle[h].pos = thread[t].arg

(* Between releases the size that getattr shows is the size of what a read *)
(* or the next edit finds, whatever uploads, failures and listings come in *)
(* between, unless it is in doubt: two releases crossed, a release met an  *)
(* upload, which then drops the newer content, or a listing met a release  *)
(* or content that was not yet on Drive.  The doubt ends with a listing    *)
(* that met none, or with the entry's life.                                *)
SizeMatches ==
  ~created /\ ~Releasing /\ ~doubt
    => \A s \in Visible : metadata \in {NoMetadata, Len(s)}

(* A file that is created, closed and opened again is edited from what it  *)
(* held: nothing that was written and released disappears (while the       *)
(* metadata of the file is in the cache).                                  *)
EditKeepsContent ==
  "expired" \notin met => \A h \in Handles : handle[h].kind = "edit" => Exact(h)

(* Every call returns: the lock of a handle and fd_lock are given back,    *)
(* whatever fails, and nobody waits in a circle.  (MaxCalls bounds reads,  *)
(* writes and truncates; there may be listings for ever.)                  *)
CallsReturn == \A t \in Threads : []<>(thread[t].at = "idle")
============================================================================
