---------------------------- MODULE UploadManager ----------------------------
(***************************************************************************)
(* src/infrastructure/drive/upload_manager.py and the write handles of     *)
(* FuseOps that feed it: a file opened for writing has a journal file; its *)
(* release moves that file into the upload directory, records a job in the *)
(* queue and in queue.json, and hands the job to the upload pool; a worker *)
(* sends the content to Drive, and a failure is retried by a timer.  The   *)
(* process may die at any step; the next start reloads queue.json and      *)
(* recovers the journal.                                                   *)
(*                                                                         *)
(* Contents are version numbers, one version per write handle.  A new file *)
(* made by handle v has the id <<"local", v>>, and <<"rec", v>> when it is *)
(* recovered from the journal (each is a fresh uuid in the code).          *)
(***************************************************************************)
EXTENDS Integers, Sequences, SequencesExt

CONSTANTS
  Existing,     \* ids of files that are on Drive from the start
  Underscored,  \* those that contain a "_"
  Cut,          \* what the recovery reads out of an id with a "_"
  Clients,      \* FUSE threads
  Boot,         \* the thread that runs __init__
  Workers,      \* the threads of the upload pool
  Outcomes,     \* how a request to Drive may end: ok, error, late (done, and
                \* yet it raises), quota
  Attempts,     \* requests that tenacity makes of one call (5 in the code)
  Faults,       \* what may fail on the disk: queue.json is not written (save)
                \* or not readable (load), a create is not recovered (name)
  MaxVersions, MaxTime, MaxRetries, MaxCrashes

ASSUME IdsAssumption ==
  Underscored \subseteq Existing /\ Cut \notin Existing /\ IsFiniteSet(Existing)
ASSUME ActorsAssumption ==
  /\ Clients \intersect Workers = {} /\ Boot \notin Clients \union Workers
ASSUME OutcomesAssumption == Outcomes \subseteq {"ok", "error", "late", "quota"}
ASSUME AttemptsAssumption == Attempts \in Nat \ {0}
ASSUME FaultsAssumption == Faults \subseteq {"save", "load", "name"}
ASSUME BoundsAssumption ==
  /\ MaxVersions \in Nat /\ MaxTime \in Nat
  /\ MaxRetries \in Nat /\ MaxCrashes \in Nat

Versions == 1..MaxVersions
New == {"local", "rec"} \X Versions
Ids == Existing \union New \union {Cut}
Writers == Clients \union {Boot}       \* who calls enqueue_file_for_upload
Nobody == "nobody"                     \* the owner of a free lock, no thread

ASSUME NobodyAssumption == Nobody \notin Writers \union Workers
ASSUME NewAssumption == Existing \intersect New = {}   \* Drive gives no such id

Absent == -2                           \* there is no such file
Empty == -1                            \* a journal file not yet written to
Contents == Empty..MaxVersions         \* 0: what the existing files hold

VARIABLES
  queue, queueFile,  \* self.queue, and what queue.json holds
  uploads,           \* uploads[i][s]: the file uploads/<i>_<s>.tmp
  journal,           \* the files of the journal directory
  lockedBy,          \* self.lock
  tasks, timers,     \* work queue of the upload pool; pending Timers per id
  worker, writer,    \* where each worker, and each FUSE thread, is
  now,               \* int(time.time())
  drive, copies,     \* content per existing id; Drive files made per version
                     \*   (1 for all that were made before the last crash)
  live,              \* new ids that this process has in its path cache
  quota,             \* is_tripped of the GoogleDriveQuotaCircuitBreaker
  up, crashes,       \* down, booting, serving
  versions,          \* history: handles opened so far,
  released, latest   \*   versions released, the last version queued per id

guarded == <<queue, queueFile, lockedBy>>
disk == <<uploads, journal>>
pool == <<tasks, timers>>
world == <<now, drive, copies>>
process == <<live, quota, up, crashes>>
history == <<versions, released, latest>>
vars == <<guarded, disk, pool, worker, writer, world, process, history>>

NoJob == [status |-> "none", second |-> 0, retries |-> 0, kind |-> "update"]
NoEntry == [id |-> Cut, kind |-> "update", version |-> 0, content |-> Empty]
IdleWorker == [at |-> "idle", id |-> Cut, second |-> 0, kind |-> "update",
               data |-> Empty, attempt |-> 1]
IdleWriter == [at |-> "idle", id |-> Cut, second |-> 0, entry |-> NoEntry]

(* __init__ has loaded queue.json and starts _recover_journal              *)
Starting == [c \in Writers |->
               IF c = Boot THEN [IdleWriter EXCEPT !.at = "recover"]
                           ELSE IdleWriter]

Init ==
  /\ queue = [i \in Ids |-> NoJob]
  /\ queueFile = [i \in Ids |-> NoJob]
  /\ uploads = [i \in Ids |-> [s \in 0..MaxTime |-> Absent]]
  /\ journal = {}
  /\ lockedBy = Nobody
  /\ tasks = <<>>
  /\ timers = [i \in Ids |-> 0]
  /\ worker = [w \in Workers |-> IdleWorker]
  /\ writer = Starting
  /\ now = 0
  /\ drive = [i \in Existing |-> 0]
  /\ copies = [v \in Contents |-> 0]
  /\ live = {}
  /\ quota = FALSE
  /\ up = "booting" /\ crashes = 0
  /\ versions = 0 /\ released = {} /\ latest = [i \in Ids |-> 0]

Free == lockedBy = Nobody

-----------------------------------------------------------------------------
(* Write handles of FuseOps                                                *)

OpenHandle(c, entry) ==
  /\ up = "serving" /\ writer[c].at = "idle"
  /\ versions < MaxVersions
  /\ versions' = versions + 1
  /\ journal' = journal \union {entry}
  /\ writer' = [writer EXCEPT ![c] =
                  [at |-> "open", id |-> entry.id, second |-> 0,
                   entry |-> entry]]

(* open for writing: an empty journal file, to be filled on first use      *)
Open(c, i) ==
  /\ OpenHandle(c, [id |-> i, kind |-> "update", version |-> versions + 1,
                    content |-> Empty])
  /\ UNCHANGED <<guarded, uploads, pool, worker, world, process, released,
                 latest>>

(* create: refused with ENOSPC once the quota was found exceeded           *)
Create(c) ==
  /\ ~quota
  /\ OpenHandle(c, [id |-> <<"local", versions + 1>>, kind |-> "create",
                    version |-> versions + 1, content |-> versions + 1])
  /\ live' = live \union {<<"local", versions + 1>>}
  /\ UNCHANGED <<guarded, uploads, pool, worker, world, quota, up, crashes,
                 released, latest>>

(* write: base content and new bytes                                       *)
Write(c) ==
  LET old == writer[c].entry
      new == [old EXCEPT !.content = old.version]
  IN /\ writer[c].at = "open" /\ old.content = Empty
     /\ journal' = (journal \ {old}) \union {new}
     /\ writer' = [writer EXCEPT ![c].entry = new]
     /\ UNCHANGED <<guarded, uploads, pool, worker, world, process, history>>

(* is_new or is_modified                                                   *)
MustUploadAlways(entry) == TRUE
MustUpload(entry) == entry.kind = "create" \/ entry.content # Empty

Release(c) ==
  LET entry == writer[c].entry
  IN /\ writer[c].at = "open"
     /\ \/ /\ MustUpload(entry)
           /\ writer' = [writer EXCEPT ![c].at = "enqueue"]
           /\ released' = released \union {entry.version}
           /\ UNCHANGED journal
        \/ /\ ~MustUpload(entry)
           /\ writer' = [writer EXCEPT ![c] = IdleWriter]
           /\ journal' = journal \ {entry}
           /\ UNCHANGED released
     /\ UNCHANGED <<guarded, uploads, pool, worker, world, process, versions,
                    latest>>

-----------------------------------------------------------------------------
(* enqueue_file_for_upload: three steps under self.lock, then the submit.  *)

(* safe_path is named after the second, the only time the clock is read;   *)
(* the file of the job that is replaced is deleted first                   *)
RemoveOld(c) ==
  LET i == writer[c].id
  IN /\ writer[c].at = "enqueue" /\ Free
     /\ lockedBy' = c
     /\ now' \in now..MaxTime
     /\ writer' = [writer EXCEPT ![c].at = "move", ![c].second = now']
     /\ uploads' = IF queue[i] = NoJob THEN uploads
                   ELSE [uploads EXCEPT ![i][queue[i].second] = Absent]
     /\ UNCHANGED <<queue, queueFile, journal, pool, worker, drive, copies,
                    process, history>>

(* shutil.move                                                             *)
MoveNew(c) ==
  LET h == writer[c]
  IN /\ h.at = "move"
     /\ uploads' = [uploads EXCEPT ![h.id][h.second] = h.entry.content]
     /\ journal' = journal \ {h.entry}
     /\ writer' = [writer EXCEPT ![c].at = "record"]
     /\ UNCHANGED <<guarded, pool, worker, world, process, history>>

(* persist_upload_queue_to_disk, at the end of every change of self.queue: *)
(* queue.json is replaced as a whole; or that fails, which is logged, and  *)
(* the old one stays.  (After the last crash nobody reads it any more.)    *)
Persist == \/ queueFile' = queue'
           \/ "save" \in Faults /\ crashes < MaxCrashes /\ UNCHANGED queueFile

(* The job replaces any older one but keeps its retries.                   *)
Record(c) ==
  LET h == writer[c]
      job == [status |-> "pending", second |-> h.second,
              retries |-> queue[h.id].retries, kind |-> h.entry.kind]
  IN /\ h.at = "record"
     /\ queue' = [queue EXCEPT ![h.id] = job]
     /\ Persist
     /\ lockedBy' = Nobody
     /\ latest' = [latest EXCEPT ![h.id] = h.entry.version]
     /\ writer' = [writer EXCEPT ![c].at = "submit"]
     /\ UNCHANGED <<disk, pool, worker, world, process, versions, released>>

SubmittedTwice(i) == tasks \o <<i, i>>
Submitted(i) == Append(tasks, i)

Submit(c) ==
  /\ writer[c].at = "submit"
  /\ tasks' = Submitted(writer[c].id)
  /\ writer' = [writer EXCEPT ![c] = Starting[c]]
  /\ UNCHANGED <<guarded, disk, timers, worker, world, process, history>>

-----------------------------------------------------------------------------
(* execute_pending_upload_job                                              *)

Start(w) ==
  LET i == Head(tasks)
  IN /\ worker[w].at = "idle" /\ tasks # <<>> /\ Free
     /\ tasks' = Tail(tasks)
     /\ worker' = IF queue[i].status = "pending"
                    THEN [worker EXCEPT ![w] =
                            [at |-> "check", id |-> i, data |-> Empty,
                             second |-> queue[i].second, kind |-> queue[i].kind,
                             attempt |-> 1]]
                    ELSE worker
     /\ UNCHANGED <<guarded, disk, timers, writer, world, process, history>>

LocalFile(w) == uploads[worker[w].id][worker[w].second]

(* os.path.exists(local_path), no longer under the lock                    *)
CheckFile(w) ==
  /\ worker[w].at = "check"
  /\ worker' = [worker EXCEPT ![w].at =
                  IF LocalFile(w) = Absent THEN "drop" ELSE "read"]
  /\ UNCHANGED <<guarded, disk, pool, writer, world, process, history>>

ReadFile(w) ==
  /\ worker[w].at = "read"
  /\ worker' = IF LocalFile(w) = Absent
                 THEN [worker EXCEPT ![w].at = "fail"]
                 ELSE [worker EXCEPT ![w].at = "send", ![w].data = LocalFile(w)]
  /\ UNCHANGED <<guarded, disk, pool, writer, world, process, history>>

(* One request to Drive; it is made under _execute_with_retry, which makes *)
(* it again after an HttpError that _is_retryable, up to Attempts times in *)
(* all.  An update of an id that Drive never gave out is answered 404.     *)
Known(w) == worker[w].kind = "create" \/ worker[w].id \in Existing
Applied(w) ==
  IF worker[w].kind = "create"
    THEN copies' = [copies EXCEPT ![worker[w].data] = @ + 1] /\ UNCHANGED drive
    ELSE drive' = [drive EXCEPT ![worker[w].id] = worker[w].data]
           /\ UNCHANGED copies

CallEnds(w, at) == worker' = [worker EXCEPT ![w].at = at, ![w].attempt = 1]
SentAgain(w) == /\ worker[w].attempt < Attempts
                /\ worker' = [worker EXCEPT ![w].attempt = @ + 1]

SendOk(w) ==
  /\ worker[w].at = "send" /\ "ok" \in Outcomes /\ Known(w)
  /\ Applied(w)
  /\ CallEnds(w, "remove")
  /\ UNCHANGED <<guarded, disk, pool, writer, now, process, history>>

SendLate(w) ==
  /\ worker[w].at = "send" /\ "late" \in Outcomes /\ Known(w)
  /\ Applied(w)
  /\ SentAgain(w) \/ CallEnds(w, "fail")
  /\ UNCHANGED <<guarded, disk, pool, writer, now, process, history>>

(* (To send again what had no effect is no step of the model.)             *)
SendError(w) ==
  /\ worker[w].at = "send" /\ ("error" \in Outcomes \/ ~Known(w))
  /\ CallEnds(w, "fail")
  /\ UNCHANGED <<guarded, disk, pool, writer, world, process, history>>

SendQuota(w) ==
  /\ worker[w].at = "send" /\ "quota" \in Outcomes
  /\ quota' = TRUE
  /\ CallEnds(w, "fatal")
  /\ UNCHANGED <<guarded, disk, pool, writer, world, live, up, crashes,
                 history>>

(* _remove_job(file_id, local_path): two steps under the lock              *)
RemoveFileUnlocked(w) ==
  /\ worker[w].at = "remove" /\ Free
  /\ uploads' = [uploads EXCEPT ![worker[w].id][worker[w].second] = Absent]
  /\ worker' = [worker EXCEPT ![w].at = "pop"]
  /\ UNCHANGED <<guarded, journal, pool, writer, world, process, history>>
RemoveFile(w) ==
  /\ worker[w].at = "remove" /\ Free
  /\ lockedBy' = w
  /\ uploads' = [uploads EXCEPT ![worker[w].id][worker[w].second] = Absent]
  /\ worker' = [worker EXCEPT ![w].at = "pop"]
  /\ UNCHANGED <<queue, queueFile, journal, pool, writer, world, process,
                 history>>

(* The job of the id is dropped, whichever it is by now.  "drop" is the    *)
(* _remove_job of the branch where the local file was missing.             *)
PopJob(w) ==
  /\ worker[w].at = "pop" \/ (worker[w].at = "drop" /\ Free)
  /\ queue' = [queue EXCEPT ![worker[w].id] = NoJob]
  /\ Persist
  /\ lockedBy' = Nobody
  /\ worker' = [worker EXCEPT ![w] = IdleWorker]
  /\ UNCHANGED <<disk, pool, writer, world, process, history>>

(* _handle_failure                                                         *)
HandleFailureNoTimer(w) ==
  LET i == worker[w].id
  IN /\ worker[w].at \in {"fail", "fatal"} /\ Free
     /\ worker' = [worker EXCEPT ![w] = IdleWorker]
     /\ queue' = IF queue[i] = NoJob THEN queue
                 ELSE [queue EXCEPT ![i].retries = @ + 1]
     /\ queueFile' = queue'
     /\ UNCHANGED <<lockedBy, disk, pool, writer, world, process, history>>
HandleFailureUncounted(w) ==
  LET i == worker[w].id
  IN /\ worker[w].at \in {"fail", "fatal"} /\ Free
     /\ worker' = [worker EXCEPT ![w] = IdleWorker]
     /\ timers' = IF queue[i] = NoJob THEN timers ELSE [timers EXCEPT ![i] = @ + 1]
     /\ UNCHANGED <<guarded, disk, tasks, writer, world, process, history>>
HandleFailure(w) ==
  LET i == worker[w].id
      tries == queue[i].retries + 1
      giveUp == tries > MaxRetries \/ worker[w].at = "fatal"
  IN /\ worker[w].at \in {"fail", "fatal"} /\ Free
     /\ worker' = [worker EXCEPT ![w] = IdleWorker]
     /\ \/ /\ queue[i] = NoJob
           /\ UNCHANGED <<queue, queueFile, timers>>
        \/ /\ queue[i] # NoJob
           /\ queue' = [queue EXCEPT ![i].retries = tries,
                          ![i].status = IF giveUp THEN "failed" ELSE @]
           /\ Persist
           /\ timers' = IF giveUp THEN timers ELSE [timers EXCEPT ![i] = @ + 1]
     /\ UNCHANGED <<lockedBy, disk, tasks, writer, world, process, history>>

(* _retry, when its Timer fires                                            *)
RetryAgain(i) ==
  /\ timers' = [timers EXCEPT ![i] = @ - 1]
  /\ tasks' = Append(tasks, i)
  /\ UNCHANGED <<guarded, disk, worker, writer, world, process, history>>
Retry(i) ==
  /\ timers[i] > 0
  /\ timers' = [timers EXCEPT ![i] = @ - 1]
  /\ tasks' = Append(tasks, i)
  /\ UNCHANGED <<guarded, disk, worker, writer, world, process, history>>

-----------------------------------------------------------------------------
(* Crash and restart                                                       *)

Crash ==
  /\ up # "down" /\ crashes < MaxCrashes
  /\ crashes' = crashes + 1 /\ up' = "down"
  /\ queue' = [i \in Ids |-> NoJob]
  /\ lockedBy' = Nobody
  /\ tasks' = <<>> /\ timers' = [i \in Ids |-> 0]
  /\ worker' = [w \in Workers |-> IdleWorker]
  /\ writer' = [c \in Writers |-> IdleWriter]
  /\ live' = {} /\ quota' = FALSE
  /\ copies' = [v \in Contents |-> IF copies[v] > 0 THEN 1 ELSE 0]
  /\ UNCHANGED <<queueFile, disk, now, drive, history>>

(* load_upload_queue_from_disk: an unreadable queue.json is an empty queue *)
Load ==
  /\ up = "down"
  /\ up' = "booting"
  /\ \/ queue' = queueFile
     \/ "load" \in Faults /\ queue' = [i \in Ids |-> NoJob]
  /\ writer' = Starting
  /\ UNCHANGED <<queueFile, lockedBy, disk, pool, worker, world, live, quota,
                 crashes, history>>

(* _recover_journal: whatever file is there is enqueued, an edit under the *)
(* id up to its first "_", a new file under a new id.                      *)
RecoveredId(entry) ==
  CASE entry.kind = "create"                              -> <<"rec", entry.version>>
    [] entry.kind = "update" /\ entry.id \in New \union Underscored -> Cut
    [] OTHER                                              -> entry.id

Recover ==
  /\ writer[Boot].at = "recover"
  /\ \E entry \in journal :
       writer' = [writer EXCEPT ![Boot] =
                    [at |-> "enqueue", id |-> RecoveredId(entry),
                     second |-> 0, entry |-> entry]]
  /\ UNCHANGED <<guarded, disk, pool, worker, world, process, history>>

(* The journal of a create whose name cannot be decoded stays where it is. *)
Recovered ==
  \A entry \in journal : "name" \in Faults /\ entry.kind = "create"

(* _process_queue, and FUSE begins to serve                                *)
Pending == {i \in Ids : queue[i].status = "pending"}

ProcessQueue ==
  /\ writer[Boot].at = "recover" /\ Recovered /\ Free
  /\ tasks' = tasks \o SetToSeq(Pending)
  /\ writer' = [writer EXCEPT ![Boot] = IdleWriter]
  /\ up' = "serving"
  /\ UNCHANGED <<guarded, disk, timers, worker, world, live, quota, crashes,
                 history>>

-----------------------------------------------------------------------------
Enqueue(c) == RemoveOld(c) \/ MoveNew(c) \/ Record(c) \/ Submit(c)

Send(w) == SendOk(w) \/ SendLate(w) \/ SendError(w) \/ SendQuota(w)
Execute(w) ==
  \/ Start(w) \/ CheckFile(w) \/ ReadFile(w) \/ Send(w)
  \/ RemoveFile(w) \/ PopJob(w) \/ HandleFailure(w)

Use(c) ==
  \/ \E i \in Existing \union live : Open(c, i)
  \/ Create(c) \/ Write(c) \/ Release(c)

Startup == Load \/ Recover \/ ProcessQueue

Next ==
  \/ \E c \in Clients : Use(c)
  \/ \E c \in Writers : Enqueue(c)
  \/ \E w \in Workers : Execute(w)
  \/ \E i \in Ids : Retry(i)
  \/ Startup \/ Crash

Spec == Init /\ [][Next]_vars

(* The threads of the process run, timers fire, and a dead process is      *)
(* started again: while one of them can go on, one of them does, whichever *)
(* it is.  Nobody has to use the file system.                              *)
Fairness ==
  WF_vars(\/ Startup
          \/ \E c \in Writers : Enqueue(c)
          \/ \E w \in Workers : Execute(w)
          \/ \E i \in Ids : Retry(i))
FairSpec == Spec /\ Fairness

-----------------------------------------------------------------------------
(* Properties                                                              *)

TypeOK ==
  LET Jobs == [status : {"none", "pending", "failed"}, second : 0..MaxTime,
               retries : Nat, kind : {"create", "update"}]
      Entries == [id : Ids, kind : {"create", "update"},
                  version : 0..MaxVersions, content : Contents]
  IN /\ queue \in [Ids -> Jobs] /\ queueFile \in [Ids -> Jobs]
     /\ uploads \in [Ids -> [0..MaxTime -> Contents \union {Absent}]]
     /\ journal \subseteq Entries
     /\ lockedBy \in Writers \union Workers \union {Nobody}
     /\ tasks \in Seq(Ids) /\ timers \in [Ids -> Nat]
     /\ worker \in [Workers ->
          [at : {"idle", "check", "read", "send", "remove", "pop", "drop",
                 "fail", "fatal"},
           id : Ids, second : 0..MaxTime, kind : {"create", "update"},
           data : Contents, attempt : 1..Attempts]]
     /\ writer \in [Writers ->
          [at : {"idle", "open", "enqueue", "move", "record", "submit",
                 "recover"},
           id : Ids, second : 0..MaxTime, entry : Entries]]
     /\ now \in 0..MaxTime
     /\ drive \in [Existing -> Contents] /\ copies \in [Contents -> Nat]
     /\ live \subseteq New /\ quota \in BOOLEAN
     /\ up \in {"down", "booting", "serving"} /\ crashes \in 0..MaxCrashes
     /\ versions \in 0..MaxVersions /\ released \subseteq Versions
     /\ latest \in [Ids -> 0..MaxVersions]

(* The file of a queued job exists, so that reads are served from it and   *)
(* the upload finds it.  (A crash inside an enqueue can break this.)       *)
QueuedDataPresent ==
  crashes = 0 /\ Free =>
    \A i \in Ids : queue[i] # NoJob => uploads[i][queue[i].second] # Absent

(* A pending job has someone who will attend to it: a task in the pool, a  *)
(* timer, a worker on the id, or an enqueue about to submit it.            *)
NoStrandedJob ==
  up = "serving" =>
    \A i \in Pending :
      \/ \E n \in 1..Len(tasks) : tasks[n] = i
      \/ timers[i] > 0
      \/ \E w \in Workers : worker[w].at # "idle" /\ worker[w].id = i
      \/ \E c \in Writers : writer[c].at = "submit" /\ writer[c].id = i

(* Drive only ever receives what some handle wrote and released: never the *)
(* unfilled journal file of a handle that was not used.                    *)
OnlyReleasedSent ==
  crashes = 0 =>
    /\ \A i \in Existing : drive[i] \in {0} \union released
    /\ \A v \in Contents : copies[v] > 0 => v \in released

(* A create whose answer is lost makes another file when it is sent again, *)
(* by tenacity or by the retry timer, but no more than one per request of  *)
(* each try: a job is run by one task at a time.  (For handles of a file   *)
(* that follow each other, and as long as nothing is recovered from the    *)
(* journal, which submits a job twice.)                                    *)
OneFilePerRequest ==
  crashes = 0 =>
    \A v \in Contents : copies[v] <= Attempts * (MaxRetries + 1)

(* In the end no job is left pending: each was uploaded or given up, those *)
(* included that an outdated queue.json brings back.  (MaxVersions and     *)
(* MaxCrashes bound the enqueues and the restarts, so there is an end.)    *)
JobsSettle == <>[](\A i \in Ids : queue[i].status # "pending")

(* What was last queued for a file is in the local queue until Drive has   *)
(* it: a read after the write finds it in one of the two.                  *)
ReadAfterWrite ==
  \A i \in Existing :
    latest[i] # 0 /\ queue[i] = NoJob => drive[i] = latest[i]

(* Once the process is up again and the journal is recovered, a version    *)
(* that was released is on Drive, in the journal, or in the file of a job. *)
(* (Stated for a single version: a later one may replace an earlier one.)  *)
CrashLosesNothing ==
  up = "serving" /\ Free =>
    \A v \in released :
      \/ copies[v] > 0 \/ \E i \in Existing : drive[i] = v
      \/ \E entry \in journal : entry.version = v
      \/ \E i \in Ids : queue[i] # NoJob /\ uploads[i][queue[i].second] = v
==============================================================================
