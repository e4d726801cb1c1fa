------------------------- MODULE ChunkManagerProofs -------------------------
(***************************************************************************)
(* Theorems about ChunkManager, for any readers, chunks, pools, depth of   *)
(* the prefetch, edits and evictions, with and without the disk cache.     *)
(*                                                                         *)
(* The invariant is the types, with what a reader, a registry entry and a  *)
(* task may be found in, the lock of a chunk, what a download leaves       *)
(* behind or owes, and where the old content may be while an edit is       *)
(* released.                                                               *)
(***************************************************************************)
EXTENDS ChunkManager, SequenceTheorems, TLAPS

TaskStates ==
  [chunk : Targets, prefetch : BOOLEAN, failed : BOOLEAN, callback : BOOLEAN,
   data : None..MaxEdits,
   at : {"pending", "cancelled", "start", "memory", "disk", "fill", "call",
         "put", "write", "result", "pop", "over"}]
Entries(n) == [future : 0..n, prefetch : BOOLEAN]
ReaderStates(n) ==
  [at : {"idle", "aim", "aimMemory", "aimDisk", "prefetch", "prefetchCallback",
         "lookup", "lookupDisk", "fill", "fetch", "callback", "wait", "stuck"},
   chunk : Chunks, last : Chunks, target : 0..(NumChunks + Ahead),
   future : 0..n, data : None..MaxEdits]

(* The conjuncts of TypeOK, by what the steps change                       *)
FuturesType == futures \in Seq(TaskStates)
RegistryType ==
  active \in [Targets -> Entries(Len(futures))] /\ stuck \subseteq Readers
ReaderType == reader \in [Readers -> ReaderStates(Len(futures))]
CacheType ==
  memory \in [Chunks -> None..MaxEdits] /\ disk \in [Chunks -> None..MaxEdits]
FileType ==
  /\ drive \in 0..MaxEdits /\ edit \in {"none", "enqueued", "memory"}
  /\ pending \in BOOLEAN
HistoryType ==
  /\ crossed \subseteq Chunks /\ reads \in 0..MaxReads
  /\ evictions \in 0..MaxEvictions
  /\ calls \in [Chunks -> Nat] /\ lost \in [Chunks -> Nat]

(* TypeOK is these six.                                                    *)
LEMMA TypeParts ==
  TypeOK <=> /\ FuturesType /\ RegistryType /\ ReaderType
             /\ CacheType /\ FileType /\ HistoryType
BY DEF TypeOK, FuturesType, RegistryType, ReaderType, CacheType, FileType,
   HistoryType, TaskStates, Entries, ReaderStates

(* What a reader h may rely on, the futures being fs                       *)
ReaderOK(h, fs) ==
  /\ h.at # "idle" => h.chunk <= h.last
  /\ h.at \in {"aim", "aimMemory", "aimDisk", "prefetch", "prefetchCallback"}
       => h.target <= h.last + Ahead
  /\ h.at \in {"callback", "prefetchCallback", "wait"} => h.future \in DOMAIN fs
  /\ h.at = "callback" => ~fs[h.future].prefetch
  /\ h.at = "wait" => \/ ~fs[h.future].prefetch
                      \/ fs[h.future].at \notin {"pending", "cancelled"}
  /\ h.at = "fill" => h.data # None
ReaderInv == \A r \in Readers : ReaderOK(reader[r], futures)

(* Who is about to add the callback of f                                   *)
Adding(f) ==
  \E r \in Readers : /\ reader[r].at \in {"callback", "prefetchCallback"}
                     /\ reader[r].future = f

(* A registered future downloads that chunk, for a prefetch if the entry   *)
(* says so; its worker or the one who adds the callback will pop it.       *)
EntryOK(c, f, prefetch) ==
  f # NoFuture =>
    /\ futures[f].chunk = c /\ futures[f].prefetch = prefetch
    /\ LockFree => futures[f].at # "cancelled"
    /\ futures[f].callback => futures[f].at # "over"
    /\ ~futures[f].callback => Adding(f)
ActiveInv == \A c \in Targets : EntryOK(c, active[c].future, active[c].prefetch)

(* Only a chunk of the file is downloaded, only a prefetch is cancelled.   *)
LockedAt == {"memory", "disk", "fill", "call", "put", "write"}
TaskOK(t) ==
  /\ t.at \in LockedAt \union {"start"} => t.chunk \in Chunks
  /\ t.at \in {"fill", "put", "write"} => t.data # None
  /\ t.at = "cancelled" => t.prefetch
TaskInv == \A f \in DOMAIN futures : TaskOK(futures[f])

(* The lock of a chunk: one download of it at a time                       *)
LockInv ==
  \A f, g \in DOMAIN futures :
    Locked(f) /\ Locked(g) /\ futures[f].chunk = futures[g].chunk => f = g

FileInv == (pending => drive < MaxEdits) /\ (edit # "none" => MaxEdits > 0)

(* A chunk that no cache holds owes its next call to a loss, unless it is  *)
(* about to be put; the lock covers the look at the caches and the call.   *)
Putting(c) ==
  \E f \in DOMAIN futures : futures[f].chunk = c /\ futures[f].at = "put"
OwedFor(c) ==
  /\ ~UseDisk => disk[c] = None
  /\ calls[c] <= 1 + lost[c]
  /\ memory[c] = None /\ disk[c] = None => Putting(c) \/ calls[c] <= lost[c]
  /\ \A f \in DOMAIN futures : futures[f].chunk = c =>
       /\ futures[f].at = "call" => calls[c] <= lost[c]
       /\ futures[f].at = "disk" /\ disk[c] = None => calls[c] <= lost[c]
OwedInv == \A c \in Chunks : OwedFor(c)

(* No cache, and nobody on the way to one, holds the old content of c.     *)
Current(c) ==
  /\ memory[c] \in {None, drive} /\ disk[c] \in {None, drive}
  /\ \A f \in DOMAIN futures :
       futures[f].chunk = c /\ futures[f].at \in {"fill", "put", "write"}
         => futures[f].data = drive
  /\ \A r \in Readers :
       reader[r].chunk = c /\ reader[r].at = "fill" => reader[r].data = drive

(* What an edit has emptied stays empty, but for the chunks in crossed.    *)
FreshFor(c) ==
  c \notin crossed =>
    /\ edit = "none" /\ ~pending => Current(c)
    /\ edit = "memory" => memory[c] = None
    /\ edit = "none" /\ pending => memory[c] = None /\ disk[c] = None
FreshInv == \A c \in Chunks : FreshFor(c)

Types ==
  /\ FuturesType /\ RegistryType /\ ReaderType
  /\ CacheType /\ FileType /\ HistoryType
Protocol ==
  /\ ReaderInv /\ ActiveInv /\ TaskInv /\ LockInv
  /\ FileInv /\ OwedInv /\ FreshInv
IInv == TypeOK /\ Protocol
Parts == Types /\ Protocol

-----------------------------------------------------------------------------
(* What the steps rely on                                                  *)

LEMMA Bounds ==
  /\ NumChunks \in Nat /\ NumChunks > 0 /\ Ahead \in Nat /\ Ahead > 0
  /\ MaxReads \in Nat /\ MaxEdits \in Nat /\ MaxEvictions \in Nat
  /\ 0 \in Chunks /\ Chunks \subseteq Targets /\ Chunks \subseteq Nat
  /\ Targets \subseteq Nat /\ None \in Int /\ NoFuture = 0
  /\ None \in None..MaxEdits /\ 0..MaxEdits \subseteq None..MaxEdits
  /\ None \notin 0..MaxEdits /\ UseDisk \in BOOLEAN
BY ChunksAssumption, BoundsAssumption, SwitchAssumption
   DEF Chunks, Targets, None, NoFuture

(* A future further back in the sequence is still a future.                *)
LEMMA Longer ==
  ASSUME NEW n \in Nat, NEW m \in Nat, n <= m
  PROVE  ReaderStates(n) \subseteq ReaderStates(m) /\ Entries(n) \subseteq Entries(m)
<1>1. 0..n \subseteq 0..m
  OBVIOUS
<1> QED
  BY <1>1 DEF ReaderStates, Entries

(* One task is replaced.                                                   *)
LEMMA ReplaceTask ==
  ASSUME FuturesType, NEW f \in DOMAIN futures, NEW t \in TaskStates,
         futures' = [futures EXCEPT ![f] = t]
  PROVE  /\ FuturesType' /\ Len(futures') = Len(futures)
         /\ DOMAIN futures' = DOMAIN futures
         /\ futures'[f] = t
         /\ \A g \in DOMAIN futures : g # f => futures'[g] = futures[g]
BY ExceptSeq DEF FuturesType

(* One task is added.                                                      *)
LEMMA AppendTask ==
  ASSUME FuturesType, NEW t \in TaskStates, futures' = Append(futures, t)
  PROVE  /\ FuturesType' /\ Len(futures') = Len(futures) + 1
         /\ DOMAIN futures' = DOMAIN futures \union {Len(futures) + 1}
         /\ futures'[Len(futures) + 1] = t
         /\ \A g \in DOMAIN futures : futures'[g] = futures[g]
BY AppendProperties DEF FuturesType

LEMMA Indices ==
  ASSUME FuturesType
  PROVE  /\ DOMAIN futures = 1..Len(futures) /\ Len(futures) \in Nat
         /\ \A f \in DOMAIN futures : futures[f] \in TaskStates
BY DEF FuturesType

(* Only a chunk that crosses the edit gets anything but its content.       *)
LEMMA FreshKept ==
  ASSUME Parts, NEW c \in Chunks, UNCHANGED file,
         c \notin crossed' =>
           /\ c \notin crossed
           /\ ~Late => (Current(c) => Current(c)')
           /\ Late => /\ memory'[c] \in {None, memory[c]}
                      /\ disk'[c] \in {None, disk[c]}
  PROVE  FreshFor(c)'
<1>1. FreshFor(c)
  BY DEF Parts, Protocol, FreshInv
<1> SUFFICES ASSUME c \notin crossed' PROVE FreshFor(c)'
  BY DEF FreshFor
<1>2. CASE Late
  BY <1>1, <1>2 DEF FreshFor, Late, file
<1>3. CASE ~Late
  BY <1>1, <1>3 DEF FreshFor, Late, file
<1> QED
  BY <1>2, <1>3

(* The account of c, while no task moves: a copy that goes is counted.     *)
LEMMA OwedKept ==
  ASSUME Parts, NEW c \in Chunks, UNCHANGED futures, calls'[c] = calls[c],
         ~UseDisk => disk'[c] = None,
         \/ lost'[c] = lost[c] + 1
         \/ /\ lost'[c] = lost[c]
            /\ disk'[c] = None => disk[c] = None
            /\ memory'[c] = None /\ disk'[c] = None => memory[c] = None
  PROVE  OwedFor(c)'
<1>1. OwedFor(c) /\ calls[c] \in Nat /\ lost[c] \in Nat
  BY DEF Parts, Types, Protocol, OwedInv, HistoryType
<1>2. Putting(c)' <=> Putting(c)
  BY DEF Putting
<1> QED
  BY <1>1, <1>2 DEF OwedFor

-----------------------------------------------------------------------------
(* The initial states                                                      *)

LEMMA InitParts == Init => Parts
<1> SUFFICES ASSUME Init PROVE Parts
  OBVIOUS
<1> USE Bounds DEF Init
<1>1. FuturesType /\ Len(futures) = 0 /\ DOMAIN futures = {}
  BY DEF FuturesType
<1>2. RegistryType /\ ReaderType
  <2>1. NoEntry \in Entries(0)
    BY DEF NoEntry, Entries
  <2>2. Idle \in ReaderStates(0)
    BY DEF Idle, ReaderStates
  <2> QED
    BY <1>1, <2>1, <2>2 DEF RegistryType, ReaderType
<1>3. CacheType /\ FileType /\ HistoryType
  BY DEF CacheType, FileType, HistoryType
<1>4. ReaderInv /\ ActiveInv
  BY DEF ReaderInv, ReaderOK, ActiveInv, EntryOK, Idle, NoEntry
<1>5. TaskInv /\ LockInv /\ FileInv
  BY <1>1 DEF TaskInv, LockInv, FileInv
<1>6. OwedInv
  BY <1>1 DEF OwedInv, OwedFor, Putting
<1>7. FreshInv
  BY <1>1 DEF FreshInv, FreshFor, Current, Idle
<1> QED
  BY <1>1, <1>2, <1>3, <1>4, <1>5, <1>6, <1>7 DEF Parts, Types, Protocol

-----------------------------------------------------------------------------
(* The moves of a reader                                                   *)

(* Only reader r moves, and not away from add_done_callback.               *)
LEMMA ReaderMove ==
  ASSUME Parts, NEW r \in Readers, NEW h \in ReaderStates(Len(futures)),
         ReaderOK(h, futures), reader' = [reader EXCEPT ![r] = h],
         reader[r].at \notin {"callback", "prefetchCallback"},
         UNCHANGED <<futures, registry, file>>
  PROVE  /\ FuturesType' /\ RegistryType' /\ ReaderType' /\ FileType'
         /\ ReaderInv' /\ ActiveInv' /\ TaskInv' /\ LockInv' /\ FileInv'
<1> USE DEF Parts, Types, Protocol, registry, file
<1>1. FuturesType' /\ RegistryType' /\ FileType' /\ TaskInv' /\ FileInv'
  BY DEF FuturesType, RegistryType, FileType, TaskInv, FileInv
<1>2. ReaderType'
  BY DEF ReaderType
<1>3. ReaderInv'
  BY DEF ReaderInv, ReaderType
<1>4. ActiveInv'
  <2>1. \A f : Adding(f) => Adding(f)'
    BY DEF Adding, ReaderType
  <2> QED
    BY <2>1 DEF ActiveInv, EntryOK, LockFree
<1>5. LockInv'
  BY DEF LockInv, Locked
<1> QED
  BY <1>1, <1>2, <1>3, <1>4, <1>5

(* A reader that is at work moves on, and the caches stay.                 *)
LEMMA ReaderStep ==
  ASSUME Parts, NEW r \in Readers, NEW h \in ReaderStates(Len(futures)),
         ReaderOK(h, futures), reader' = [reader EXCEPT ![r] = h],
         reader[r].at \notin {"idle", "callback", "prefetchCallback"},
         h.at = "fill" => h.data = disk[h.chunk],
         UNCHANGED <<futures, registry, cache, file, history>>
  PROVE  Parts'
<1> USE DEF Parts, Types, Protocol
<1>1. /\ FuturesType' /\ RegistryType' /\ ReaderType' /\ FileType'
      /\ ReaderInv' /\ ActiveInv' /\ TaskInv' /\ LockInv' /\ FileInv'
  BY ReaderMove
<1>2. CacheType' /\ HistoryType'
  BY DEF CacheType, HistoryType, cache, history
<1>3. OwedInv'
  BY OwedKept DEF OwedInv, OwedFor, cache, history
<1>4. FreshInv'
  <2> SUFFICES ASSUME NEW c \in Chunks PROVE FreshFor(c)'
    BY DEF FreshInv
  <2>1. Current(c) => Current(c)'
    BY DEF Current, cache, file, ReaderType, ReaderOK
  <2> QED
    BY <2>1, FreshKept DEF history, cache
<1> QED
  BY <1>1, <1>2, <1>3, <1>4

LEMMA BeginStep ==
  ASSUME Parts, NEW r \in Readers, NEW first \in Chunks, NEW last \in Chunks,
         NEW s \in Sequential, Begin(r, first, last, s)
  PROVE  Parts'
<1> DEFINE h == [at |-> IF s THEN "aim" ELSE "lookup", chunk |-> first,
                 last |-> last, target |-> last + 1, future |-> NoFuture,
                 data |-> None]
<1> USE Bounds DEF Parts, Types, Protocol, Begin
<1>1. h \in ReaderStates(Len(futures)) /\ h.at # "fill"
  <2>1. s \in BOOLEAN /\ last + 1 \in 0..(NumChunks + Ahead)
    BY SwitchAssumption DEF Chunks
  <2> QED
    BY <2>1, Indices DEF ReaderStates
<1>2. ReaderOK(h, futures)
  BY DEF ReaderOK, Chunks
<1>3. reader' = [reader EXCEPT ![r] = h]
  OBVIOUS
<1> HIDE DEF h
<1>4. /\ FuturesType' /\ RegistryType' /\ ReaderType' /\ FileType'
      /\ ReaderInv' /\ ActiveInv' /\ TaskInv' /\ LockInv' /\ FileInv'
  BY <1>1, <1>2, <1>3, ReaderMove
<1>5. CacheType' /\ HistoryType'
  <2>1. CacheType'
    BY DEF CacheType, cache
  <2>2. reads' \in 0..MaxReads
    BY DEF HistoryType
  <2> QED
    BY <2>1, <2>2 DEF HistoryType
<1>6. OwedInv'
  BY OwedKept DEF OwedInv, OwedFor, cache
<1>7. FreshInv'
  <2> SUFFICES ASSUME NEW c \in Chunks PROVE FreshFor(c)'
    BY DEF FreshInv
  <2>1. Current(c) => Current(c)'
    BY <1>1, <1>3 DEF Current, cache, file, ReaderType
  <2> QED
    BY <2>1, FreshKept DEF cache
<1> QED
  BY <1>4, <1>5, <1>6, <1>7

(* The states a reader goes to                                             *)
LEMMA GotoState ==
  ASSUME Types, NEW r \in Readers,
         NEW at \in {"aimMemory", "aimDisk", "prefetch", "lookup", "lookupDisk",
                     "fetch", "wait", "stuck"},
         Goto(r, at)
  PROVE  \E h \in ReaderStates(Len(futures)) :
           /\ h = [reader[r] EXCEPT !.at = at]
           /\ reader' = [reader EXCEPT ![r] = h]
<1> DEFINE h == [reader[r] EXCEPT !.at = at]
<1>1. h \in ReaderStates(Len(futures))
  BY DEF Types, ReaderType, ReaderStates
<1>2. reader' = [reader EXCEPT ![r] = h]
  BY DEF Goto
<1> QED
  BY <1>1, <1>2

LEMMA NextTargetState ==
  ASSUME Parts, NEW r \in Readers, NextTarget(r),
         reader[r].at \in {"aim", "aimMemory", "aimDisk", "prefetch",
                           "prefetchCallback"}
  PROVE  \E h \in ReaderStates(Len(futures)) :
           /\ ReaderOK(h, futures) /\ h.at \in {"aim", "lookup"}
           /\ reader' = [reader EXCEPT ![r] = h]
<1> DEFINE h == [reader[r] EXCEPT !.target = @ + 1,
                   !.at = IF reader[r].target < reader[r].last + Ahead
                            THEN "aim" ELSE "lookup"]
<1>1. reader[r] \in ReaderStates(Len(futures)) /\ ReaderOK(reader[r], futures)
  BY DEF Parts, Types, Protocol, ReaderType, ReaderInv
<1>2. /\ reader[r].target \in 0..(NumChunks + Ahead) /\ reader[r].last \in Chunks
      /\ reader[r].target <= reader[r].last + Ahead
  BY <1>1 DEF ReaderStates, ReaderOK
<1>3. reader[r].target + 1 \in 0..(NumChunks + Ahead)
  BY <1>2, Bounds DEF Chunks
<1>4. h \in ReaderStates(Len(futures))
  BY <1>1, <1>3 DEF ReaderStates
<1>5. ReaderOK(h, futures) /\ h.at \in {"aim", "lookup"}
  BY <1>1, <1>2, Bounds DEF ReaderOK, ReaderStates, Chunks
<1>6. reader' = [reader EXCEPT ![r] = h]
  BY DEF NextTarget
<1> QED
  BY <1>4, <1>5, <1>6

LEMMA DeliverState ==
  ASSUME Parts, NEW r \in Readers, Deliver(r), reader[r].at # "idle"
  PROVE  \E h \in ReaderStates(Len(futures)) :
           /\ ReaderOK(h, futures) /\ h.at \in {"idle", "lookup"}
           /\ reader' = [reader EXCEPT ![r] = h]
<1> DEFINE h == IF reader[r].chunk = reader[r].last
                  THEN Idle ELSE NextChunk(reader[r])
<1>1. reader[r] \in ReaderStates(Len(futures)) /\ ReaderOK(reader[r], futures)
  BY DEF Parts, Types, Protocol, ReaderType, ReaderInv
<1>2. /\ reader[r].chunk \in Chunks /\ reader[r].last \in Chunks
      /\ reader[r].chunk <= reader[r].last
  BY <1>1 DEF ReaderStates, ReaderOK
<1>3. reader[r].chunk # reader[r].last =>
        reader[r].chunk + 1 \in Chunks /\ reader[r].chunk + 1 <= reader[r].last
  BY <1>2, Bounds DEF Chunks
<1>4. 0 \in 0..Len(futures)
  BY Indices DEF Parts, Types
<1>5. reader' = [reader EXCEPT ![r] = h]
  BY <1>1 DEF Deliver
<1>6. CASE reader[r].chunk = reader[r].last
  <2>1. h = Idle
    BY <1>6
  <2>2. Idle \in ReaderStates(Len(futures))
    BY <1>4, Bounds DEF ReaderStates, Idle
  <2>3. ReaderOK(Idle, futures) /\ Idle.at \in {"idle", "lookup"}
    BY DEF ReaderOK, Idle
  <2> QED
    BY <1>5, <2>1, <2>2, <2>3
<1>7. CASE reader[r].chunk # reader[r].last
  <2>1. h = NextChunk(reader[r])
    BY <1>7
  <2>2. h \in ReaderStates(Len(futures))
    BY <1>1, <1>3, <1>4, <1>7, <2>1, Bounds DEF ReaderStates, NextChunk
  <2>3. ReaderOK(h, futures) /\ h.at \in {"idle", "lookup"}
    BY <1>1, <1>3, <1>7, <2>1 DEF ReaderOK, ReaderStates, NextChunk
  <2> QED
    BY <1>5, <2>2, <2>3
<1> QED
  BY <1>6, <1>7

LEMMA AimStep ==
  ASSUME Parts, NEW r \in Readers, Aim(r) \/ AimMemory(r) \/ AimDisk(r)
  PROVE  Parts'
<1>1. /\ reader[r].at \in {"aim", "aimMemory", "aimDisk"}
      /\ UNCHANGED <<futures, registry, cache, file, history>>
  BY DEF Aim, AimMemory, AimDisk
<1>2. CASE NextTarget(r)
  BY <1>1, <1>2, NextTargetState, ReaderStep
<1>3. CASE \E at \in {"aimMemory", "aimDisk", "prefetch"} : Goto(r, at)
  <2>1. PICK at \in {"aimMemory", "aimDisk", "prefetch"} : Goto(r, at)
    BY <1>3
  <2>2. PICK h \in ReaderStates(Len(futures)) :
          /\ h = [reader[r] EXCEPT !.at = at]
          /\ reader' = [reader EXCEPT ![r] = h]
    BY <2>1, GotoState DEF Parts
  <2>3. ReaderOK(reader[r], futures) /\ reader[r] \in ReaderStates(Len(futures))
    BY DEF Parts, Types, Protocol, ReaderInv, ReaderType
  <2>4. ReaderOK(h, futures) /\ h.at # "fill"
    BY <1>1, <2>2, <2>3 DEF ReaderOK, ReaderStates
  <2> QED
    BY <1>1, <2>2, <2>4, ReaderStep
<1> QED
  BY <1>2, <1>3 DEF Aim, AimMemory, AimDisk

LEMMA LookupStep ==
  ASSUME Parts, NEW r \in Readers, Lookup(r) \/ LookupDisk(r)
  PROVE  Parts'
<1>1. /\ reader[r].at \in {"lookup", "lookupDisk"}
      /\ UNCHANGED <<futures, registry, cache, file, history>>
  BY DEF Lookup, LookupDisk
<1>2. ReaderOK(reader[r], futures) /\ reader[r] \in ReaderStates(Len(futures))
  BY DEF Parts, Types, Protocol, ReaderInv, ReaderType
<1>3. CASE Deliver(r)
  BY <1>1, <1>3, DeliverState, ReaderStep
<1>4. CASE \E at \in {"lookupDisk", "fetch"} : Goto(r, at)
  <2>1. PICK at \in {"lookupDisk", "fetch"} : Goto(r, at)
    BY <1>4
  <2>2. PICK h \in ReaderStates(Len(futures)) :
          /\ h = [reader[r] EXCEPT !.at = at]
          /\ reader' = [reader EXCEPT ![r] = h]
    BY <2>1, GotoState DEF Parts
  <2>3. ReaderOK(h, futures) /\ h.at # "fill"
    BY <1>1, <1>2, <2>2 DEF ReaderOK, ReaderStates
  <2> QED
    BY <1>1, <2>2, <2>3, ReaderStep
<1>5. CASE LookupDisk(r) /\ ~Goto(r, "fetch")
  <2> DEFINE c == reader[r].chunk
             h == [reader[r] EXCEPT !.at = "fill", !.data = disk[c]]
  <2>1. /\ c \in Chunks /\ disk[c] # None
        /\ reader' = [reader EXCEPT ![r].at = "fill", ![r].data = disk[c]]
    BY <1>2, <1>5 DEF LookupDisk, ReaderStates
  <2>2. disk[c] \in None..MaxEdits
    BY <2>1 DEF Parts, Types, CacheType
  <2>3. h \in ReaderStates(Len(futures)) /\ ReaderOK(h, futures)
    BY <1>1, <1>2, <2>1, <2>2 DEF ReaderStates, ReaderOK
  <2>4. reader' = [reader EXCEPT ![r] = h]
    BY <2>1 DEF Parts, Types, ReaderType
  <2>5. h.data = disk[h.chunk]
    BY <1>2 DEF ReaderStates
  <2> QED
    BY <1>1, <2>1, <2>3, <2>4, <2>5, ReaderStep
<1> QED
  BY <1>3, <1>4, <1>5 DEF Lookup, LookupDisk

LEMMA FillStep ==
  ASSUME Parts, NEW r \in Readers, Fill(r)
  PROVE  Parts'
<1> USE DEF Parts, Types, Protocol, Fill
<1>1. PICK h \in ReaderStates(Len(futures)) :
        /\ ReaderOK(h, futures) /\ h.at \in {"idle", "lookup"}
        /\ reader' = [reader EXCEPT ![r] = h]
  BY DeliverState
<1>2. /\ FuturesType' /\ RegistryType' /\ ReaderType' /\ FileType'
      /\ ReaderInv' /\ ActiveInv' /\ TaskInv' /\ LockInv' /\ FileInv'
  BY <1>1, ReaderMove
<1>3. /\ reader[r].chunk \in Chunks /\ reader[r].data \in None..MaxEdits
  BY DEF ReaderType, ReaderStates
<1>4. CacheType' /\ HistoryType'
  <2>1. crossed' \subseteq Chunks
    BY <1>3 DEF HistoryType, Crossing
  <2> QED
    BY <1>3, <2>1 DEF CacheType, HistoryType
<1>5. OwedInv'
  <2> SUFFICES ASSUME NEW c \in Chunks PROVE OwedFor(c)'
    BY DEF OwedInv
  <2>1. memory'[c] = None => memory[c] = None
    BY DEF CacheType, ReaderInv, ReaderOK
  <2> QED
    BY <2>1, OwedKept DEF OwedInv, OwedFor
<1>6. FreshInv'
  <2> SUFFICES ASSUME NEW c \in Chunks PROVE FreshFor(c)'
    BY DEF FreshInv
  <2>1. crossed \subseteq crossed'
        /\ (Late /\ c \notin crossed' => reader[r].chunk # c)
    BY DEF Crossing
  <2>2. reader[r].chunk # c => memory'[c] = memory[c]
    BY DEF CacheType
  <2>3. ASSUME Current(c) PROVE Current(c)'
    <3>1. reader[r].chunk = c => reader[r].data = drive
      BY <2>3 DEF Current
    <3>2. memory'[c] \in {None, drive}
      BY <2>3, <3>1 DEF Current, CacheType
    <3>3. \A q \in Readers : reader'[q].chunk = c /\ reader'[q].at = "fill" =>
                             reader'[q].data = drive
      BY <1>1, <2>3 DEF Current, ReaderType
    <3> QED
      BY <2>3, <3>2, <3>3 DEF Current, file
  <2> QED
    BY <2>1, <2>2, <2>3, FreshKept
<1> QED
  BY <1>2, <1>4, <1>5, <1>6

LEMMA ShareStep ==
  ASSUME Parts, NEW r \in Readers, Share(r)
  PROVE  Parts'
<1> DEFINE f == active[Wanted(r)].future
<1>1. /\ reader[r].at \in {"prefetch", "fetch"} /\ LockFree /\ f # NoFuture
      /\ Promotes(r) => ~Cancellable(f)
      /\ UNCHANGED <<futures, registry, cache, file, history>>
  BY DEF Share
<1>2. ReaderOK(reader[r], futures) /\ reader[r] \in ReaderStates(Len(futures))
  BY DEF Parts, Types, Protocol, ReaderInv, ReaderType
<1>3. CASE IsPrefetch(r)
  <2>1. NextTarget(r)
    BY <1>3 DEF Share
  <2>2. PICK h \in ReaderStates(Len(futures)) :
          /\ ReaderOK(h, futures) /\ h.at \in {"aim", "lookup"}
          /\ reader' = [reader EXCEPT ![r] = h]
    <3>1. reader[r].at = "prefetch"
      BY <1>3 DEF IsPrefetch
    <3> QED
      BY <2>1, <3>1, NextTargetState
  <2> QED
    BY <1>1, <2>2, ReaderStep
<1>4. CASE ~IsPrefetch(r)
  <2> DEFINE h == [reader[r] EXCEPT !.future = f, !.at = "wait"]
  <2>1. Wanted(r) = reader[r].chunk /\ reader[r].chunk \in Targets
    BY <1>2, <1>4, Bounds DEF Wanted, IsPrefetch, ReaderStates
  <2>2. /\ f \in 0..Len(futures)
        /\ EntryOK(Wanted(r), f, active[Wanted(r)].prefetch)
    BY <2>1
    DEF Parts, Types, Protocol, RegistryType, ActiveInv, Entries
  <2>3. f \in DOMAIN futures
    BY <1>1, <2>2, Indices, Bounds DEF Parts, Types
  <2>4. \/ ~futures[f].prefetch
        \/ futures[f].at \notin {"pending", "cancelled"}
    BY <1>1, <1>4, <2>2 DEF EntryOK, Promotes, Cancellable
  <2>5. h \in ReaderStates(Len(futures))
    BY <1>2, <2>2 DEF ReaderStates
  <2>6. ReaderOK(h, futures) /\ h.at = "wait"
    BY <1>1, <1>2, <2>3, <2>4 DEF ReaderOK, ReaderStates
  <2>7. reader' = [reader EXCEPT ![r] = h]
    BY <1>4 DEF Share, Parts, Types, ReaderType
  <2> QED
    BY <1>1, <2>5, <2>6, <2>7, ReaderStep
<1> QED
  BY <1>3, <1>4

LEMMA ResultStep ==
  ASSUME Parts, NEW r \in Readers, Result(r)
  PROVE  Parts'
<1>1. /\ reader[r].at = "wait"
      /\ UNCHANGED <<futures, registry, cache, file, history>>
  BY DEF Result
<1>2. CASE Deliver(r)
  BY <1>1, <1>2, DeliverState, ReaderStep
<1>3. CASE reader' = [reader EXCEPT ![r] = Idle]
  <2>1. Idle \in ReaderStates(Len(futures))
    BY Bounds, Indices DEF Idle, ReaderStates, Parts, Types
  <2>2. ReaderOK(Idle, futures) /\ Idle.at # "fill"
    BY DEF ReaderOK, Idle
  <2> QED
    BY <1>1, <1>3, <2>1, <2>2, ReaderStep
<1> QED
  BY <1>2, <1>3 DEF Result

-----------------------------------------------------------------------------
(* The moves of a reader that touch futures and active_downloads           *)

(* The downloads that hold a lock go on as they were.                      *)
SameWork(fs, gs) ==
  /\ \A g \in DOMAIN fs : fs[g].at \in LockedAt =>
       /\ g \in DOMAIN gs
       /\ gs[g].at = fs[g].at /\ gs[g].chunk = fs[g].chunk
       /\ gs[g].data = fs[g].data
  /\ \A g \in DOMAIN gs : gs[g].at \in LockedAt =>
       g \in DOMAIN fs /\ fs[g].at \in LockedAt

(* Then the locks, the downloads and the contents are as they were, too.   *)
LEMMA SameWorkKeeps ==
  ASSUME Parts, NEW r \in Readers, NEW h, reader' = [reader EXCEPT ![r] = h],
         h.at # "fill", reader[r].at # "idle", SameWork(futures, futures'),
         UNCHANGED <<cache, file, history>>
  PROVE  /\ CacheType' /\ FileType' /\ HistoryType'
         /\ LockInv' /\ FileInv' /\ OwedInv' /\ FreshInv'
<1> USE DEF Parts, Types, Protocol
<1>1. CacheType' /\ FileType' /\ HistoryType' /\ FileInv'
  BY DEF CacheType, FileType, HistoryType, FileInv, cache, file, history
<1>2. LockInv'
  BY DEF LockInv, Locked, SameWork, LockedAt
<1>3. OwedInv'
  <2> SUFFICES ASSUME NEW c \in Chunks PROVE OwedFor(c)'
    BY DEF OwedInv
  <2>1. OwedFor(c) /\ UNCHANGED <<calls, lost, memory, disk>>
    BY DEF OwedInv, cache, history
  <2>2. Putting(c) => Putting(c)'
    BY DEF Putting, SameWork, LockedAt
  <2>3. ASSUME NEW f \in DOMAIN futures', futures'[f].chunk = c,
               futures'[f].at \in {"call", "disk"}
        PROVE  f \in DOMAIN futures /\ futures[f].chunk = c
               /\ futures[f].at = futures'[f].at
    BY <2>3 DEF SameWork, LockedAt
  <2> QED
    BY <2>1, <2>2, <2>3 DEF OwedFor
<1>4. FreshInv'
  <2> SUFFICES ASSUME NEW c \in Chunks PROVE FreshFor(c)'
    BY DEF FreshInv
  <2>1. ASSUME Current(c) PROVE Current(c)'
    <3>1. \A q \in Readers : reader'[q].chunk = c /\ reader'[q].at = "fill" =>
                             reader'[q].data = drive
      BY <2>1 DEF Current, ReaderType
    <3>2. ASSUME NEW f \in DOMAIN futures', futures'[f].chunk = c,
                 futures'[f].at \in {"fill", "put", "write"}
          PROVE  futures'[f].data = drive
      BY <2>1, <3>2 DEF Current, SameWork, LockedAt
    <3> QED
      BY <2>1, <3>1, <3>2 DEF Current, cache, file
  <2> QED
    BY <2>1, FreshKept DEF history, cache
<1> QED
  BY <1>1, <1>2, <1>3, <1>4

(* What a reader asks for, and what is registered for it                   *)
LEMMA WantedEntry ==
  ASSUME Parts, NEW r \in Readers, reader[r].at \in {"prefetch", "fetch"}
  PROVE  /\ Wanted(r) \in Targets
         /\ reader[r] \in ReaderStates(Len(futures))
         /\ ReaderOK(reader[r], futures)
         /\ active[Wanted(r)] \in Entries(Len(futures))
         /\ active[Wanted(r)].future # NoFuture =>
              active[Wanted(r)].future \in DOMAIN futures
         /\ EntryOK(Wanted(r), active[Wanted(r)].future,
                    active[Wanted(r)].prefetch)
<1> USE DEF Parts, Types, Protocol
<1>1. /\ reader[r] \in ReaderStates(Len(futures))
      /\ ReaderOK(reader[r], futures)
  BY DEF ReaderInv, ReaderType
<1>2. Wanted(r) \in Targets
  <2>1. CASE reader[r].at = "prefetch"
    <3>1. /\ reader[r].target \in 0..(NumChunks + Ahead)
          /\ reader[r].last \in 0..(NumChunks - 1)
          /\ reader[r].target <= reader[r].last + Ahead
      BY <1>1, <2>1 DEF ReaderStates, ReaderOK, Chunks
    <3> QED
      BY <2>1, <3>1, Bounds DEF Wanted, Targets
  <2>2. CASE reader[r].at = "fetch"
    BY <1>1, <2>2, Bounds DEF Wanted, ReaderStates
  <2> QED
    BY <2>1, <2>2
<1>3. active[Wanted(r)] \in Entries(Len(futures))
  BY <1>2 DEF RegistryType
<1>4. active[Wanted(r)].future # NoFuture =>
        active[Wanted(r)].future \in DOMAIN futures
  BY <1>3, Indices, Bounds DEF Entries
<1> QED
  BY <1>1, <1>2, <1>3, <1>4 DEF ActiveInv

LEMMA PromoteStuckStep ==
  ASSUME Parts, NEW r \in Readers, PromoteStuck(r)
  PROVE  Parts'
<1> DEFINE c == Wanted(r)
           f == active[c].future
           t == [futures[f] EXCEPT !.at = "cancelled"]
<1> USE DEF Parts, Types, Protocol
<1>1. /\ reader[r].at = "fetch" /\ LockFree /\ f # NoFuture
      /\ active[c].prefetch
      /\ futures[f].at = "pending" /\ futures[f].callback
      /\ stuck' = {r} /\ Goto(r, "stuck")
      /\ UNCHANGED <<active, cache, file, history>>
  BY DEF PromoteStuck, Promotes, Cancellable
<1>2. /\ c \in Targets /\ f \in DOMAIN futures
      /\ EntryOK(c, f, active[c].prefetch)
  BY <1>1, WantedEntry
<1>3. futures[f] \in TaskStates /\ futures[f].prefetch
  BY <1>1, <1>2, Indices DEF EntryOK
<1>4. t \in TaskStates /\ TaskOK(t) /\ t.at = "cancelled"
  BY <1>3 DEF TaskStates, TaskOK, LockedAt
<1>5. futures' = [futures EXCEPT ![f] = t]
  BY <1>2 DEF PromoteStuck
<1>6. /\ t.chunk = futures[f].chunk /\ t.prefetch = futures[f].prefetch
      /\ t.callback = futures[f].callback
  BY <1>3 DEF TaskStates
<1> HIDE DEF t, f, c
<1>7. /\ FuturesType' /\ Len(futures') = Len(futures)
      /\ DOMAIN futures' = DOMAIN futures /\ futures'[f] = t
      /\ \A g \in DOMAIN futures : g # f => futures'[g] = futures[g]
  BY <1>2, <1>4, <1>5, ReplaceTask
<1>8. PICK h \in ReaderStates(Len(futures)) :
        /\ h = [reader[r] EXCEPT !.at = "stuck"]
        /\ reader' = [reader EXCEPT ![r] = h]
  BY <1>1, GotoState
<1>9. ReaderOK(h, futures') /\ h.at = "stuck"
  <2>1. ReaderOK(reader[r], futures) /\ reader[r] \in ReaderStates(Len(futures))
    BY DEF ReaderInv, ReaderType
  <2> QED
    BY <1>1, <1>8, <2>1 DEF ReaderOK, ReaderStates
<1>10. ReaderType' /\ RegistryType' /\ TaskInv'
  BY <1>1, <1>4, <1>7, <1>8 DEF ReaderType, RegistryType, TaskInv
<1>11. ReaderInv'
  <2> SUFFICES ASSUME NEW q \in Readers PROVE ReaderOK(reader'[q], futures')
    BY DEF ReaderInv
  <2>1. CASE q = r
    BY <1>8, <1>9, <2>1 DEF ReaderType
  <2>2. CASE q # r
    <3>1. reader'[q] = reader[q] /\ ReaderOK(reader[q], futures)
      BY <1>8, <2>2 DEF ReaderInv, ReaderType
    <3> QED
      BY <1>1, <1>3, <1>6, <1>7, <3>1 DEF ReaderOK
  <2> QED
    BY <2>1, <2>2
<1>12. ActiveInv'
  <2>1. ~LockFree'
    BY <1>1 DEF LockFree
  <2>2. \A g : Adding(g) => Adding(g)'
    BY <1>1, <1>8 DEF Adding, ReaderType
  <2>3. ASSUME NEW d \in Targets
        PROVE  EntryOK(d, active[d].future, active[d].prefetch)'
    <3> DEFINE g == active[d].future
    <3>1. EntryOK(d, g, active[d].prefetch) /\ active'[d] = active[d]
      BY <1>1 DEF ActiveInv
    <3>2. g # NoFuture => g \in DOMAIN futures
      BY Indices, Bounds DEF RegistryType, Entries
    <3> QED
      BY <1>4, <1>6, <1>7, <2>1, <2>2, <3>1, <3>2 DEF EntryOK
  <2> QED
    BY <2>3 DEF ActiveInv
<1>13. SameWork(futures, futures')
  BY <1>1, <1>4, <1>7 DEF SameWork, LockedAt
<1> QED
  BY <1>1, <1>7, <1>8, <1>9, <1>10, <1>11, <1>12, <1>13, SameWorkKeeps

(* A task f is registered for chunk c in place of what was there, and      *)
(* reader r is about to add its callback.                                  *)
LEMMA RegisterNew ==
  ASSUME Parts, NEW r \in Readers, NEW c \in Targets, NEW f \in DOMAIN futures',
         NEW p \in BOOLEAN, active' = [active EXCEPT ![c] = Entry(f, p)],
         stuck' = stuck,
         \A g \in DOMAIN futures : g # active[c].future => futures'[g] = futures[g],
         futures'[f].chunk = c, futures'[f].prefetch = p,
         futures'[f].at = "pending", ~futures'[f].callback,
         NEW h, reader' = [reader EXCEPT ![r] = h], h.future = f,
         h.at \in {"callback", "prefetchCallback"},
         reader[r].at \notin {"callback", "prefetchCallback"}
  PROVE  ActiveInv'
<1> USE DEF Parts, Types, Protocol
<1>1. \A g : Adding(g) => Adding(g)'
  BY DEF Adding, ReaderType
<1>2. Adding(f)'
  BY DEF Adding, ReaderType
<1> SUFFICES ASSUME NEW d \in Targets
             PROVE  EntryOK(d, active[d].future, active[d].prefetch)'
  BY DEF ActiveInv
<1>3. CASE d = c
  <2>1. active'[d].future = f /\ active'[d].prefetch = p
    BY <1>3 DEF RegistryType, Entry
  <2> QED
    BY <1>2, <1>3, <2>1 DEF EntryOK
<1>4. CASE d # c
  <2> DEFINE g == active[d].future
  <2>1. EntryOK(d, g, active[d].prefetch) /\ active'[d] = active[d]
    BY <1>4 DEF ActiveInv, RegistryType
  <2>2. g # NoFuture => g \in DOMAIN futures
    BY Indices, Bounds DEF RegistryType, Entries
  <2>3. g # NoFuture => g # active[c].future
    BY <1>4, <2>1 DEF ActiveInv, EntryOK
  <2>4. LockFree' <=> LockFree
    BY DEF LockFree
  <2> QED
    BY <1>1, <2>1, <2>2, <2>3, <2>4 DEF EntryOK
<1> QED
  BY <1>3, <1>4

LEMMA ScheduleNewStep ==
  ASSUME Parts, NEW r \in Readers, ScheduleNew(r)
  PROVE  Parts'
<1> DEFINE c == Wanted(r)
           f == Len(futures) + 1
           t == Task(c, IsPrefetch(r))
           h == [reader[r] EXCEPT !.future = f,
                   !.at = IF IsPrefetch(r) THEN "prefetchCallback" ELSE "callback"]
<1> USE DEF Parts, Types, Protocol
<1>1. /\ reader[r].at \in {"prefetch", "fetch"} /\ active[c] = NoEntry
      /\ futures' = Append(futures, t)
      /\ active' = [active EXCEPT ![c] = Entry(f, IsPrefetch(r))]
      /\ UNCHANGED <<stuck, cache, file, history>>
  BY DEF ScheduleNew
<1>2. /\ c \in Targets /\ reader[r] \in ReaderStates(Len(futures))
      /\ ReaderOK(reader[r], futures)
  BY <1>1, WantedEntry
<1>3. IsPrefetch(r) \in BOOLEAN /\ (IsPrefetch(r) <=> reader[r].at = "prefetch")
  BY DEF IsPrefetch
<1>4. t \in TaskStates
  BY <1>2, <1>3, Bounds DEF Task, TaskStates
<1>5. /\ t.chunk = c /\ t.prefetch = IsPrefetch(r) /\ t.at = "pending"
      /\ ~t.callback
  BY DEF Task
<1>6. TaskOK(t)
  BY <1>5 DEF TaskOK, LockedAt
<1>7. reader' = [reader EXCEPT ![r] = h]
  BY DEF ScheduleNew, ReaderType
<1>8. Len(futures) \in Nat /\ DOMAIN futures = 1..Len(futures)
  BY Indices
<1>9. h \in ReaderStates(Len(futures) + 1)
  <2>1. reader[r] \in ReaderStates(Len(futures) + 1) /\ f \in 0..(Len(futures) + 1)
    BY <1>2, <1>8, Longer
  <2> QED
    BY <2>1 DEF ReaderStates
<1>10. /\ h.future = f /\ h.chunk = reader[r].chunk /\ h.last = reader[r].last
       /\ h.target = reader[r].target
       /\ reader[r].at = "prefetch" => h.at = "prefetchCallback"
       /\ reader[r].at = "fetch" => h.at = "callback"
  BY <1>2, <1>3, <1>1 DEF ReaderStates
<1> HIDE DEF t, h
<1>11. /\ FuturesType' /\ Len(futures') = Len(futures) + 1
       /\ DOMAIN futures' = DOMAIN futures \union {f}
       /\ futures'[f] = t
       /\ \A g \in DOMAIN futures : futures'[g] = futures[g]
  BY <1>1, <1>4, AppendTask
<1>12. ReaderType' /\ RegistryType'
  <2>1. /\ ReaderStates(Len(futures)) \subseteq ReaderStates(Len(futures'))
        /\ Entries(Len(futures)) \subseteq Entries(Len(futures'))
    BY <1>8, <1>11, Longer
  <2>2. Entry(f, IsPrefetch(r)) \in Entries(Len(futures'))
    BY <1>3, <1>8, <1>11 DEF Entry, Entries
  <2> QED
    BY <1>1, <1>7, <1>9, <1>11, <2>1, <2>2 DEF ReaderType, RegistryType
<1>13. TaskInv'
  BY <1>6, <1>11 DEF TaskInv
<1>14. ReaderInv'
  <2> SUFFICES ASSUME NEW q \in Readers PROVE ReaderOK(reader'[q], futures')
    BY DEF ReaderInv
  <2>1. CASE q = r
    <3>1. ReaderOK(h, futures')
      BY <1>1, <1>2, <1>3, <1>5, <1>10, <1>11 DEF ReaderOK
    <3> QED
      BY <1>7, <2>1, <3>1 DEF ReaderType
  <2>2. CASE q # r
    <3>1. reader'[q] = reader[q] /\ ReaderOK(reader[q], futures)
      BY <1>7, <2>2 DEF ReaderInv, ReaderType
    <3> QED
      BY <1>11, <3>1 DEF ReaderOK
  <2> QED
    BY <2>1, <2>2
<1>15. ActiveInv'
  <2> HIDE DEF c, f
  <2>1. /\ f \in DOMAIN futures' /\ futures'[f].chunk = c
        /\ futures'[f].prefetch = IsPrefetch(r)
        /\ futures'[f].at = "pending" /\ ~futures'[f].callback
        /\ stuck' = stuck /\ h.at \in {"callback", "prefetchCallback"}
    BY <1>1, <1>5, <1>10, <1>11
  <2>2. \A g \in DOMAIN futures : g # active[c].future => futures'[g] = futures[g]
    BY <1>11
  <2> QED
    BY <1>1, <1>2, <1>3, <1>7, <1>10, <2>1, <2>2, RegisterNew
<1>16. SameWork(futures, futures')
  BY <1>5, <1>11 DEF SameWork, LockedAt
<1> QED
  BY <1>1, <1>7, <1>10, <1>11, <1>12, <1>13, <1>14, <1>15, <1>16, SameWorkKeeps

(* A future is cancelled and two downloads are submitted.                  *)
LEMMA ReplaceAndAppend ==
  ASSUME FuturesType, NEW f \in DOMAIN futures, NEW t \in TaskStates,
         NEW new \in TaskStates,
         futures' = [futures EXCEPT ![f] = t] \o <<new, new>>
  PROVE  /\ FuturesType' /\ Len(futures') = Len(futures) + 2
         /\ DOMAIN futures' =
              DOMAIN futures \union {Len(futures) + 1, Len(futures) + 2}
         /\ futures'[f] = t
         /\ futures'[Len(futures) + 1] = new /\ futures'[Len(futures) + 2] = new
         /\ \A g \in DOMAIN futures : g # f => futures'[g] = futures[g]
<1> DEFINE s == [futures EXCEPT ![f] = t]
<1>1. /\ s \in Seq(TaskStates) /\ Len(s) = Len(futures)
      /\ DOMAIN futures = 1..Len(futures) /\ Len(futures) \in Nat
      /\ s[f] = t /\ \A g \in DOMAIN futures : g # f => s[g] = futures[g]
  BY ExceptSeq DEF FuturesType
<1>2. /\ <<new, new>> \in Seq(TaskStates) /\ Len(<<new, new>>) = 2
      /\ <<new, new>>[1] = new /\ <<new, new>>[2] = new
  OBVIOUS
<1> HIDE DEF s
<1>3. /\ s \o <<new, new>> \in Seq(TaskStates)
      /\ Len(s \o <<new, new>>) = Len(futures) + 2
      /\ \A i \in 1..(Len(futures) + 2) :
           (s \o <<new, new>>)[i] = IF i <= Len(futures) THEN s[i]
                                    ELSE <<new, new>>[i - Len(futures)]
  BY <1>1, <1>2, ConcatProperties
<1>4. futures' = s \o <<new, new>>
  BY DEF s
<1>5. FuturesType' /\ DOMAIN futures' = 1..(Len(futures) + 2)
  BY <1>1, <1>3, <1>4 DEF FuturesType
<1>6. \A g \in DOMAIN futures : futures'[g] = s[g]
  BY <1>1, <1>3, <1>4
<1>7. futures'[Len(futures) + 1] = new /\ futures'[Len(futures) + 2] = new
  <2>1. /\ Len(futures) + 1 \in 1..(Len(futures) + 2)
        /\ Len(futures) + 2 \in 1..(Len(futures) + 2)
        /\ Len(futures) + 1 - Len(futures) = 1 /\ Len(futures) + 2 - Len(futures) = 2
        /\ ~(Len(futures) + 1 <= Len(futures)) /\ ~(Len(futures) + 2 <= Len(futures))
    BY <1>1
  <2> QED
    BY <1>2, <1>3, <1>4, <2>1
<1>8. futures'[f] = t /\ \A g \in DOMAIN futures : g # f => futures'[g] = futures[g]
  BY <1>1, <1>6
<1>9. /\ Len(futures') = Len(futures) + 2
      /\ DOMAIN futures' =
           DOMAIN futures \union {Len(futures) + 1, Len(futures) + 2}
  BY <1>1, <1>3, <1>4, <1>5
<1> QED
  BY <1>5, <1>7, <1>8, <1>9

LEMMA PromoteStep ==
  ASSUME Parts, NEW r \in Readers, Promote(r)
  PROVE  Parts'
<1> DEFINE c == Wanted(r)
           f == active[c].future
           f2 == Len(futures) + 2
           t == [futures[f] EXCEPT !.at = "cancelled"]
           new == Task(c, FALSE)
           h == [reader[r] EXCEPT !.future = f2, !.at = "callback"]
<1> USE DEF Parts, Types, Protocol
<1>1. /\ reader[r].at = "fetch" /\ f # NoFuture /\ active[c].prefetch
      /\ futures[f].at = "pending"
      /\ active' = [active EXCEPT ![c] = Entry(f2, FALSE)]
      /\ UNCHANGED <<stuck, cache, file, history>>
  BY DEF Promote, Promotes, Cancellable
<1>2. /\ c \in Targets /\ f \in DOMAIN futures
      /\ EntryOK(c, f, active[c].prefetch)
      /\ reader[r] \in ReaderStates(Len(futures)) /\ ReaderOK(reader[r], futures)
  BY <1>1, WantedEntry
<1>3. futures[f] \in TaskStates /\ futures[f].prefetch
  BY <1>1, <1>2, Indices DEF EntryOK
<1>4. /\ t \in TaskStates /\ t.at = "cancelled"
      /\ t.prefetch = futures[f].prefetch
  BY <1>3 DEF TaskStates
<1>5. new \in TaskStates
  BY <1>2, Bounds DEF Task, TaskStates
<1>6. new.chunk = c /\ ~new.prefetch /\ new.at = "pending" /\ ~new.callback
      /\ new.prefetch = FALSE
  BY DEF Task
<1>7. TaskOK(t) /\ TaskOK(new)
  BY <1>3, <1>4, <1>6 DEF TaskOK, LockedAt
<1>8. futures' = [futures EXCEPT ![f] = t] \o <<new, new>>
  <2>1. [futures EXCEPT ![f] = t] = [futures EXCEPT ![f].at = "cancelled"]
    BY <1>2
  <2> QED
    BY <2>1 DEF Promote
<1>9. reader' = [reader EXCEPT ![r] = h]
  BY DEF Promote, ReaderType
<1>10. Len(futures) \in Nat /\ DOMAIN futures = 1..Len(futures)
  BY Indices
<1>11. h \in ReaderStates(Len(futures) + 2)
  <2>1. reader[r] \in ReaderStates(Len(futures) + 2) /\ f2 \in 0..(Len(futures) + 2)
    BY <1>2, <1>10, Longer
  <2> QED
    BY <2>1 DEF ReaderStates
<1>12. /\ h.future = f2 /\ h.chunk = reader[r].chunk /\ h.last = reader[r].last
       /\ h.at = "callback"
  BY <1>2 DEF ReaderStates
<1> HIDE DEF t, new, h, f, c
<1>13. /\ FuturesType' /\ Len(futures') = Len(futures) + 2
       /\ DOMAIN futures' = DOMAIN futures \union {Len(futures) + 1, f2}
       /\ futures'[f] = t
       /\ futures'[Len(futures) + 1] = new /\ futures'[f2] = new
       /\ \A g \in DOMAIN futures : g # f => futures'[g] = futures[g]
  BY <1>2, <1>4, <1>5, <1>8, ReplaceAndAppend
<1>14. ReaderType' /\ RegistryType'
  <2>1. /\ ReaderStates(Len(futures)) \subseteq ReaderStates(Len(futures'))
        /\ Entries(Len(futures)) \subseteq Entries(Len(futures'))
    BY <1>10, <1>13, Longer
  <2>2. Entry(f2, FALSE) \in Entries(Len(futures'))
    BY <1>10, <1>13 DEF Entry, Entries
  <2> QED
    BY <1>1, <1>9, <1>11, <1>13, <2>1, <2>2 DEF ReaderType, RegistryType
<1>15. TaskInv'
  BY <1>7, <1>13 DEF TaskInv
<1>16. ReaderInv'
  <2> SUFFICES ASSUME NEW q \in Readers PROVE ReaderOK(reader'[q], futures')
    BY DEF ReaderInv
  <2>1. CASE q = r
    <3>1. ReaderOK(h, futures')
      BY <1>1, <1>2, <1>6, <1>12, <1>13 DEF ReaderOK
    <3> QED
      BY <1>9, <2>1, <3>1 DEF ReaderType
  <2>2. CASE q # r
    <3>1. reader'[q] = reader[q] /\ ReaderOK(reader[q], futures)
      BY <1>9, <2>2 DEF ReaderInv, ReaderType
    <3> QED
      BY <1>1, <1>3, <1>4, <1>13, <3>1 DEF ReaderOK
  <2> QED
    BY <2>1, <2>2
<1>17. ActiveInv'
  <2>1. \A g \in DOMAIN futures : g # active[c].future => futures'[g] = futures[g]
    BY <1>13 DEF f
  <2> HIDE DEF f2
  <2>2. /\ f2 \in DOMAIN futures' /\ futures'[f2].chunk = c
        /\ futures'[f2].prefetch = FALSE
        /\ futures'[f2].at = "pending" /\ ~futures'[f2].callback
        /\ stuck' = stuck /\ h.at \in {"callback", "prefetchCallback"}
    BY <1>1, <1>6, <1>12, <1>13
  <2> QED
    BY <1>1, <1>2, <1>9, <1>12, <2>1, <2>2, RegisterNew
<1>18. SameWork(futures, futures')
  BY <1>1, <1>4, <1>6, <1>13 DEF SameWork, LockedAt
<1> QED
  BY <1>1, <1>9, <1>12, <1>13, <1>14, <1>15, <1>16, <1>17, <1>18, SameWorkKeeps

(* A callback added to a future that is done runs at once.                 *)
LEMMA AddCallbackStep ==
  ASSUME Parts, NEW r \in Readers, AddCallback(r)
  PROVE  Parts'
<1> DEFINE f == reader[r].future
           t == [futures[f] EXCEPT !.callback = TRUE]
<1> USE DEF Parts, Types, Protocol
<1>1. /\ reader[r].at \in {"callback", "prefetchCallback"}
      /\ Done(f) => LockFree
      /\ UNCHANGED <<stuck, cache, file, history>>
  BY DEF AddCallback
<1>2. /\ reader[r] \in ReaderStates(Len(futures)) /\ ReaderOK(reader[r], futures)
      /\ f \in DOMAIN futures /\ f # NoFuture
  <2>1. reader[r] \in ReaderStates(Len(futures)) /\ ReaderOK(reader[r], futures)
    BY DEF ReaderInv, ReaderType
  <2> QED
    BY <1>1, <2>1, Indices, Bounds DEF ReaderOK
<1>3. PICK h \in ReaderStates(Len(futures)) :
        /\ ReaderOK(h, futures) /\ h.at \in {"wait", "aim", "lookup"}
        /\ reader' = [reader EXCEPT ![r] = h]
  <2>1. CASE reader[r].at = "callback"
    <3>1. Goto(r, "wait")
      BY <2>1 DEF AddCallback
    <3>2. PICK h \in ReaderStates(Len(futures)) :
            /\ h = [reader[r] EXCEPT !.at = "wait"]
            /\ reader' = [reader EXCEPT ![r] = h]
      BY <3>1, GotoState
    <3>3. ReaderOK(h, futures) /\ h.at = "wait"
      BY <1>2, <2>1, <3>2 DEF ReaderOK, ReaderStates
    <3> QED
      BY <3>2, <3>3
  <2>2. CASE reader[r].at = "prefetchCallback"
    <3>1. NextTarget(r)
      BY <2>2 DEF AddCallback
    <3>2. PICK h \in ReaderStates(Len(futures)) :
            /\ ReaderOK(h, futures) /\ h.at \in {"aim", "lookup"}
            /\ reader' = [reader EXCEPT ![r] = h]
      BY <2>2, <3>1, NextTargetState
    <3> QED
      BY <3>2
  <2> QED
    BY <1>1, <2>1, <2>2
<1>4. futures[f] \in TaskStates
  BY <1>2, Indices
<1> HIDE DEF f
<1>5. \A g : g # f /\ Adding(g) => Adding(g)'
  BY <1>3 DEF Adding, ReaderType, f
<1>6. LockFree' <=> LockFree
  BY <1>1 DEF LockFree
<1>7. CASE Done(f)
  <2> DEFINE c == futures[f].chunk
  <2>1. futures' = futures /\ active' = [active EXCEPT ![c] = NoEntry]
    BY <1>7 DEF AddCallback, f
  <2>2. c \in Targets
    BY <1>4 DEF TaskStates
  <2>3. FuturesType' /\ ReaderType' /\ RegistryType' /\ TaskInv'
    <3>1. NoEntry \in Entries(Len(futures))
      BY Indices DEF NoEntry, NoFuture, Entries
    <3> QED
      BY <1>1, <1>3, <2>1, <2>2, <3>1
      DEF FuturesType, ReaderType, RegistryType, TaskInv
  <2>4. ReaderInv'
    BY <1>3, <2>1 DEF ReaderInv, ReaderType
  <2>5. ActiveInv'
    <3> SUFFICES ASSUME NEW d \in Targets
                 PROVE  EntryOK(d, active[d].future, active[d].prefetch)'
      BY DEF ActiveInv
    <3>1. CASE d = c
      <4>1. active'[d] = NoEntry
        BY <2>1, <3>1 DEF RegistryType
      <4> QED
        BY <4>1 DEF EntryOK, NoEntry
    <3>2. CASE d # c
      <4>1. EntryOK(d, active[d].future, active[d].prefetch) /\ active'[d] = active[d]
        BY <2>1, <3>2 DEF ActiveInv, RegistryType
      <4>2. active[d].future # NoFuture => active[d].future # f
        BY <3>2, <4>1 DEF EntryOK
      <4> QED
        BY <1>5, <1>6, <2>1, <4>1, <4>2 DEF EntryOK
    <3> QED
      BY <3>1, <3>2
  <2>6. SameWork(futures, futures')
    BY <2>1 DEF SameWork
  <2> QED
    BY <1>1, <1>3, <2>3, <2>4, <2>5, <2>6, SameWorkKeeps
<1>8. CASE ~Done(f)
  <2>1. futures' = [futures EXCEPT ![f] = t] /\ active' = active
    BY <1>2, <1>8 DEF AddCallback, f
  <2>2. /\ t \in TaskStates /\ t.at = futures[f].at /\ t.chunk = futures[f].chunk
        /\ t.prefetch = futures[f].prefetch /\ t.data = futures[f].data
        /\ t.callback
    BY <1>4 DEF TaskStates
  <2> HIDE DEF t
  <2>3. /\ FuturesType' /\ Len(futures') = Len(futures)
        /\ DOMAIN futures' = DOMAIN futures /\ futures'[f] = t
        /\ \A g \in DOMAIN futures : g # f => futures'[g] = futures[g]
    BY <1>2, <2>1, <2>2, ReplaceTask
  <2>4. ReaderType' /\ RegistryType'
    BY <1>1, <1>3, <2>1, <2>3 DEF ReaderType, RegistryType
  <2>5. TaskInv'
    <3>1. TaskOK(futures[f])
      BY <1>2 DEF TaskInv
    <3>2. TaskOK(t)
      BY <2>2, <3>1 DEF TaskOK
    <3> QED
      BY <2>3, <3>2 DEF TaskInv
  <2>6. ReaderInv'
    <3> SUFFICES ASSUME NEW q \in Readers PROVE ReaderOK(reader'[q], futures')
      BY DEF ReaderInv
    <3>1. ReaderOK(reader'[q], futures)
      BY <1>3 DEF ReaderInv, ReaderType
    <3> QED
      BY <2>2, <2>3, <3>1 DEF ReaderOK
  <2>7. ActiveInv'
    <3> SUFFICES ASSUME NEW d \in Targets
                 PROVE  EntryOK(d, active[d].future, active[d].prefetch)'
      BY DEF ActiveInv
    <3>1. EntryOK(d, active[d].future, active[d].prefetch)
      BY DEF ActiveInv
    <3>2. active[d].future # NoFuture => active[d].future \in DOMAIN futures
      BY Indices, Bounds DEF RegistryType, Entries
    <3>3. CASE active[d].future = f
      BY <1>6, <1>8, <2>1, <2>2, <2>3, <3>1, <3>3 DEF EntryOK, Done
    <3>4. CASE active[d].future # f
      BY <1>5, <1>6, <2>1, <2>3, <3>1, <3>2, <3>4 DEF EntryOK
    <3> QED
      BY <3>3, <3>4
  <2>8. SameWork(futures, futures')
    BY <2>2, <2>3 DEF SameWork
  <2> QED
    BY <1>1, <1>3, <2>3, <2>4, <2>5, <2>6, <2>7, <2>8, SameWorkKeeps
<1> QED
  BY <1>7, <1>8

-----------------------------------------------------------------------------
(* The moves of a download                                                 *)

(* What t is of f: the same task, further on                               *)
Further(f, t) ==
  /\ t.chunk = futures[f].chunk /\ t.prefetch = futures[f].prefetch
  /\ t.callback = futures[f].callback
  /\ futures[f].at \notin {"cancelled", "over"}
  /\ t.at \notin {"pending", "cancelled"}

LEMMA TaskMove ==
  ASSUME Parts, NEW f \in DOMAIN futures, NEW t \in TaskStates,
         futures' = [futures EXCEPT ![f] = t], Further(f, t), TaskOK(t),
         t.at \in LockedAt => Locked(f) \/ ~HasLock(t.chunk),
         UNCHANGED <<reader, file>>
  PROVE  /\ FuturesType' /\ ReaderType' /\ FileType'
         /\ ReaderInv' /\ TaskInv' /\ LockInv' /\ FileInv'
<1> USE DEF Parts, Types, Protocol
<1>1. /\ FuturesType' /\ Len(futures') = Len(futures)
      /\ DOMAIN futures' = DOMAIN futures /\ futures'[f] = t
      /\ \A g \in DOMAIN futures : g # f => futures'[g] = futures[g]
  BY ReplaceTask
<1>2. ReaderType' /\ FileType' /\ FileInv'
  BY <1>1 DEF ReaderType, FileType, FileInv, file
<1>3. ReaderInv'
  <2> SUFFICES ASSUME NEW r \in Readers PROVE ReaderOK(reader[r], futures')
    BY DEF ReaderInv
  <2>1. ReaderOK(reader[r], futures)
    BY DEF ReaderInv
  <2> QED
    BY <1>1, <2>1 DEF ReaderOK, Further
<1>4. TaskInv'
  BY <1>1 DEF TaskInv
<1>5. LockInv'
  <2> SUFFICES ASSUME NEW g \in DOMAIN futures, NEW k \in DOMAIN futures,
                      Locked(g)', Locked(k)',
                      futures'[g].chunk = futures'[k].chunk
               PROVE  g = k
    BY <1>1 DEF LockInv
  <2>1. \A i \in DOMAIN futures : futures'[i].chunk = futures[i].chunk
    BY <1>1 DEF Further
  <2>2. \A i \in DOMAIN futures : i # f => (Locked(i)' <=> Locked(i))
    BY <1>1 DEF Locked
  <2>3. Locked(f)' => t.at \in LockedAt
    BY <1>1 DEF Locked, LockedAt
  <2> QED
    BY <2>1, <2>2, <2>3 DEF LockInv, HasLock, Further
<1> QED
  BY <1>1, <1>2, <1>3, <1>4, <1>5

LEMMA EntriesStay ==
  ASSUME Parts, NEW f \in DOMAIN futures, NEW t \in TaskStates,
         futures' = [futures EXCEPT ![f] = t], Further(f, t),
         t.at = "over" => ~t.callback, UNCHANGED <<reader, registry>>
  PROVE  RegistryType' /\ ActiveInv'
<1> USE DEF Parts, Types, Protocol, registry
<1>1. /\ Len(futures') = Len(futures) /\ futures'[f] = t
      /\ \A g \in DOMAIN futures : g # f => futures'[g] = futures[g]
  BY ReplaceTask
<1>2. RegistryType'
  BY <1>1 DEF RegistryType
<1>3. ActiveInv'
  <2> SUFFICES ASSUME NEW c \in Targets
               PROVE  EntryOK(c, active[c].future, active[c].prefetch)'
    BY DEF ActiveInv
  <2>1. EntryOK(c, active[c].future, active[c].prefetch)
    BY DEF ActiveInv
  <2>2. active[c].future # NoFuture => active[c].future \in DOMAIN futures
    BY Indices, Bounds DEF RegistryType, Entries
  <2>3. \A g : Adding(g)' <=> Adding(g)
    BY DEF Adding
  <2> QED
    BY <1>1, <2>1, <2>2, <2>3 DEF EntryOK, Further, LockFree
<1> QED
  BY <1>2, <1>3

(* A task moves on, and looks at a cache or goes to Drive only if the chunk *)
(* is owed a call.                                                         *)
LEMMA OwedStays ==
  ASSUME Parts, NEW f \in DOMAIN futures, NEW t \in TaskStates,
         futures' = [futures EXCEPT ![f] = t], Further(f, t),
         futures[f].at # "put",
         t.at = "call" => calls[t.chunk] <= lost[t.chunk],
         t.at = "disk" /\ disk[t.chunk] = None => calls[t.chunk] <= lost[t.chunk],
         UNCHANGED <<calls, lost, cache>>
  PROVE  OwedInv'
<1>1. /\ DOMAIN futures' = DOMAIN futures /\ futures'[f] = t
      /\ \A g \in DOMAIN futures : g # f => futures'[g] = futures[g]
  BY ReplaceTask DEF Parts, Types
<1> SUFFICES ASSUME NEW c \in Chunks PROVE OwedFor(c)'
  BY DEF OwedInv
<1>2. OwedFor(c) /\ UNCHANGED <<memory, disk>>
  BY DEF Parts, Protocol, OwedInv, cache
<1>3. Putting(c) => Putting(c)'
  BY <1>1 DEF Putting
<1>4. ASSUME NEW g \in DOMAIN futures, futures'[g].chunk = c,
             \/ futures'[g].at = "call"
             \/ futures'[g].at = "disk" /\ disk[c] = None
      PROVE  calls[c] <= lost[c]
  <2>1. CASE g = f
    BY <1>1, <1>4, <2>1
  <2>2. CASE g # f
    BY <1>1, <1>2, <1>4, <2>2 DEF OwedFor
  <2> QED
    BY <2>1, <2>2
<1> QED
  BY <1>1, <1>2, <1>3, <1>4 DEF OwedFor

(* A task moves on with content that was current, and puts it where it is  *)
(* seen to cross an edit.                                                  *)
LEMMA FreshStays ==
  ASSUME Parts, NEW f \in DOMAIN futures, NEW t \in TaskStates,
         futures' = [futures EXCEPT ![f] = t], Further(f, t),
         Current(t.chunk) =>
           /\ t.at \in {"fill", "put", "write"} => t.data = drive
           /\ memory'[t.chunk] \in {None, drive}
           /\ disk'[t.chunk] \in {None, drive},
         \A c \in Chunks : c # t.chunk => memory'[c] = memory[c] /\ disk'[c] = disk[c],
         \/ UNCHANGED <<cache, crossed>>
         \/ Crossing(t.chunk),
         UNCHANGED <<reader, file>>
  PROVE  FreshInv'
<1>1. /\ DOMAIN futures' = DOMAIN futures /\ futures'[f] = t
      /\ \A g \in DOMAIN futures : g # f => futures'[g] = futures[g]
  BY ReplaceTask DEF Parts, Types
<1> SUFFICES ASSUME NEW c \in Chunks PROVE FreshFor(c)'
  BY DEF FreshInv
<1>2. ASSUME Current(c) PROVE Current(c)'
  <2>1. memory'[c] \in {None, drive} /\ disk'[c] \in {None, drive}
    BY <1>2 DEF Current
  <2>2. ASSUME NEW g \in DOMAIN futures, futures'[g].chunk = c,
               futures'[g].at \in {"fill", "put", "write"}
        PROVE  futures'[g].data = drive
    BY <1>1, <1>2, <2>2 DEF Current
  <2> QED
    BY <1>1, <1>2, <2>1, <2>2 DEF Current, file
<1>3. crossed \subseteq crossed'
  BY DEF Crossing
<1>4. Late /\ c \notin crossed' => memory'[c] = memory[c] /\ disk'[c] = disk[c]
  BY DEF Crossing, cache
<1> QED
  BY <1>2, <1>3, <1>4, FreshKept

(* A task goes on and nothing else changes.                                *)
LEMMA WorkStep ==
  ASSUME Parts, NEW f \in DOMAIN futures, NEW t \in TaskStates,
         futures' = [futures EXCEPT ![f] = t], Further(f, t), TaskOK(t),
         t.at \in LockedAt => Locked(f) \/ ~HasLock(t.chunk),
         t.at = "over" => ~t.callback,
         futures[f].at # "put", t.at \notin {"put", "write"},
         t.at = "fill" => t.data = disk[t.chunk],
         t.at = "call" => calls[t.chunk] <= lost[t.chunk],
         t.at = "disk" /\ disk[t.chunk] = None => calls[t.chunk] <= lost[t.chunk],
         UNCHANGED <<registry, reader, cache, file, history>>
  PROVE  Parts'
<1> USE DEF Parts, Types, Protocol
<1>1. CacheType' /\ HistoryType'
  BY DEF CacheType, HistoryType, cache, history
<1>2. OwedInv'
  BY OwedStays DEF history
<1>3. FreshInv'
  <2>1. Current(t.chunk) =>
          /\ t.at \in {"fill", "put", "write"} => t.data = drive
          /\ memory'[t.chunk] \in {None, drive}
          /\ disk'[t.chunk] \in {None, drive}
    BY DEF Current, cache, TaskOK
  <2>2. UNCHANGED <<reader, file, cache, crossed>>
    BY DEF history
  <2> QED
    BY <2>1, <2>2, FreshStays DEF cache
<1> QED
  BY <1>1, <1>2, <1>3, TaskMove, EntriesStay

LEMMA AtState ==
  ASSUME FuturesType, NEW f \in DOMAIN futures,
         NEW at \in LockedAt \union {"start", "result", "pop", "over"}, At(f, at)
  PROVE  \E t \in TaskStates :
           /\ futures' = [futures EXCEPT ![f] = t]
           /\ t.at = at /\ t.chunk = futures[f].chunk
           /\ t.prefetch = futures[f].prefetch /\ t.data = futures[f].data
           /\ t.callback = futures[f].callback
<1> DEFINE t == [futures[f] EXCEPT !.at = at]
<1>1. futures[f] \in TaskStates
  BY Indices
<1>2. /\ t \in TaskStates
      /\ t.at = at /\ t.chunk = futures[f].chunk
      /\ t.prefetch = futures[f].prefetch /\ t.data = futures[f].data
      /\ t.callback = futures[f].callback
  BY <1>1 DEF TaskStates, LockedAt
<1>3. futures' = [futures EXCEPT ![f] = t]
  BY DEF At
<1> QED
  BY <1>2, <1>3

LEMMA TaskFacts ==
  ASSUME Parts, NEW f \in DOMAIN futures
  PROVE  futures[f] \in TaskStates /\ TaskOK(futures[f])
BY Indices DEF Parts, Types, Protocol, TaskInv

LEMMA RunStep ==
  ASSUME Parts, NEW f \in DOMAIN futures, Run(f)
  PROVE  Parts'
<1> DEFINE at == IF futures[f].chunk \in Chunks THEN "start" ELSE "result"
<1>1. futures[f].at = "pending"
  BY DEF Run, Queued
<1>2. at \in {"start", "result"} /\ At(f, at)
  BY DEF Run
<1>3. PICK t \in TaskStates :
        /\ futures' = [futures EXCEPT ![f] = t]
        /\ t.at = at /\ t.chunk = futures[f].chunk
        /\ t.prefetch = futures[f].prefetch /\ t.data = futures[f].data
        /\ t.callback = futures[f].callback
  BY <1>2, AtState DEF Parts, Types
<1>4. Further(f, t)
  BY <1>1, <1>2, <1>3 DEF Further
<1>5. TaskOK(t) /\ t.at \notin LockedAt
  BY <1>3 DEF TaskOK, LockedAt
<1> QED
  BY <1>1, <1>2, <1>3, <1>4, <1>5, WorkStep DEF Run, LockedAt

LEMMA LockStep ==
  ASSUME Parts, NEW f \in DOMAIN futures, Lock(f)
  PROVE  Parts'
<1>1. futures[f].at = "start" /\ ~HasLock(futures[f].chunk) /\ At(f, "memory")
  BY DEF Lock
<1>2. PICK t \in TaskStates :
        /\ futures' = [futures EXCEPT ![f] = t]
        /\ t.at = "memory" /\ t.chunk = futures[f].chunk
        /\ t.prefetch = futures[f].prefetch /\ t.data = futures[f].data
        /\ t.callback = futures[f].callback
  BY <1>1, AtState DEF Parts, Types, LockedAt
<1>3. Further(f, t)
  BY <1>1, <1>2 DEF Further
<1>4. TaskOK(t)
  BY <1>1, <1>2, TaskFacts DEF TaskOK, LockedAt
<1> QED
  BY <1>1, <1>2, <1>3, <1>4, WorkStep DEF Lock

LEMMA CheckMemoryStep ==
  ASSUME Parts, NEW f \in DOMAIN futures, CheckMemory(f)
  PROVE  Parts'
<1> DEFINE at == IF memory[futures[f].chunk] # None THEN "result" ELSE "disk"
<1>1. futures[f].at = "memory" /\ Locked(f)
  BY DEF CheckMemory, Locked
<1>2. at \in {"result", "disk"} /\ At(f, at)
  BY DEF CheckMemory
<1>3. PICK t \in TaskStates :
        /\ futures' = [futures EXCEPT ![f] = t]
        /\ t.at = at /\ t.chunk = futures[f].chunk
        /\ t.prefetch = futures[f].prefetch /\ t.data = futures[f].data
        /\ t.callback = futures[f].callback
  BY <1>2, AtState DEF Parts, Types, LockedAt
<1>4. Further(f, t)
  BY <1>1, <1>2, <1>3 DEF Further
<1>5. TaskOK(t)
  BY <1>1, <1>2, <1>3, TaskFacts DEF TaskOK, LockedAt
<1>6. /\ t.at # "call"
      /\ t.at = "disk" /\ disk[t.chunk] = None => calls[t.chunk] <= lost[t.chunk]
  <2> SUFFICES ASSUME at = "disk", disk[t.chunk] = None
               PROVE  calls[t.chunk] <= lost[t.chunk]
    BY <1>2, <1>3
  <2>1. t.chunk \in Chunks /\ memory[t.chunk] = None
    BY <1>1, <1>3, TaskFacts DEF TaskOK, LockedAt
  <2>2. OwedFor(t.chunk)
    BY <2>1 DEF Parts, Protocol, OwedInv
  <2>3. ~Putting(t.chunk)
    <3>1. ASSUME NEW g \in DOMAIN futures, futures[g].chunk = futures[f].chunk,
                 futures[g].at = "put"
          PROVE  FALSE
      BY <1>1, <3>1 DEF Parts, Protocol, LockInv, Locked
    <3> QED
      BY <1>3, <3>1 DEF Putting
  <2> QED
    BY <2>1, <2>2, <2>3 DEF OwedFor
<1> QED
  BY <1>1, <1>2, <1>3, <1>4, <1>5, <1>6, WorkStep DEF CheckMemory

LEMMA CheckDiskStep ==
  ASSUME Parts, NEW f \in DOMAIN futures, CheckDisk(f)
  PROVE  Parts'
<1> DEFINE c == futures[f].chunk
           found == IF UseDisk THEN disk[c] ELSE None
           t == [futures[f] EXCEPT !.data = found,
                   !.at = IF found = None THEN "call" ELSE "fill"]
<1>1. futures[f].at = "disk" /\ Locked(f)
  BY DEF CheckDisk, Locked
<1>2. futures[f] \in TaskStates /\ TaskOK(futures[f])
  BY TaskFacts
<1>3. c \in Chunks
  BY <1>1, <1>2 DEF TaskOK, LockedAt
<1>4. found \in None..MaxEdits /\ found = disk[c]
  BY <1>3, Bounds DEF Parts, Types, CacheType, Protocol, OwedInv, OwedFor
<1>5. futures' = [futures EXCEPT ![f] = t]
  BY DEF CheckDisk
<1> HIDE DEF found
<1>6. /\ t \in TaskStates /\ t.chunk = c /\ t.data = found
      /\ t.prefetch = futures[f].prefetch /\ t.callback = futures[f].callback
      /\ \/ t.at = "call" /\ found = None
         \/ t.at = "fill" /\ found # None
  BY <1>2, <1>4 DEF TaskStates
<1> HIDE DEF t, c
<1>7. Further(f, t) /\ TaskOK(t)
  BY <1>1, <1>3, <1>6 DEF Further, TaskOK, c
<1>8. /\ t.at \notin {"put", "write", "over", "disk"}
      /\ t.at = "call" => calls[t.chunk] <= lost[t.chunk]
      /\ t.at = "fill" => t.data = disk[t.chunk]
  <2>1. OwedFor(c)
    BY <1>3 DEF Parts, Protocol, OwedInv
  <2>2. found = None => calls[c] <= lost[c]
    BY <1>1, <1>4, <2>1 DEF OwedFor, c
  <2> QED
    BY <1>3, <1>4, <1>6, <2>2
<1> QED
  BY <1>1, <1>5, <1>6, <1>7, <1>8, WorkStep DEF CheckDisk

LEMMA FinishStep ==
  ASSUME Parts, NEW f \in DOMAIN futures, Finish(f)
  PROVE  Parts'
<1> DEFINE at == IF futures[f].callback THEN "pop" ELSE "over"
<1>1. futures[f].at = "result"
  BY DEF Finish
<1>2. at \in {"pop", "over"} /\ At(f, at) /\ (at = "over" => ~futures[f].callback)
  BY DEF Finish
<1>3. PICK t \in TaskStates :
        /\ futures' = [futures EXCEPT ![f] = t]
        /\ t.at = at /\ t.chunk = futures[f].chunk
        /\ t.prefetch = futures[f].prefetch /\ t.data = futures[f].data
        /\ t.callback = futures[f].callback
  BY <1>2, AtState DEF Parts, Types
<1>4. Further(f, t)
  BY <1>1, <1>2, <1>3 DEF Further
<1>5. TaskOK(t) /\ t.at \notin LockedAt
  BY <1>2, <1>3 DEF TaskOK, LockedAt
<1> QED
  BY <1>1, <1>2, <1>3, <1>4, <1>5, WorkStep DEF Finish, LockedAt

(* The chunk goes to the memory cache, from disk or from Drive.            *)
LEMMA PutStep ==
  ASSUME Parts, NEW f \in DOMAIN futures, FillMemory(f) \/ Put(f)
  PROVE  Parts'
<1> DEFINE c == futures[f].chunk
<1> USE DEF Parts, Types, Protocol
<1>1. PICK at \in {"result", "write"} :
        /\ At(f, at) /\ futures[f].at \in {"fill", "put"}
        /\ memory' = [memory EXCEPT ![c] = futures[f].data]
        /\ Crossing(c)
        /\ UNCHANGED <<registry, reader, disk, file, reads, evictions, calls, lost>>
  BY DEF FillMemory, Put
<1>2. /\ futures[f] \in TaskStates /\ TaskOK(futures[f]) /\ Locked(f)
      /\ c \in Chunks /\ futures[f].data \in None..MaxEdits
      /\ futures[f].data # None
  BY <1>1, TaskFacts DEF TaskStates, TaskOK, Locked, LockedAt
<1>3. PICK t \in TaskStates :
        /\ futures' = [futures EXCEPT ![f] = t]
        /\ t.at = at /\ t.chunk = c
        /\ t.prefetch = futures[f].prefetch /\ t.data = futures[f].data
        /\ t.callback = futures[f].callback
  BY <1>1, AtState DEF LockedAt
<1> HIDE DEF c
<1>4. Further(f, t)
  BY <1>1, <1>3 DEF Further, c
<1>5. TaskOK(t)
  BY <1>1, <1>2, <1>3 DEF TaskOK, LockedAt
<1>6. CacheType' /\ HistoryType'
  <2>1. crossed' \subseteq Chunks
    BY <1>1, <1>2 DEF Crossing, HistoryType
  <2> QED
    BY <1>1, <1>2, <2>1 DEF CacheType, HistoryType
<1>7. OwedInv'
  <2> SUFFICES ASSUME NEW d \in Chunks PROVE OwedFor(d)'
    BY DEF OwedInv
  <2>1. /\ DOMAIN futures' = DOMAIN futures /\ futures'[f] = t
        /\ \A g \in DOMAIN futures : g # f => futures'[g] = futures[g]
    BY <1>3, ReplaceTask
  <2>2. OwedFor(d)
    BY DEF OwedInv
  <2>3. ASSUME NEW g \in DOMAIN futures, futures'[g].at \in {"call", "disk"}
        PROVE  futures'[g] = futures[g]
    BY <1>1, <1>3, <2>1, <2>3
  <2>4. CASE d = c
    <3>1. memory'[d] # None
      BY <1>1, <1>2, <2>4 DEF CacheType
    <3> QED
      BY <1>1, <2>1, <2>2, <2>3, <3>1 DEF OwedFor
  <2>5. CASE d # c
    <3>1. memory'[d] = memory[d]
      BY <1>1, <2>5 DEF CacheType
    <3>2. Putting(d) => Putting(d)'
      BY <2>1, <2>5 DEF Putting, c
    <3> QED
      BY <1>1, <2>1, <2>2, <2>3, <3>1, <3>2 DEF OwedFor
  <2> QED
    BY <2>4, <2>5
<1>8. FreshInv'
  <2>1. Current(t.chunk) => t.data = drive
    BY <1>1, <1>3 DEF Current, c
  <2>2. Current(t.chunk) =>
          memory'[t.chunk] \in {None, drive} /\ disk'[t.chunk] \in {None, drive}
    BY <1>1, <1>2, <1>3, <2>1 DEF Current, CacheType
  <2>3. \A d \in Chunks : d # t.chunk => memory'[d] = memory[d] /\ disk'[d] = disk[d]
    BY <1>1, <1>3 DEF CacheType
  <2>4. Crossing(t.chunk) /\ UNCHANGED <<reader, file>>
    BY <1>1, <1>3
  <2> QED
    BY <1>3, <1>4, <2>1, <2>2, <2>3, <2>4, FreshStays
<1>9. RegistryType' /\ ActiveInv'
  BY <1>1, <1>3, <1>4, EntriesStay
<1> QED
  BY <1>1, <1>2, <1>3, <1>4, <1>5, <1>6, <1>7, <1>8, <1>9, TaskMove

(* Drive answers, or fails.                                                *)
LEMMA CallStep ==
  ASSUME Parts, NEW f \in DOMAIN futures, Call(f)
  PROVE  Parts'
<1> DEFINE c == futures[f].chunk
<1> USE DEF Parts, Types, Protocol
<1>1. futures[f].at = "call" /\ Locked(f)
      /\ UNCHANGED <<registry, reader, cache, file, reads, evictions, lost, crossed>>
  BY DEF Call, Locked
<1>2. futures[f] \in TaskStates /\ TaskOK(futures[f]) /\ c \in Chunks
  BY <1>1, TaskFacts DEF TaskOK, LockedAt
<1>3. drive \in 0..MaxEdits
  BY DEF FileType
<1>4. CASE /\ futures' = [futures EXCEPT ![f].at = "result", ![f].failed = TRUE]
           /\ UNCHANGED calls
  <2> DEFINE t == [futures[f] EXCEPT !.at = "result", !.failed = TRUE]
  <2>1. futures' = [futures EXCEPT ![f] = t]
    BY <1>4
  <2>2. /\ t \in TaskStates /\ t.chunk = c /\ t.at = "result"
        /\ t.prefetch = futures[f].prefetch /\ t.callback = futures[f].callback
    BY <1>2 DEF TaskStates
  <2> HIDE DEF t
  <2>3. Further(f, t) /\ TaskOK(t)
    BY <1>1, <2>2 DEF Further, TaskOK, LockedAt
  <2>4. UNCHANGED history
    BY <1>1, <1>4 DEF history
  <2> QED
    BY <1>1, <2>1, <2>2, <2>3, <2>4, WorkStep
<1>5. CASE /\ futures' = [futures EXCEPT ![f].at = "put", ![f].data = drive]
           /\ calls' = [calls EXCEPT ![futures[f].chunk] = @ + 1]
  <2> DEFINE t == [futures[f] EXCEPT !.at = "put", !.data = drive]
  <2>1. futures' = [futures EXCEPT ![f] = t]
    BY <1>5
  <2>2. /\ t \in TaskStates /\ t.chunk = c /\ t.at = "put" /\ t.data = drive
        /\ t.prefetch = futures[f].prefetch /\ t.callback = futures[f].callback
    BY <1>2, <1>3, Bounds DEF TaskStates
  <2> HIDE DEF t, c
  <2>3. Further(f, t) /\ TaskOK(t)
    BY <1>1, <1>2, <1>3, <2>2, Bounds DEF Further, TaskOK, LockedAt, c
  <2>4. calls' = [calls EXCEPT ![c] = @ + 1] /\ calls \in [Chunks -> Nat]
    BY <1>5 DEF c, HistoryType
  <2>5. CacheType' /\ HistoryType'
    BY <1>1, <1>2, <2>4 DEF CacheType, HistoryType, cache
  <2>6. OwedInv'
    <3> SUFFICES ASSUME NEW d \in Chunks PROVE OwedFor(d)'
      BY DEF OwedInv
    <3>1. UNCHANGED <<memory, disk, lost>>
      BY <1>1 DEF cache
    <3>2. /\ DOMAIN futures' = DOMAIN futures /\ futures'[f] = t
          /\ \A g \in DOMAIN futures : g # f => futures'[g] = futures[g]
      BY <2>1, <2>2, ReplaceTask
    <3>3. OwedFor(d) /\ calls[d] \in Nat /\ lost[d] \in Nat
      BY <2>4 DEF OwedInv, HistoryType
    <3>4. CASE d = c
      <4>1. calls[d] <= lost[d]
        BY <1>1, <3>3, <3>4 DEF OwedFor, c
      <4>2. calls'[d] = calls[d] + 1
        BY <2>4, <3>4
      <4>3. Putting(d)'
        BY <2>2, <3>2, <3>4 DEF Putting
      <4>4. ASSUME NEW g \in DOMAIN futures, futures'[g].chunk = d,
                   futures'[g].at \in {"call", "disk"}
            PROVE  FALSE
        <5>1. g # f /\ futures'[g] = futures[g]
          BY <2>2, <3>2, <4>4
        <5> QED
          BY <1>1, <3>4, <4>4, <5>1 DEF LockInv, Locked, c
      <4> QED
        BY <3>1, <3>2, <3>3, <4>1, <4>2, <4>3, <4>4 DEF OwedFor
    <3>5. CASE d # c
      <4>1. calls'[d] = calls[d]
        BY <2>4, <3>5
      <4>2. \A g \in DOMAIN futures : futures[g].chunk = d => futures'[g] = futures[g]
        BY <3>2, <3>5 DEF c
      <4>3. \A g \in DOMAIN futures : futures'[g].chunk = d => futures'[g] = futures[g]
        BY <2>2, <3>2, <3>5
      <4>4. Putting(d) => Putting(d)'
        BY <3>2, <4>2 DEF Putting
      <4> QED
        BY <3>1, <3>2, <3>3, <4>1, <4>3, <4>4 DEF OwedFor
    <3> QED
      BY <3>4, <3>5
  <2>7. FreshInv'
    <3>1. Current(t.chunk) =>
            memory'[t.chunk] \in {None, drive} /\ disk'[t.chunk] \in {None, drive}
      BY <1>1 DEF Current, cache
    <3>2. UNCHANGED <<reader, file, memory, disk, cache, crossed>>
      BY <1>1 DEF cache
    <3> QED
      BY <2>1, <2>2, <2>3, <3>1, <3>2, FreshStays
  <2>8. RegistryType' /\ ActiveInv'
    BY <1>1, <2>1, <2>2, <2>3, EntriesStay
  <2> QED
    BY <1>1, <2>1, <2>2, <2>3, <2>5, <2>6, <2>7, <2>8, TaskMove
<1> QED
  BY <1>4, <1>5 DEF Call

(* The chunk is written, or its write fails and it stays in memory alone.  *)
LEMMA WriteDiskStep ==
  ASSUME Parts, NEW f \in DOMAIN futures, WriteDisk(f)
  PROVE  Parts'
<1> DEFINE c == futures[f].chunk
           kept == /\ UseDisk
                   /\ disk' = [disk EXCEPT ![c] = futures[f].data]
                   /\ Crossing(c)
<1> USE DEF Parts, Types, Protocol
<1>1. /\ futures[f].at = "write" /\ Locked(f)
      /\ UNCHANGED <<registry, reader, memory, file, reads, evictions, calls, lost>>
  BY DEF WriteDisk, Locked
<1>2. /\ futures[f] \in TaskStates /\ TaskOK(futures[f]) /\ c \in Chunks
      /\ futures[f].data \in None..MaxEdits /\ futures[f].data # None
  BY <1>1, TaskFacts DEF TaskStates, TaskOK, LockedAt
<1>3. PICK t \in TaskStates :
        /\ futures' = [futures EXCEPT ![f] = t]
        /\ t.at = "result" /\ t.chunk = c
        /\ t.prefetch = futures[f].prefetch
        /\ t.callback = futures[f].callback
        /\ kept \/ UNCHANGED <<disk, crossed>>
  <2>1. CASE kept /\ At(f, "result")
    BY <2>1, AtState
  <2>2. CASE \E raises \in {FALSE, UseDisk} :
               /\ futures' = [futures EXCEPT ![f].at = "result", ![f].failed = raises]
               /\ UNCHANGED <<disk, crossed>>
    <3>1. PICK raises \in BOOLEAN :
            /\ futures' = [futures EXCEPT ![f].at = "result", ![f].failed = raises]
            /\ UNCHANGED <<disk, crossed>>
      BY <2>2, Bounds
    <3> DEFINE u == [futures[f] EXCEPT !.at = "result", !.failed = raises]
    <3>2. futures' = [futures EXCEPT ![f] = u]
      BY <3>1
    <3>3. /\ u \in TaskStates /\ u.at = "result" /\ u.chunk = c
          /\ u.prefetch = futures[f].prefetch /\ u.callback = futures[f].callback
      BY <1>2 DEF TaskStates
    <3> HIDE DEF u
    <3> QED
      BY <3>1, <3>2, <3>3
  <2> QED
    BY <2>1, <2>2 DEF WriteDisk
<1> HIDE DEF c
<1>4. Further(f, t) /\ TaskOK(t)
  BY <1>1, <1>3 DEF Further, TaskOK, LockedAt, c
<1>5. CacheType' /\ HistoryType'
  <2>1. crossed' \subseteq Chunks
    BY <1>2, <1>3 DEF Crossing, HistoryType
  <2>2. disk' \in [Chunks -> None..MaxEdits]
    BY <1>2, <1>3 DEF CacheType
  <2> QED
    BY <1>1, <2>1, <2>2 DEF CacheType, HistoryType
<1>6. OwedInv'
  <2> SUFFICES ASSUME NEW d \in Chunks PROVE OwedFor(d)'
    BY DEF OwedInv
  <2>1. /\ DOMAIN futures' = DOMAIN futures /\ futures'[f] = t
        /\ \A g \in DOMAIN futures : g # f => futures'[g] = futures[g]
    BY <1>3, ReplaceTask
  <2>2. OwedFor(d)
    BY DEF OwedInv
  <2>3. /\ ~UseDisk => disk'[d] = None
        /\ disk'[d] = None => disk[d] = None
    BY <1>2, <1>3, <2>2 DEF CacheType, OwedFor
  <2>4. ASSUME NEW g \in DOMAIN futures, futures'[g].at \in {"call", "disk"}
        PROVE  futures'[g] = futures[g]
    BY <1>3, <2>1, <2>4
  <2>5. Putting(d) => Putting(d)'
    BY <1>1, <2>1 DEF Putting
  <2> QED
    BY <1>1, <2>1, <2>2, <2>3, <2>4, <2>5 DEF OwedFor
<1>7. FreshInv'
  <2>1. Current(t.chunk) => futures[f].data = drive
    BY <1>1, <1>3 DEF Current, c
  <2>2. Current(t.chunk) =>
          memory'[t.chunk] \in {None, drive} /\ disk'[t.chunk] \in {None, drive}
    BY <1>1, <1>2, <1>3, <2>1 DEF Current, CacheType
  <2>3. \A d \in Chunks : d # t.chunk => memory'[d] = memory[d] /\ disk'[d] = disk[d]
    BY <1>1, <1>3 DEF CacheType
  <2>4. UNCHANGED <<cache, crossed>> \/ Crossing(t.chunk)
    BY <1>1, <1>3 DEF cache
  <2> QED
    BY <1>1, <1>3, <1>4, <2>2, <2>3, <2>4, FreshStays
<1>8. RegistryType' /\ ActiveInv'
  BY <1>1, <1>3, <1>4, EntriesStay
<1> QED
  BY <1>1, <1>3, <1>4, <1>5, <1>6, <1>7, <1>8, TaskMove DEF LockedAt

(* The worker pops the entry of the chunk, whatever it is by now: another  *)
(* future is then found by nobody, and that is no harm to it.              *)
LEMMA RemoveFutureStep ==
  ASSUME Parts, NEW f \in DOMAIN futures, RemoveFuture(f)
  PROVE  Parts'
<1> DEFINE c == futures[f].chunk
<1> USE DEF Parts, Types, Protocol
<1>1. /\ futures[f].at = "pop" /\ At(f, "over")
      /\ active' = [active EXCEPT ![c] = NoEntry]
      /\ UNCHANGED <<stuck, reader, cache, file, history>>
  BY DEF RemoveFuture
<1>2. c \in Targets
  BY TaskFacts DEF TaskStates
<1>3. PICK t \in TaskStates :
        /\ futures' = [futures EXCEPT ![f] = t]
        /\ t.at = "over" /\ t.chunk = c
        /\ t.prefetch = futures[f].prefetch /\ t.data = futures[f].data
        /\ t.callback = futures[f].callback
  BY <1>1, AtState
<1> HIDE DEF c
<1>4. Further(f, t) /\ TaskOK(t)
  BY <1>1, <1>3 DEF Further, TaskOK, LockedAt, c
<1>5. CacheType' /\ HistoryType'
  BY <1>1 DEF CacheType, HistoryType, cache, history
<1>6. OwedInv'
  BY <1>1, <1>3, <1>4, OwedStays DEF history
<1>7. FreshInv'
  <2>1. Current(t.chunk) =>
          memory'[t.chunk] \in {None, drive} /\ disk'[t.chunk] \in {None, drive}
    BY <1>1 DEF Current, cache
  <2>2. UNCHANGED <<reader, file, memory, disk, cache, crossed>>
    BY <1>1 DEF history, cache
  <2> QED
    BY <1>3, <1>4, <2>1, <2>2, FreshStays
<1>8. /\ Len(futures') = Len(futures) /\ futures'[f] = t
      /\ \A g \in DOMAIN futures : g # f => futures'[g] = futures[g]
  BY <1>3, ReplaceTask
<1>9. RegistryType'
  <2>1. NoEntry \in Entries(Len(futures))
    BY Indices DEF NoEntry, NoFuture, Entries
  <2> QED
    BY <1>1, <1>2, <1>8, <2>1 DEF RegistryType
<1>10. ActiveInv'
  <2> SUFFICES ASSUME NEW d \in Targets
               PROVE  EntryOK(d, active[d].future, active[d].prefetch)'
    BY DEF ActiveInv
  <2>1. CASE d = c
    <3>1. active'[d] = NoEntry
      BY <1>1, <2>1 DEF RegistryType
    <3> QED
      BY <3>1 DEF EntryOK, NoEntry
  <2>2. CASE d # c
    <3>1. /\ EntryOK(d, active[d].future, active[d].prefetch)
          /\ active'[d] = active[d]
      BY <1>1, <2>2 DEF ActiveInv, RegistryType
    <3>2. active[d].future # NoFuture =>
            active[d].future # f /\ active[d].future \in DOMAIN futures
      BY <2>2, <3>1, Indices, Bounds DEF EntryOK, RegistryType, Entries, c
    <3>3. \A g : Adding(g)' <=> Adding(g)
      BY <1>1 DEF Adding
    <3> QED
      BY <1>1, <1>8, <3>1, <3>2, <3>3 DEF EntryOK, LockFree
  <2> QED
    BY <2>1, <2>2
<1> QED
  BY <1>1, <1>3, <1>4, <1>5, <1>6, <1>7, <1>9, <1>10, TaskMove DEF LockedAt

-----------------------------------------------------------------------------
(* Eviction and the release of an edit                                     *)

(* No reader, future or entry changes.                                     *)
LEMMA Undisturbed ==
  ASSUME Parts, UNCHANGED <<futures, registry, reader>>
  PROVE  /\ FuturesType' /\ RegistryType' /\ ReaderType'
         /\ ReaderInv' /\ ActiveInv' /\ TaskInv' /\ LockInv'
<1> USE DEF Parts, Types, Protocol, registry
<1>1. /\ FuturesType' /\ RegistryType' /\ ReaderType' /\ ReaderInv' /\ TaskInv'
      /\ LockInv'
  BY DEF FuturesType, RegistryType, ReaderType, ReaderInv, TaskInv, LockInv, Locked
<1>2. ActiveInv'
  <2>1. \A g : Adding(g)' <=> Adding(g)
    BY DEF Adding
  <2> QED
    BY <2>1 DEF ActiveInv, EntryOK, LockFree
<1> QED
  BY <1>1, <1>2

(* What is lost is counted, chunk by chunk.                                *)
LEMMA LosingState ==
  ASSUME HistoryType, NEW gone, Losing(gone)
  PROVE  /\ lost' \in [Chunks -> Nat]
         /\ \A c \in Chunks : lost'[c] = IF c \in gone THEN lost[c] + 1 ELSE lost[c]
BY DEF Losing, HistoryType

LEMMA EvictStep ==
  ASSUME Parts, NEW c \in Chunks, Evict(c)
  PROVE  Parts'
<1> USE DEF Parts, Types, Protocol, Evict
<1>1. /\ FuturesType' /\ RegistryType' /\ ReaderType'
      /\ ReaderInv' /\ ActiveInv' /\ TaskInv' /\ LockInv'
  BY Undisturbed
<1>2. \A d \in Chunks : memory'[d] = IF d = c THEN None ELSE memory[d]
  BY DEF CacheType
<1>3. CacheType' /\ HistoryType'
  BY Bounds, LosingState DEF CacheType, HistoryType
<1>4. FileType' /\ FileInv'
  BY DEF FileType, FileInv, file
<1>5. OwedInv'
  <2> SUFFICES ASSUME NEW d \in Chunks PROVE OwedFor(d)'
    BY DEF OwedInv
  <2>1. lost'[d] = IF d = c /\ disk[d] = None THEN lost[d] + 1 ELSE lost[d]
    BY LosingState DEF OnlyInMemory
  <2> QED
    BY <1>2, <2>1, OwedKept DEF OwedInv, OwedFor
<1>6. FreshInv'
  <2> SUFFICES ASSUME NEW d \in Chunks PROVE FreshFor(d)'
    BY DEF FreshInv
  <2>1. Current(d) => Current(d)'
    BY <1>2 DEF Current, file
  <2> QED
    BY <1>2, <2>1, FreshKept
<1> QED
  BY <1>1, <1>3, <1>4, <1>5, <1>6

LEMMA EnqueueEditStep == Parts /\ EnqueueEdit => Parts'
<1> SUFFICES ASSUME Parts, EnqueueEdit PROVE Parts'
  OBVIOUS
<1> USE DEF Parts, Types, Protocol, EnqueueEdit
<1>1. /\ FuturesType' /\ RegistryType' /\ ReaderType'
      /\ ReaderInv' /\ ActiveInv' /\ TaskInv' /\ LockInv'
  BY Undisturbed
<1>2. CacheType' /\ HistoryType'
  BY DEF CacheType, HistoryType, cache, history
<1>3. FileType' /\ FileInv'
  BY Bounds DEF FileType, FileInv
<1>4. OwedInv'
  BY OwedKept DEF OwedInv, OwedFor, cache, history
<1>5. FreshInv'
  BY DEF FreshInv, FreshFor, history
<1> QED
  BY <1>1, <1>2, <1>3, <1>4, <1>5

LEMMA InvalidateMemoryStep == Parts /\ InvalidateMemory => Parts'
<1> SUFFICES ASSUME Parts, InvalidateMemory PROVE Parts'
  OBVIOUS
<1> USE DEF Parts, Types, Protocol, InvalidateMemory
<1>1. /\ FuturesType' /\ RegistryType' /\ ReaderType'
      /\ ReaderInv' /\ ActiveInv' /\ TaskInv' /\ LockInv'
  BY Undisturbed
<1>2. CacheType' /\ FileType'
  BY Bounds DEF CacheType, FileType
<1>3. HistoryType'
  BY LosingState DEF HistoryType
<1>4. FileInv'
  BY DEF FileInv
<1>5. OwedInv'
  <2> SUFFICES ASSUME NEW c \in Chunks PROVE OwedFor(c)'
    BY DEF OwedInv
  <2>1. lost'[c] = IF memory[c] # None /\ disk[c] = None THEN lost[c] + 1
                                                        ELSE lost[c]
    BY LosingState DEF OnlyInMemory
  <2> QED
    BY <2>1, OwedKept DEF OwedInv, OwedFor
<1>6. FreshInv'
  BY DEF FreshInv, FreshFor
<1> QED
  BY <1>1, <1>2, <1>3, <1>4, <1>5, <1>6

(* Once both caches are empty, only what is in hand may be old.            *)
LEMMA NothingInHand ==
  ASSUME NEW c \in Chunks, ~InHand(c), UNCHANGED <<futures, reader>>,
         memory'[c] = None, disk'[c] = None
  PROVE  Current(c)'
BY DEF InHand, Current

LEMMA InvalidateDiskStep == Parts /\ InvalidateDisk => Parts'
<1> SUFFICES ASSUME Parts, InvalidateDisk PROVE Parts'
  OBVIOUS
<1> USE DEF Parts, Types, Protocol, InvalidateDisk
<1>1. /\ FuturesType' /\ RegistryType' /\ ReaderType'
      /\ ReaderInv' /\ ActiveInv' /\ TaskInv' /\ LockInv'
  BY Undisturbed
<1>2. PICK kept \in SUBSET {c \in Chunks : disk[c] # None} :
        /\ disk' = [c \in Chunks |-> IF c \in kept THEN disk[c] ELSE None]
        /\ Losing({c \in Chunks \ kept : disk[c] # None})
        /\ crossed' = crossed \union kept \union {c \in Chunks : InHand(c)}
  OBVIOUS
<1>3. CacheType' /\ FileType' /\ HistoryType'
  <2>1. CacheType' /\ FileType'
    BY <1>2, Bounds DEF CacheType, FileType
  <2>2. HistoryType'
    BY <1>2, LosingState DEF HistoryType
  <2> QED
    BY <2>1, <2>2
<1>4. FileInv'
  BY DEF FileInv
<1>5. OwedInv'
  <2> SUFFICES ASSUME NEW c \in Chunks PROVE OwedFor(c)'
    BY DEF OwedInv
  <2>1. lost'[c] = IF c \notin kept /\ disk[c] # None THEN lost[c] + 1 ELSE lost[c]
    BY <1>2, LosingState
  <2> QED
    BY <1>2, <2>1, OwedKept DEF OwedInv, OwedFor
<1>6. FreshInv'
  <2> SUFFICES ASSUME NEW c \in Chunks, c \notin crossed' PROVE FreshFor(c)'
    BY DEF FreshInv, FreshFor
  <2>1. memory'[c] = None /\ disk'[c] = None
    BY <1>2 DEF FreshInv, FreshFor
  <2>2. Current(c)'
    BY <1>2, <2>1, NothingInHand
  <2> QED
    BY <2>1, <2>2 DEF FreshFor
<1> QED
  BY <1>1, <1>3, <1>4, <1>5, <1>6

LEMMA UploadedStep == Parts /\ Uploaded => Parts'
<1> SUFFICES ASSUME Parts, Uploaded PROVE Parts'
  OBVIOUS
<1> USE DEF Parts, Types, Protocol, Uploaded
<1>1. /\ FuturesType' /\ RegistryType' /\ ReaderType'
      /\ ReaderInv' /\ ActiveInv' /\ TaskInv' /\ LockInv'
  BY Undisturbed
<1>2. CacheType' /\ FileType' /\ FileInv'
  <2>1. CacheType' /\ FileInv' /\ pending' \in BOOLEAN
    BY DEF CacheType, FileInv, cache
  <2>2. drive' \in 0..MaxEdits
    BY Bounds DEF FileType, FileInv
  <2> QED
    BY <2>1, <2>2 DEF FileType
<1>3. HistoryType'
  BY DEF HistoryType
<1>4. OwedInv'
  BY OwedKept DEF OwedInv, OwedFor, cache
<1>5. FreshInv'
  <2> SUFFICES ASSUME NEW c \in Chunks, c \notin crossed' PROVE FreshFor(c)'
    BY DEF FreshInv, FreshFor
  <2>1. FreshFor(c) /\ c \notin crossed /\ ~InHand(c)
    BY DEF FreshInv
  <2>2. edit = "none" => Current(c)'
    BY <2>1, NothingInHand DEF FreshFor, cache
  <2> QED
    BY <2>1, <2>2 DEF FreshFor, cache
<1> QED
  BY <1>1, <1>2, <1>3, <1>4, <1>5

-----------------------------------------------------------------------------
(* The theorems                                                            *)

LEMMA ReadStep ==
  ASSUME Parts, NEW r \in Readers, Read(r)
  PROVE  Parts'
BY AimStep, LookupStep, FillStep, ScheduleNewStep, ShareStep, PromoteStuckStep,
   PromoteStep, AddCallbackStep, ResultStep
DEF Read, Schedule

LEMMA DownloadStep ==
  ASSUME Parts, NEW f \in DOMAIN futures, Download(f)
  PROVE  Parts'
BY RunStep, LockStep, CheckMemoryStep, CheckDiskStep, PutStep, CallStep,
   WriteDiskStep, FinishStep, RemoveFutureStep
DEF Download

LEMMA StutterStep == Parts /\ UNCHANGED vars => Parts'
<1> SUFFICES ASSUME Parts, UNCHANGED vars PROVE Parts'
  OBVIOUS
<1> USE DEF Parts, Types, Protocol, vars, registry, cache, file, history
<1>1. UNCHANGED <<futures, registry, reader>>
  OBVIOUS
<1>2. /\ FuturesType' /\ RegistryType' /\ ReaderType'
      /\ ReaderInv' /\ ActiveInv' /\ TaskInv' /\ LockInv'
  BY <1>1, Undisturbed
<1>3. CacheType' /\ FileType' /\ HistoryType'
  BY DEF CacheType, FileType, HistoryType
<1>4. FileInv' /\ OwedInv'
  BY OwedKept DEF FileInv, OwedInv, OwedFor
<1>5. FreshInv'
  BY DEF FreshInv, FreshFor, Current
<1> QED
  BY <1>2, <1>3, <1>4, <1>5

(* The types and the protocol of readers, entries, tasks and locks, with   *)
(* what each download leaves behind, hold of every behaviour.              *)
THEOREM Inductive == Spec => []IInv
<1>1. Parts <=> IInv
  BY TypeParts DEF Parts, Types, IInv
<1>2. Parts /\ [Next]_vars => Parts'
  <2> SUFFICES ASSUME Parts, [Next]_vars PROVE Parts'
    OBVIOUS
  <2>1. CASE \E r \in Readers : Read(r)
    BY <2>1, ReadStep
  <2>2. CASE \E r \in Readers : \E first, last \in Chunks, s \in Sequential :
               Begin(r, first, last, s)
    BY <2>2, BeginStep
  <2>3. CASE \E f \in DOMAIN futures : Download(f)
    BY <2>3, DownloadStep
  <2>4. CASE \E c \in Chunks : Evict(c)
    BY <2>4, EvictStep
  <2>5. CASE Release
    BY <2>5, EnqueueEditStep, InvalidateMemoryStep, InvalidateDiskStep,
       UploadedStep DEF Release
  <2>6. CASE UNCHANGED vars
    BY <2>6, StutterStep
  <2> QED
    BY <2>1, <2>2, <2>3, <2>4, <2>5, <2>6 DEF Next
<1> QED
  BY <1>1, <1>2, InitParts, PTL DEF Spec

(* TypeOK: active_downloads and the readers refer to futures there are;    *)
(* the caches hold versions that Drive had.                                *)
THEOREM TypeCorrect == Spec => []TypeOK
BY Inductive, PTL DEF IInv

(* One download of a chunk holds its lock: the two tasks that a promotion  *)
(* submits, and a prefetch that a reader does not know of, take turns.     *)
THEOREM OneDownloadPerChunk == Spec => []LockInv
<1>1. IInv => LockInv
  BY DEF IInv, Protocol
<1> QED
  BY <1>1, Inductive, PTL

(* WaitsForLiveFuture: no FUSE thread waits for a future that a promotion  *)
(* cancelled, whoever promotes and whenever.                               *)
THEOREM LiveFutures == Spec => []WaitsForLiveFuture
<1>1. IInv => WaitsForLiveFuture
  <2> SUFFICES ASSUME IInv, NEW r \in Readers,
                      reader[r].at \in {"callback", "wait"}
               PROVE  futures[reader[r].future].at # "cancelled"
    BY DEF WaitsForLiveFuture
  <2>1. ReaderOK(reader[r], futures)
    BY DEF IInv, Protocol, ReaderInv
  <2>2. TaskOK(futures[reader[r].future])
    BY <2>1 DEF IInv, Protocol, TaskInv, ReaderOK
  <2> QED
    BY <2>1, <2>2 DEF ReaderOK, TaskOK
<1> QED
  BY <1>1, Inductive, PTL

(* NoLeftover: a future that is done is in active_downloads only while its *)
(* worker, or the thread that adds its callback, is about to pop it, or a  *)
(* promotion is stuck.                                                     *)
THEOREM DoneIsPopped == Spec => []NoLeftover
<1>1. IInv => NoLeftover
  <2> SUFFICES ASSUME IInv, NEW c \in Targets
               PROVE  LET f == active[c].future
                      IN f # NoFuture /\ Done(f) =>
                           \/ \E g \in DOMAIN futures :
                                futures[g].chunk = c /\ futures[g].at = "pop"
                           \/ \E r \in Readers :
                                /\ reader[r].at \in {"callback", "prefetchCallback"}
                                /\ futures[reader[r].future].chunk = c
                           \/ ~LockFree
    BY DEF NoLeftover
  <2> DEFINE f == active[c].future
  <2> SUFFICES ASSUME f # NoFuture, Done(f), LockFree
               PROVE  \/ \E g \in DOMAIN futures :
                           futures[g].chunk = c /\ futures[g].at = "pop"
                      \/ \E r \in Readers :
                           /\ reader[r].at \in {"callback", "prefetchCallback"}
                           /\ futures[reader[r].future].chunk = c
    OBVIOUS
  <2>1. EntryOK(c, f, active[c].prefetch)
    BY DEF IInv, Protocol, ActiveInv
  <2>2. f \in DOMAIN futures
    BY TypeParts, Indices, Bounds DEF IInv, RegistryType, Entries
  <2>3. futures[f].chunk = c /\ futures[f].at \in {"pop", "over"}
    BY <2>1 DEF EntryOK, Done
  <2>4. CASE futures[f].at = "pop"
    BY <2>2, <2>3, <2>4
  <2>5. CASE futures[f].at = "over"
    <3>1. Adding(f)
      BY <2>1, <2>5 DEF EntryOK
    <3> QED
      BY <2>3, <3>1 DEF Adding
  <2> QED
    BY <2>3, <2>4, <2>5
<1> QED
  BY <1>1, Inductive, PTL

(* CallsAccounted: Drive answers for a chunk once, and once more for each  *)
(* time its last copy was evicted or invalidated, however many readers and *)
(* prefetches ask for it, and whether or not its writes to disk succeed.   *)
THEOREM CallsAreAccounted == Spec => []CallsAccounted
<1>1. IInv => CallsAccounted
  BY DEF IInv, Protocol, OwedInv, OwedFor, CallsAccounted
<1> QED
  BY <1>1, Inductive, PTL

(* FreshAfterEdit: once an edit is released and uploaded, in whichever     *)
(* order, a chunk of the old content is in a cache only if somebody was    *)
(* putting it there or rmtree failed, and at most until the next edit.     *)
THEOREM EditIsSeen == Spec => []FreshAfterEdit
<1>1. IInv => FreshAfterEdit
  BY DEF IInv, Protocol, FreshInv, FreshFor, Current, FreshAfterEdit
<1> QED
  BY <1>1, Inductive, PTL
=============================================================================
