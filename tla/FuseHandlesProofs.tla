------------------------- MODULE FuseHandlesProofs -------------------------
(***************************************************************************)
(* Theorems about FuseHandles, for any FUSE threads, content of the file,  *)
(* offsets, lengths, and number of handles and calls.                      *)
(*                                                                         *)
(* ContentExact, InPlace and SizeMatches say what is true between calls.   *)
(* Inside a call they rest on what the invariant adds: what the handle of  *)
(* a call is (open, filled, locked by it) at each point of the call, and   *)
(* how far a release has come when it records the size.                    *)
(***************************************************************************)
EXTENDS FuseHandles, TLAPS

-----------------------------------------------------------------------------
(* The inductive invariant                                                 *)

At(t) == thread[t].at
H(t) == thread[t].handle
Inside(t) == At(t) \notin {"idle", "size", "enqueue", "store"}

(* A handle without its base is as open made it; descriptors are not used  *)
(* again, and a handle that was not opened yet has no history.             *)
HandleFine(h) ==
  /\ h > opened => handle[h] = Unopened /\ expected[h] = Unset
  /\ handle[h].open => handle[h].kind # "none"
  /\ handle[h].filled => expected[h] # Unset
  /\ ~handle[h].filled => handle[h].content = <<>> /\ handle[h].pos = 0
  /\ handle[h].open /\ ~handle[h].filled => expected[h] = Unset
  /\ handle[h].kind \in {"new", "local"} => handle[h].filled
  /\ handle[h].kind = "new" => created

(* The calls that move the offset of h do so one after the other.          *)
Steady(h) ==
  \/ handle[h].kind = "new"
  \/ handle[h].kind = "edit" /\ "overlap" \notin met
  \/ handle[h].kind = "local" /\ "unlocked" \notin met

(* A call keeps its handle open, has filled it before it reads or writes,  *)
(* and holds its lock when it is not a truncate; a listing has no handle.  *)
ThreadFine(t) ==
  /\ Inside(t) => H(t) \in Handles /\ handle[H(t)].open
  /\ At(t) \in {"size", "enqueue"} =>
       H(t) \in Handles /\ handle[H(t)].kind \in {"edit", "new"}
  /\ At(t) = "store" => H(t) = 0
  /\ At(t) \in {"lock", "fdLock", "ensure", "fetch", "fill"} =>
       handle[H(t)].kind # "local"
  /\ At(t) \in {"fetch", "fill"} => handle[H(t)].kind = "edit"
  /\ At(t) \in {"lock", "seek"} => thread[t].op # "truncate"
  /\ At(t) = "fdLock" => thread[t].op = "truncate"
  /\ At(t) \in {"seek", "io"} => handle[H(t)].filled
  /\ /\ At(t) \in {"ensure", "fetch", "fill", "seek", "io"}
     /\ thread[t].op # "truncate" /\ handle[H(t)].kind # "local"
     => handleLock[H(t)] = t
  /\ At(t) = "io" /\ thread[t].op # "truncate" /\ Steady(H(t))
       => handle[H(t)].pos = thread[t].arg

(* Two calls on one swap file have met.                                    *)
LocalInv ==
  \A t, u \in Threads :
    /\ t # u /\ Inside(t) /\ Inside(u) /\ H(t) = H(u)
    /\ handle[H(t)].kind = "local"
    => "unlocked" \in met

(* An entry that is not in doubt, between the steps of a release and of an *)
(* upload: one release at a time, and it records the size of what it       *)
(* queues; between releases what is queued, sent and on Drive is all of    *)
(* that size, and no upload was overtaken.                                 *)
EntryFine ==
  /\ \A t, u \in Threads :
       At(t) \in {"size", "enqueue"} /\ At(u) \in {"size", "enqueue"} => t = u
  /\ \A t \in Threads : At(t) = "enqueue" => metadata = Len(handle[H(t)].content)
  /\ \A u \in Sending : ~upload[u].replaced
  /\ ~Releasing =>
       /\ queued # NoFile => metadata = Len(queued)
       /\ queued = NoFile /\ drive # NoFile => metadata = Len(drive)
       /\ \A u \in Sending : metadata = Len(upload[u].content)
       /\ \A u \in Uploaders :
            upload[u].at = "sent" /\ drive # NoFile => metadata = Len(drive)
EntryInv == ~created /\ ~doubt /\ metadata # NoMetadata => EntryFine

(* An undisturbed listing was answered with what the file still is.        *)
ListingInv ==
  \A t \in Threads : At(t) = "store" /\ t \notin disturbed =>
    /\ drive # NoFile /\ thread[t].arg = Len(drive)
    /\ queued = NoFile /\ Sending = {} /\ ~Releasing
SizeInv == EntryInv /\ ListingInv

HandleInv == \A h \in Handles : HandleFine(h)
ThreadInv == \A t \in Threads : ThreadFine(t)
IInv == TypeOK /\ HandleInv /\ ThreadInv /\ LocalInv /\ ContentExact /\ SizeInv

(* The types one by one                                                    *)
HandleRecord ==
  [kind : {"none", "edit", "new", "local"}, open : BOOLEAN,
   content : Seq(Nat), pos : Nat, filled : BOOLEAN, modified : BOOLEAN]
ThreadRecord ==
  [at : {"idle", "lock", "fdLock", "ensure", "fetch", "fill", "seek", "io",
         "size", "enqueue", "store"},
   op : {"read", "write", "truncate"}, handle : 0..MaxHandles, arg : Nat,
   data : Seq(Nat)]
UploadRecord ==
  [at : {"none", "sending", "sent"}, content : Seq(Nat), replaced : BOOLEAN]
FileTypes ==
  /\ upload \in [Uploaders -> UploadRecord]
  /\ metadata \in Nat \union {NoMetadata} /\ created \in BOOLEAN
  /\ queued \in Seq(Nat) \union {NoFile} /\ drive \in Seq(Nat) \union {NoFile}
CountTypes == opened \in 0..MaxHandles /\ calls \in 0..MaxCalls
HistoryTypes ==
  /\ expected \in [Handles -> Seq(Nat) \union {Unset}]
  /\ met \subseteq {"unlocked", "expired", "doubted", "overlap"}
  /\ doubt \in BOOLEAN /\ disturbed \subseteq Threads
LockTypes ==
  /\ fdLock \in Threads \union {Nobody}
  /\ handleLock \in [Handles -> Threads \union {Nobody}]
Released ==
  \A t \in Threads : At(t) \in {"size", "enqueue"} =>
    ~handle[H(t)].open /\ On(H(t)) = {t}

LEMMA TypeParts ==
  TypeOK <=> /\ handle \in [Handles -> HandleRecord]
             /\ thread \in [Threads -> ThreadRecord]
             /\ LockTypes /\ FileTypes /\ CountTypes /\ HistoryTypes /\ Released
BY DEF TypeOK, HandleRecord, ThreadRecord, LockTypes, FileTypes, CountTypes,
       HistoryTypes, Released, At, H, UploadRecord

LEMMA TypePartsPrimed ==
  TypeOK' <=> /\ handle' \in [Handles -> HandleRecord]
              /\ thread' \in [Threads -> ThreadRecord]
              /\ LockTypes' /\ FileTypes' /\ CountTypes' /\ HistoryTypes' /\ Released'
BY DEF TypeOK, HandleRecord, ThreadRecord, LockTypes, FileTypes, CountTypes,
       HistoryTypes, Released, At, H, UploadRecord

-----------------------------------------------------------------------------
(* Contents                                                                *)

LEMMA ResizedType ==
  ASSUME NEW s \in Seq(Nat), NEW n \in Nat
  PROVE  Resized(s, n) \in Seq(Nat) /\ Len(Resized(s, n)) = n
<1>1. \A i \in 1..n : (IF i <= Len(s) THEN s[i] ELSE Hole) \in Nat
  BY DEF Hole
<1> QED
  BY <1>1 DEF Resized

LEMMA OverwrittenType ==
  ASSUME NEW s \in Seq(Nat), NEW pos \in Nat, NEW data \in Seq(Nat)
  PROVE  Overwritten(s, pos, data) \in Seq(Nat)
<1> DEFINE end == pos + Len(data)
           base == IF data # <<>> /\ end > Len(s) THEN Resized(s, end) ELSE s
<1>1. end \in Nat /\ Len(data) \in Nat
  OBVIOUS
<1>2. base \in Seq(Nat)
  BY <1>1, ResizedType
<1>3. Overwritten(s, pos, data)
        = [i \in DOMAIN base |-> IF i \in (pos + 1)..end THEN data[i - pos] ELSE base[i]]
  BY DEF Overwritten
<1> HIDE DEF base
<1>4. DOMAIN base = 1..Len(base) /\ Len(base) \in Nat
  BY <1>2
<1>5. \A i \in DOMAIN base :
        (IF i \in (pos + 1)..end THEN data[i - pos] ELSE base[i]) \in Nat
  <2> SUFFICES ASSUME NEW i \in DOMAIN base
               PROVE  (IF i \in (pos + 1)..end THEN data[i - pos] ELSE base[i]) \in Nat
    OBVIOUS
  <2>1. CASE i \in (pos + 1)..end
    <3>1. i - pos \in 1..Len(data)
      BY <1>1, <2>1
    <3> QED
      BY <2>1, <3>1
  <2>2. CASE i \notin (pos + 1)..end
    BY <1>2, <1>4, <2>2
  <2> QED
    BY <2>1, <2>2
<1> QED
  BY <1>3, <1>4, <1>5

(* Filling a handle gives it its base.                                     *)
LEMMA OverwrittenEmpty ==
  ASSUME NEW data \in Seq(Nat)
  PROVE  Overwritten(<<>>, 0, data) = data
<1>1. CASE data = <<>>
  BY <1>1 DEF Overwritten
<1>2. CASE data # <<>>
  <2>1. Len(data) \in Nat /\ Len(data) > 0
    BY <1>2
  <2> DEFINE base == Resized(<<>>, 0 + Len(data))
  <2>2. DOMAIN base = 1..Len(data)
    BY <2>1 DEF Resized
  <2>3. Overwritten(<<>>, 0, data)
          = [i \in DOMAIN base |-> IF i \in (0 + 1)..(0 + Len(data)) THEN data[i - 0] ELSE base[i]]
    BY <1>2, <2>1 DEF Overwritten
  <2> HIDE DEF base
  <2>4. Overwritten(<<>>, 0, data) = [i \in 1..Len(data) |-> data[i]]
    BY <2>1, <2>2, <2>3
  <2> QED
    BY <2>4
<1> QED
  BY <1>1, <1>2

LEMMA NotAContent == NoFile \notin Seq(Nat) /\ Unset \notin Seq(Nat) /\ <<>> \in Seq(Nat)
<1>1. NoFile[1] = -1 /\ Unset[1] = -2 /\ Len(NoFile) = 1 /\ Len(Unset) = 1
  BY DEF NoFile, Unset
<1> QED
  BY <1>1 DEF NoFile, Unset

-----------------------------------------------------------------------------
(* Steps inside a call                                                     *)

ContentFine(h) ==
  CASE handle[h].kind = "edit" ->
         ~created /\ met \subseteq {"unlocked"} => Exact(h)
    [] handle[h].kind = "local" -> "unlocked" \notin met => Exact(h)
    [] OTHER                    -> Exact(h)

LEMMA ContentParts ==
  /\ ContentExact <=> \A h \in Handles : ContentFine(h)
  /\ ContentExact' <=> \A h \in Handles : ContentFine(h)'
BY DEF ContentExact, ContentFine, Exact

(* What a step of t inside a call on h leaves as it is                     *)
CallFrame(t, h) ==
  /\ handle' \in [Handles -> HandleRecord]
  /\ \A g \in Handles \ {h} : handle'[g] = handle[g] /\ expected'[g] = expected[g]
  /\ handle'[h].kind = handle[h].kind /\ handle'[h].open = handle[h].open
  /\ handle[h].filled => handle'[h].filled
  /\ thread' \in [Threads -> ThreadRecord]
  /\ \A u \in Threads \ {t} : thread'[u] = thread[u]
  /\ thread'[t].at \notin {"size", "enqueue", "store"}
  /\ thread'[t].at # "idle" => thread'[t].handle = h
  /\ metadata' = metadata /\ queued' = queued /\ drive' = drive /\ created' = created
  /\ upload' = upload /\ doubt' = doubt /\ disturbed' = disturbed
  /\ opened' = opened /\ calls' = calls
  /\ HistoryTypes' /\ met \subseteq met'
  /\ LockTypes'
  /\ \A u \in Threads \ {t}, g \in Handles : handleLock[g] = u => handleLock'[g] = u

(* What does not touch releases, uploads, listings and the entry.          *)
LEMMA SizeFrame ==
  ASSUME SizeInv, created => created', ~created' => metadata' = metadata,
         UNCHANGED <<queued, drive, upload, doubt, disturbed>>,
         \A u \in Threads :
           /\ At(u)' \in {"size", "enqueue", "store"} \/ At(u) \in {"size", "enqueue", "store"}
                => At(u)' = At(u)
           /\ At(u) = "enqueue" => handle'[H(u)'].content = handle[H(u)].content
           /\ At(u) = "store" => thread'[u].arg = thread[u].arg
  PROVE  SizeInv'
<1>1. Releasing' <=> Releasing
  BY DEF Releasing, At
<1>2. Sending' = Sending
  BY DEF Sending
<1>3. EntryInv'
  <2> SUFFICES ASSUME ~created', ~doubt', metadata' # NoMetadata PROVE EntryFine'
    BY DEF EntryInv
  <2>1. EntryFine /\ metadata' = metadata
    BY DEF SizeInv, EntryInv
  <2> QED
    BY <1>1, <1>2, <2>1 DEF EntryFine
<1>4. ListingInv'
  BY <1>1, <1>2 DEF SizeInv, ListingInv
<1> QED
  BY <1>3, <1>4 DEF SizeInv

(* Another thread at its read or write of h finds the offset it set.       *)
OffsetKept(t, h) ==
  \A u \in Threads \ {t} :
    At(u) = "io" /\ thread[u].op # "truncate" /\ H(u) = h /\ Steady(h)'
      => handle'[h].pos = handle[h].pos

LEMMA CallStep ==
  ASSUME IInv, NEW t \in Threads, Inside(t), NEW h \in Handles, h = H(t),
         CallFrame(t, h),
         HandleFine(h)', ThreadFine(t)', ContentFine(h)', OffsetKept(t, h)
  PROVE  IInv'
<1>1. /\ handle \in [Handles -> HandleRecord] /\ thread \in [Threads -> ThreadRecord]
      /\ LockTypes /\ FileTypes /\ CountTypes /\ HistoryTypes /\ Released
  BY TypeParts DEF IInv
<1>2. h \in Handles /\ handle[h].open
  BY DEF IInv, ThreadInv, ThreadFine
<1>3. ASSUME NEW u \in Threads, At(u) \in {"size", "enqueue"}
      PROVE  H(u) # h /\ H(u) \in Handles
  BY <1>1, <1>2, <1>3 DEF Released, IInv, ThreadInv, ThreadFine
<1>4. ASSUME NEW u \in Threads \ {t}
      PROVE  thread'[u] = thread[u] /\ At(u)' = At(u) /\ H(u)' = H(u)
  BY DEF CallFrame, At, H
<1>5. At(t)' \notin {"size", "enqueue", "store"} /\ At(t) \notin {"size", "enqueue", "store"}
      /\ (At(t)' # "idle" => H(t)' = h)
  BY DEF CallFrame, At, H, Inside
<1>6. HandleInv'
  <2> SUFFICES ASSUME NEW g \in Handles, g # h PROVE HandleFine(g)'
    BY DEF HandleInv
  <2>1. HandleFine(g) /\ handle'[g] = handle[g] /\ expected'[g] = expected[g]
    BY DEF IInv, HandleInv, CallFrame
  <2> QED
    BY <2>1 DEF HandleFine, CallFrame
<1>7. ThreadInv'
  <2> SUFFICES ASSUME NEW u \in Threads \ {t} PROVE ThreadFine(u)'
    BY DEF ThreadInv
  <2>1. ThreadFine(u) /\ thread'[u] = thread[u] /\ At(u)' = At(u) /\ H(u)' = H(u)
    BY <1>4 DEF IInv, ThreadInv
  <2>2. CASE At(u) \in {"idle", "store"}
    BY <2>1, <2>2 DEF ThreadFine, Inside
  <2>3. CASE At(u) \notin {"idle", "store"}
    <3>1. H(u) \in Handles
      BY <2>1, <2>3 DEF ThreadFine, Inside
    <3>2. /\ handle'[H(u)].kind = handle[H(u)].kind
          /\ handle'[H(u)].open = handle[H(u)].open
          /\ handle[H(u)].filled => handle'[H(u)].filled
          /\ handleLock[H(u)] = u => handleLock'[H(u)] = u
          /\ Steady(H(u))' => Steady(H(u))
      BY <2>1, <3>1 DEF CallFrame, Steady
    <3>3. At(u) = "io" /\ thread[u].op # "truncate" /\ Steady(H(u))'
            => handle'[H(u)].pos = handle[H(u)].pos
      BY <2>1, <3>1 DEF CallFrame, OffsetKept
    <3> QED
      BY <2>1, <3>1, <3>2, <3>3 DEF ThreadFine, Inside
  <2> QED
    BY <2>2, <2>3
<1>8. LocalInv'
  <2> SUFFICES ASSUME NEW u \in Threads, NEW v \in Threads, u # v, Inside(u)', Inside(v)',
                      H(u)' = H(v)', handle'[H(u)'].kind = "local"
               PROVE  "unlocked" \in met'
    BY DEF LocalInv
  <2>1. ASSUME NEW w \in Threads, Inside(w)'
        PROVE  Inside(w) /\ H(w)' = H(w) /\ H(w) \in Handles
    <3>1. CASE w = t
      BY <1>2, <1>5, <2>1, <3>1 DEF Inside
    <3>2. CASE w # t
      BY <1>4, <2>1, <3>2 DEF Inside, IInv, ThreadInv, ThreadFine
    <3> QED
      BY <3>1, <3>2
  <2>2. Inside(u) /\ Inside(v) /\ H(u) = H(v) /\ H(u)' = H(u) /\ H(u) \in Handles
    BY <2>1
  <2>3. handle[H(u)].kind = "local"
    BY <2>2 DEF CallFrame
  <2> QED
    BY <2>2, <2>3 DEF IInv, LocalInv, CallFrame
<1>9. ContentExact'
  <2> SUFFICES ASSUME NEW g \in Handles, g # h PROVE ContentFine(g)'
    BY ContentParts
  <2>1. ContentFine(g)
    BY ContentParts DEF IInv
  <2>2. handle'[g] = handle[g] /\ expected'[g] = expected[g] /\ created' = created /\ met \subseteq met'
    BY DEF CallFrame
  <2> QED
    BY <2>1, <2>2 DEF ContentFine, Exact
<1>10. ASSUME NEW u \in Threads
       PROVE  /\ (At(u)' = "size") <=> (At(u) = "size")
              /\ (At(u)' = "enqueue") <=> (At(u) = "enqueue")
              /\ At(u) \in {"size", "enqueue"} => H(u)' = H(u)
  <2>1. CASE u = t
    BY <1>5, <2>1
  <2>2. CASE u # t
    BY <1>4, <2>2
  <2> QED
    BY <2>1, <2>2
<1>11. SizeInv'
  <2>1. \A u \in Threads : At(u) = "enqueue" => handle'[H(u)] = handle[H(u)]
    BY <1>3 DEF CallFrame
  <2>2. \A u \in Threads : At(u) = "store" => thread'[u].arg = thread[u].arg
    BY <1>4, <1>5
  <2>3. \A u \in Threads : At(u)' = At(u) \/ u = t
    BY <1>4
  <2>4. \A u \in Threads : At(u) = "enqueue" => H(u)' = H(u)
    BY <1>10
  <2> QED
    BY <1>5, <2>1, <2>2, <2>3, <2>4, SizeFrame DEF IInv, CallFrame
<1>12. Released'
  <2> SUFFICES ASSUME NEW u \in Threads, At(u)' \in {"size", "enqueue"}
               PROVE  /\ ~handle'[H(u)'].open
                      /\ {w \in Threads : At(w)' # "idle" /\ H(w)' = H(u)'} = {u}
    BY DEF Released, On, At, H
  <2>1. At(u) \in {"size", "enqueue"} /\ H(u)' = H(u) /\ H(u) # h /\ H(u) \in Handles
        /\ u # t
    BY <1>3, <1>5, <1>10
  <2>2. ~handle[H(u)].open /\ On(H(u)) = {u}
    BY <1>1, <2>1 DEF Released
  <2>3. ASSUME NEW w \in Threads, At(w)' # "idle", H(w)' = H(u) PROVE w = u
    <3>1. w # t
      BY <1>5, <2>1, <2>3
    <3>2. w \in On(H(u))
      BY <1>4, <2>3, <3>1 DEF On, At, H
    <3> QED
      BY <2>2, <3>2
  <2>4. At(u)' # "idle"
    BY <1>10, <2>1
  <2> QED
    BY <2>1, <2>2, <2>3, <2>4 DEF CallFrame
<1>13. TypeOK'
  BY <1>1, <1>12, TypePartsPrimed DEF CallFrame, FileTypes, CountTypes
<1> QED
  BY <1>6, <1>7, <1>8, <1>9, <1>11, <1>13 DEF IInv

LEMMA CallFacts ==
  ASSUME IInv, NEW t \in Threads, Inside(t), NEW h, h = H(t)
  PROVE  /\ h \in Handles /\ h \in Nat /\ handle[h].open /\ handle[h] \in HandleRecord
         /\ thread[t] \in ThreadRecord
         /\ handle \in [Handles -> HandleRecord] /\ thread \in [Threads -> ThreadRecord]
         /\ LockTypes /\ FileTypes /\ CountTypes /\ HistoryTypes
         /\ HandleFine(h) /\ ThreadFine(t) /\ ContentFine(h)
         /\ h <= opened
         /\ expected[h] \in Seq(Nat) \union {Unset}
<1>1. /\ handle \in [Handles -> HandleRecord] /\ thread \in [Threads -> ThreadRecord]
      /\ LockTypes /\ FileTypes /\ CountTypes /\ HistoryTypes
  BY TypeParts DEF IInv
<1>2. ThreadFine(t) /\ h \in Handles /\ handle[h].open
  BY DEF IInv, ThreadInv, ThreadFine
<1>3. HandleFine(h) /\ ContentFine(h)
  BY <1>2, ContentParts DEF IInv, HandleInv
<1>4. h \in Nat /\ h <= opened
  <2>1. h \in Nat /\ opened \in Nat
    BY <1>1, <1>2, BoundsAssumption DEF CountTypes, Handles
  <2>2. ~(h > opened)
    BY <1>2, <1>3 DEF HandleFine, Unopened
  <2> QED
    BY <2>1, <2>2
<1> QED
  BY <1>1, <1>2, <1>3, <1>4 DEF HistoryTypes

LEMMA ThreadOnlyStep ==
  ASSUME IInv, NEW t \in Threads, Inside(t), NEW h, h = H(t),
         NEW r \in ThreadRecord, thread' = [thread EXCEPT ![t] = r],
         r.at \notin {"size", "enqueue", "store"}, r.at # "idle" => r.handle = h,
         UNCHANGED <<handle, file, counts, expected, sizes>>,
         HistoryTypes', met \subseteq met', LockTypes',
         \A u \in Threads \ {t}, g \in Handles : handleLock[g] = u => handleLock'[g] = u,
         ThreadFine(t)'
  PROVE  IInv'
<1>1. /\ h \in Handles
      /\ handle \in [Handles -> HandleRecord] /\ thread \in [Threads -> ThreadRecord]
      /\ HandleFine(h) /\ ContentFine(h)
  BY CallFacts
<1>2. thread' \in [Threads -> ThreadRecord] /\ thread'[t] = r
      /\ \A u \in Threads \ {t} : thread'[u] = thread[u]
  BY <1>1
<1>3. CallFrame(t, h)
  BY <1>1, <1>2 DEF CallFrame, file, counts, sizes
<1>4. HandleFine(h)'
  BY <1>1 DEF HandleFine, file, counts
<1>5. ContentFine(h)'
  BY <1>1 DEF ContentFine, Exact, file
<1>6. OffsetKept(t, h)
  BY DEF OffsetKept
<1> QED
  BY <1>1, <1>3, <1>4, <1>5, <1>6, CallStep

LEMMA LockStep ==
  ASSUME IInv, NEW t \in Threads, Lock(t)
  PROVE  IInv'
<1> DEFINE h == H(t)
           r == [thread[t] EXCEPT !.at = "ensure"]
<1>1. At(t) = "lock" /\ Inside(t)
  BY DEF Lock, At, Inside
<1>2. /\ h \in Handles /\ thread[t] \in ThreadRecord /\ thread \in [Threads -> ThreadRecord]
      /\ LockTypes /\ HistoryTypes /\ ThreadFine(t)
  BY <1>1, CallFacts
<1>3. /\ thread' = [thread EXCEPT ![t] = r] /\ r \in ThreadRecord /\ r.at = "ensure"
      /\ r.handle = h /\ r.op = thread[t].op
  BY <1>2 DEF Lock, ThreadRecord, H
<1>4. /\ handleLock' = [handleLock EXCEPT ![h] = t] /\ handleLock[h] = Nobody
      /\ UNCHANGED <<handle, fdLock, file, counts, expected, met, sizes>>
  BY DEF Lock, H
<1>5. LockTypes' /\ handleLock'[h] = t
      /\ \A u \in Threads \ {t}, g \in Handles : handleLock[g] = u => handleLock'[g] = u
  BY <1>2, <1>4, ThreadsAssumption DEF LockTypes
<1>6. thread'[t] = r
  BY <1>2, <1>3
<1> HIDE DEF r
<1>7. At(t)' = "ensure" /\ H(t)' = h /\ thread'[t].op = thread[t].op
  BY <1>3, <1>6 DEF At, H
<1>8. ThreadFine(t)'
  <2>1. handle[h].open /\ handle[h].kind # "local"
    BY <1>1, <1>2 DEF ThreadFine, Inside
  <2> QED
    BY <1>2, <1>4, <1>5, <1>7, <2>1 DEF ThreadFine, Inside
<1>9. HistoryTypes'
  BY <1>2, <1>4 DEF HistoryTypes, sizes
<1> QED
  BY <1>1, <1>3, <1>4, <1>5, <1>8, <1>9, ThreadOnlyStep

LEMMA LockFdStep ==
  ASSUME IInv, NEW t \in Threads, LockFd(t)
  PROVE  IInv'
<1> DEFINE h == H(t)
           r == [thread[t] EXCEPT !.at = "ensure"]
<1>1. At(t) = "fdLock" /\ Inside(t)
  BY DEF LockFd, At, Inside
<1>2. /\ h \in Handles /\ thread[t] \in ThreadRecord /\ thread \in [Threads -> ThreadRecord]
      /\ LockTypes /\ HistoryTypes /\ ThreadFine(t)
  BY <1>1, CallFacts
<1>3. /\ thread' = [thread EXCEPT ![t] = r] /\ r \in ThreadRecord /\ r.at = "ensure"
      /\ r.handle = h /\ r.op = thread[t].op
  BY <1>2 DEF LockFd, ThreadRecord, H
<1>4. fdLock' = t /\ UNCHANGED <<handle, handleLock, file, counts, expected, met, sizes>>
  BY DEF LockFd
<1>5. LockTypes'
  BY <1>2, <1>4 DEF LockTypes
<1>6. thread'[t] = r
  BY <1>2, <1>3
<1> HIDE DEF r
<1>7. At(t)' = "ensure" /\ H(t)' = h /\ thread'[t].op = thread[t].op
  BY <1>3, <1>6 DEF At, H
<1>8. ThreadFine(t)'
  <2>1. handle[h].open /\ handle[h].kind # "local" /\ thread[t].op = "truncate"
    BY <1>1, <1>2 DEF ThreadFine, Inside
  <2> QED
    BY <1>2, <1>4, <1>7, <2>1 DEF ThreadFine, Inside
<1>9. HistoryTypes'
  BY <1>2, <1>4 DEF HistoryTypes, sizes
<1> QED
  BY <1>1, <1>3, <1>4, <1>5, <1>8, <1>9, ThreadOnlyStep

LEMMA AlreadyFilledStep ==
  ASSUME IInv, NEW t \in Threads, AlreadyFilled(t)
  PROVE  IInv'
<1> DEFINE h == H(t)
           r == [thread[t] EXCEPT !.data = <<>>,
                   !.at = IF thread[t].op = "truncate" THEN "io" ELSE "seek"]
<1>1. At(t) = "ensure" /\ Inside(t) /\ handle[h].filled
  BY DEF AlreadyFilled, At, Inside, H
<1>2. /\ h \in Handles /\ thread[t] \in ThreadRecord /\ thread \in [Threads -> ThreadRecord]
      /\ LockTypes /\ HistoryTypes /\ ThreadFine(t)
  BY <1>1, CallFacts
<1>3. /\ thread' = [thread EXCEPT ![t] = r] /\ r \in ThreadRecord
      /\ r.at = IF thread[t].op = "truncate" THEN "io" ELSE "seek"
      /\ r.handle = h /\ r.op = thread[t].op
  BY <1>2, NotAContent DEF AlreadyFilled, Filled, ThreadRecord, H
<1>4. UNCHANGED <<handle, locks, file, counts, expected, met, sizes>>
  BY DEF AlreadyFilled
<1>5. thread'[t] = r
  BY <1>2, <1>3
<1> HIDE DEF r
<1>6. /\ At(t)' = (IF thread[t].op = "truncate" THEN "io" ELSE "seek")
      /\ H(t)' = h /\ thread'[t].op = thread[t].op
  BY <1>3, <1>5 DEF At, H
<1>7. ThreadFine(t)'
  <2>1. handle[h].open /\ handle[h].kind # "local"
        /\ (thread[t].op # "truncate" => handleLock[h] = t)
    BY <1>1, <1>2 DEF ThreadFine, Inside
  <2> QED
    BY <1>1, <1>2, <1>4, <1>6, <2>1 DEF ThreadFine, Inside, locks
<1>8. HistoryTypes' /\ LockTypes'
  BY <1>2, <1>4 DEF HistoryTypes, LockTypes, locks, sizes
<1> QED
  BY <1>1, <1>3, <1>4, <1>7, <1>8, ThreadOnlyStep DEF locks

LEMMA DownloadStep ==
  ASSUME IInv, NEW t \in Threads, Download(t)
  PROVE  IInv'
<1> DEFINE h == H(t)
           r == [thread[t] EXCEPT !.at = "fetch"]
<1>1. At(t) = "ensure" /\ Inside(t) /\ ~handle[h].filled
  BY DEF Download, At, Inside, H
<1>2. /\ h \in Handles /\ thread[t] \in ThreadRecord /\ thread \in [Threads -> ThreadRecord]
      /\ LockTypes /\ HistoryTypes /\ ThreadFine(t) /\ HandleFine(h)
      /\ handle[h] \in HandleRecord
  BY <1>1, CallFacts
<1>3. /\ thread' = [thread EXCEPT ![t] = r] /\ r \in ThreadRecord /\ r.at = "fetch"
      /\ r.handle = h /\ r.op = thread[t].op
  BY <1>2 DEF Download, ThreadRecord, H
<1>4. UNCHANGED <<handle, locks, file, counts, expected, met, sizes>>
  BY DEF Download
<1>5. thread'[t] = r
  BY <1>2, <1>3
<1> HIDE DEF r
<1>6. At(t)' = "fetch" /\ H(t)' = h /\ thread'[t].op = thread[t].op
  BY <1>3, <1>5 DEF At, H
<1>7. ThreadFine(t)'
  <2>1. handle[h].open /\ handle[h].kind = "edit"
        /\ (thread[t].op # "truncate" => handleLock[h] = t)
    BY <1>1, <1>2 DEF ThreadFine, HandleFine, Inside, HandleRecord
  <2> QED
    BY <1>1, <1>2, <1>4, <1>6, <2>1 DEF ThreadFine, Inside, locks
<1>8. HistoryTypes' /\ LockTypes'
  BY <1>2, <1>4 DEF HistoryTypes, LockTypes, locks, sizes
<1> QED
  BY <1>1, <1>3, <1>4, <1>7, <1>8, ThreadOnlyStep DEF locks

LEMMA VisibleFacts ==
  ASSUME FileTypes
  PROVE  /\ Visible \subseteq Seq(Nat)
         /\ ~Releasing => \A s \in Visible :
              \/ queued = NoFile /\ s = drive /\ drive # NoFile
              \/ queued # NoFile /\ s = queued
<1>1. CASE queued = NoFile
  <2>1. Visible = {drive} \ {NoFile}
    BY <1>1 DEF Visible
  <2>2. \A s \in Visible : s = drive /\ drive # NoFile
    BY <2>1
  <2>3. Visible \subseteq Seq(Nat)
    BY <2>2 DEF FileTypes
  <2>4. ASSUME NEW s \in Visible PROVE queued = NoFile /\ s = drive /\ drive # NoFile
    BY <1>1, <2>2
  <2> QED
    BY <2>3, <2>4
<1>2. CASE queued # NoFile /\ \E t \in Threads : thread[t].at = "enqueue"
  <2>1. Visible = {queued} \union ({drive} \ {NoFile}) /\ Releasing
    BY <1>2 DEF Visible, Releasing
  <2>2. queued \in Seq(Nat) /\ {drive} \ {NoFile} \subseteq Seq(Nat)
    BY <1>2 DEF FileTypes
  <2>3. Visible \subseteq Seq(Nat)
    BY <2>1, <2>2
  <2> QED
    BY <2>1, <2>3
<1>3. CASE queued # NoFile /\ ~ \E t \in Threads : thread[t].at = "enqueue"
  <2>1. Visible = {queued}
    BY <1>3 DEF Visible
  <2> QED
    BY <1>3, <2>1 DEF FileTypes
<1> QED
  BY <1>1, <1>2, <1>3

LEMMA FetchStep ==
  ASSUME IInv, NEW t \in Threads, Fetch(t)
  PROVE  IInv'
<1> DEFINE h == H(t)
<1>1. At(t) = "fetch" /\ Inside(t)
  BY DEF Fetch, At, Inside
<1>2. /\ h \in Handles /\ thread[t] \in ThreadRecord /\ thread \in [Threads -> ThreadRecord]
      /\ LockTypes /\ HistoryTypes /\ FileTypes /\ ThreadFine(t)
  BY <1>1, CallFacts
<1>3. PICK data \in Visible :
        thread' = [thread EXCEPT ![t] = [thread[t] EXCEPT !.at = "fill", !.data = data]]
  BY <1>2 DEF Fetch
<1> DEFINE r == [thread[t] EXCEPT !.at = "fill", !.data = data]
<1>4. /\ r \in ThreadRecord /\ r.at = "fill" /\ r.handle = h /\ r.op = thread[t].op
  BY <1>2, VisibleFacts DEF ThreadRecord, H
<1>5. UNCHANGED <<handle, locks, file, counts, expected, met, sizes>>
  BY DEF Fetch
<1>6. thread' = [thread EXCEPT ![t] = r] /\ thread'[t] = r
  BY <1>2, <1>3
<1> HIDE DEF r
<1>7. At(t)' = "fill" /\ H(t)' = h /\ thread'[t].op = thread[t].op
  BY <1>4, <1>6 DEF At, H
<1>8. ThreadFine(t)'
  <2>1. handle[h].open /\ handle[h].kind = "edit"
        /\ (thread[t].op # "truncate" => handleLock[h] = t)
    BY <1>1, <1>2 DEF ThreadFine, Inside
  <2> QED
    BY <1>1, <1>2, <1>5, <1>7, <2>1 DEF ThreadFine, Inside, locks
<1>9. HistoryTypes' /\ LockTypes'
  BY <1>2, <1>5 DEF HistoryTypes, LockTypes, locks, sizes
<1> QED
  BY <1>1, <1>4, <1>5, <1>6, <1>8, <1>9, ThreadOnlyStep DEF locks

LEMMA ReturnFacts ==
  ASSUME IInv, NEW t \in Threads, Inside(t), Return(t)
  PROVE  /\ Idle \in ThreadRecord /\ thread' = [thread EXCEPT ![t] = Idle]
         /\ thread'[t] = Idle
         /\ LockTypes'
         /\ \A u \in Threads \ {t}, g \in Handles : handleLock[g] = u => handleLock'[g] = u
         /\ ThreadFine(t)'
<1>1. thread \in [Threads -> ThreadRecord] /\ LockTypes /\ CountTypes
  BY TypeParts DEF IInv
<1>2. Idle \in ThreadRecord
  BY BoundsAssumption, NotAContent DEF Idle, ThreadRecord
<1>3. thread' = [thread EXCEPT ![t] = Idle] /\ thread'[t] = Idle
  BY <1>1 DEF Return
<1>4. LockTypes' /\ \A u \in Threads \ {t}, g \in Handles : handleLock[g] = u => handleLock'[g] = u
  BY <1>1 DEF Return, LockTypes
<1>5. ThreadFine(t)'
  BY <1>3 DEF ThreadFine, Inside, At, Idle
<1> QED
  BY <1>2, <1>3, <1>4, <1>5

LEMMA FetchFailsStep ==
  ASSUME IInv, NEW t \in Threads, FetchFails(t)
  PROVE  IInv'
<1> DEFINE h == H(t)
<1>1. At(t) = "fetch" /\ Inside(t) /\ Return(t)
  BY DEF FetchFails, At, Inside
<1>2. h \in Handles /\ HistoryTypes
  BY <1>1, CallFacts
<1>3. /\ Idle \in ThreadRecord /\ thread' = [thread EXCEPT ![t] = Idle] /\ Idle.at = "idle"
      /\ LockTypes' /\ ThreadFine(t)'
      /\ \A u \in Threads \ {t}, g \in Handles : handleLock[g] = u => handleLock'[g] = u
  BY <1>1, ReturnFacts DEF Idle
<1>4. UNCHANGED <<handle, file, counts, expected, sizes>> /\ HistoryTypes' /\ met' = met
  BY <1>2 DEF FetchFails, HistoryTypes, sizes
<1> QED
  BY <1>1, <1>2, <1>3, <1>4, ThreadOnlyStep

LEMMA NoBaseStep ==
  ASSUME IInv, NEW t \in Threads, NoBase(t)
  PROVE  IInv'
<1>h. PICK h : h = H(t)
  OBVIOUS
<1> DEFINE r == [thread[t] EXCEPT !.data = <<>>,
                   !.at = IF thread[t].op = "truncate" THEN "io" ELSE "seek"]
           n == [handle[h] EXCEPT !.filled = TRUE]
<1>1. At(t) = "ensure" /\ Inside(t) /\ ~handle[h].filled
  BY <1>h DEF NoBase, At, Inside, H
<1>2. /\ h \in Handles /\ thread[t] \in ThreadRecord /\ thread \in [Threads -> ThreadRecord]
      /\ handle[h] \in HandleRecord /\ handle \in [Handles -> HandleRecord]
      /\ LockTypes /\ HistoryTypes /\ FileTypes /\ ThreadFine(t) /\ HandleFine(h)
      /\ handle[h].open /\ h <= opened /\ CountTypes /\ h \in Nat
  BY <1>1, <1>h, CallFacts
<1>3. /\ thread' = [thread EXCEPT ![t] = r] /\ r \in ThreadRecord
      /\ r.at = IF thread[t].op = "truncate" THEN "io" ELSE "seek"
      /\ r.handle = h /\ r.op = thread[t].op
  BY <1>2, <1>h, NotAContent DEF NoBase, Filled, ThreadRecord, H
<1>4. /\ UNCHANGED <<locks, file, counts, sizes>>
      /\ met' = met \union (IF metadata = NoMetadata THEN {"expired"} ELSE {})
                   \union (IF Releasing \/ doubt THEN {"doubted"} ELSE {})
      /\ metadata \in {NoMetadata, 0}
  BY DEF NoBase
<1>5. /\ handle' = [handle EXCEPT ![h] = n] /\ n \in HandleRecord
      /\ n.kind = handle[h].kind /\ n.open = handle[h].open /\ n.filled
      /\ n.content = <<>> /\ n.pos = 0 /\ handle[h].kind = "edit"
  BY <1>1, <1>2, <1>h DEF NoBase, HandleRecord, HandleFine, H
<1>6. PICK data \in IF Visible = {} THEN {<<>>} ELSE Visible : Based(h, data)
  BY <1>h DEF NoBase, H
<1>7. expected[h] = Unset /\ data \in Seq(Nat)
      /\ expected' = [expected EXCEPT ![h] = data]
  BY <1>1, <1>2, <1>6, VisibleFacts, NotAContent DEF HandleFine, Based
<1>8. thread'[t] = r /\ handle'[h] = n /\ expected'[h] = data /\ data # Unset
  BY <1>2, <1>3, <1>5, <1>7, NotAContent DEF HistoryTypes
<1>9. ASSUME ~created, met' \subseteq {"unlocked"} PROVE data = <<>>
  <2>1. ~Releasing /\ metadata = 0 /\ ~doubt /\ metadata # NoMetadata
    BY <1>4, <1>9 DEF NoMetadata
  <2>2. CASE Visible = {}
    BY <1>6, <2>2
  <2>3. CASE Visible # {}
    <3>1. \/ queued = NoFile /\ data = drive /\ drive # NoFile
          \/ queued # NoFile /\ data = queued
      BY <1>2, <1>6, <2>1, <2>3, VisibleFacts
    <3>2. metadata = Len(data)
      <4>1. EntryFine
        BY <1>9, <2>1 DEF IInv, SizeInv, EntryInv
      <4> QED
        BY <2>1, <3>1, <4>1 DEF EntryFine
    <3>3. Len(data) = 0
      BY <2>1, <3>2
    <3> QED
      BY <1>7, <3>3
  <2> QED
    BY <2>2, <2>3
<1> HIDE DEF r, n
<1>10. HistoryTypes'
  BY <1>2, <1>4, <1>7 DEF HistoryTypes, sizes
<1>11. CallFrame(t, h)
  BY <1>2, <1>3, <1>4, <1>5, <1>7, <1>8, <1>10
     DEF CallFrame, file, counts, sizes, locks, LockTypes, HistoryTypes
<1>12. HandleFine(h)'
  BY <1>2, <1>4, <1>5, <1>8 DEF HandleFine, counts, CountTypes
<1>13. ThreadFine(t)'
  <2>1. /\ At(t)' = (IF thread[t].op = "truncate" THEN "io" ELSE "seek")
        /\ H(t)' = h /\ thread'[t].op = thread[t].op
    BY <1>3, <1>8, <1>h DEF At, H
  <2>2. thread[t].op # "truncate" => handleLock[h] = t
    BY <1>1, <1>2, <1>5, <1>h DEF ThreadFine
  <2> QED
    BY <1>2, <1>4, <1>5, <1>8, <2>1, <2>2 DEF ThreadFine, Inside, locks
<1>14. ContentFine(h)'
  BY <1>4, <1>5, <1>8, <1>9 DEF ContentFine, Exact, file
<1>15. OffsetKept(t, h)
  BY <1>1, <1>2, <1>5, <1>8, <1>h DEF OffsetKept, HandleFine
<1> QED
  BY <1>1, <1>2, <1>h, <1>11, <1>12, <1>13, <1>14, <1>15, CallStep

LEMMA FillStep ==
  ASSUME IInv, NEW t \in Threads, Fill(t)
  PROVE  IInv'
<1>h. PICK h : h = H(t)
  OBVIOUS
<1> DEFINE r == [thread[t] EXCEPT !.data = <<>>,
                   !.at = IF thread[t].op = "truncate" THEN "io" ELSE "seek"]
           data == thread[t].data
           n == [handle[h] EXCEPT !.filled = TRUE,
                   !.content = Overwritten(handle[h].content, handle[h].pos, data),
                   !.pos = handle[h].pos + Len(data)]
<1>1. At(t) = "fill" /\ Inside(t)
  BY <1>h DEF Fill, At, Inside, H
<1>2. /\ h \in Handles /\ thread[t] \in ThreadRecord /\ thread \in [Threads -> ThreadRecord]
      /\ handle[h] \in HandleRecord /\ handle \in [Handles -> HandleRecord]
      /\ LockTypes /\ HistoryTypes /\ FileTypes /\ ThreadFine(t) /\ HandleFine(h)
      /\ handle[h].open /\ h <= opened /\ CountTypes /\ h \in Nat
  BY <1>1, <1>h, CallFacts
<1>3. /\ thread' = [thread EXCEPT ![t] = r] /\ r \in ThreadRecord
      /\ r.at = IF thread[t].op = "truncate" THEN "io" ELSE "seek"
      /\ r.handle = h /\ r.op = thread[t].op /\ data \in Seq(Nat)
  BY <1>2, <1>h, NotAContent DEF Fill, Filled, ThreadRecord, H
<1>4. /\ UNCHANGED <<locks, file, counts, sizes>>
      /\ met' = met \union (IF handle[h].filled THEN {"overlap"} ELSE {})
      /\ handle[h].kind = "edit"
  BY <1>1, <1>2, <1>h DEF Fill, H, ThreadFine
<1>5. handle[h].content \in Seq(Nat) /\ handle[h].pos \in Nat /\ Len(data) \in Nat
  BY <1>2, <1>3 DEF HandleRecord
<1>6. Overwritten(handle[h].content, handle[h].pos, data) \in Seq(Nat)
  BY <1>3, <1>5, OverwrittenType
<1>7. handle' = [handle EXCEPT ![h] = n]
  BY <1>2, <1>h DEF Fill, Written, HandleRecord, H
<1>8. /\ n \in HandleRecord
      /\ n.kind = "edit" /\ n.open = handle[h].open /\ n.filled
      /\ n.content = Overwritten(handle[h].content, handle[h].pos, data)
  <2> DEFINE w == Overwritten(handle[h].content, handle[h].pos, data)
             p == handle[h].pos + Len(data)
  <2>1. w \in Seq(Nat) /\ p \in Nat
    BY <1>5, <1>6
  <2> HIDE DEF w, p
  <2>2. n = [handle[h] EXCEPT !.filled = TRUE, !.content = w, !.pos = p]
    BY DEF w, p
  <2> HIDE DEF n
  <2>3. n \in HandleRecord /\ n.kind = handle[h].kind /\ n.open = handle[h].open /\ n.filled
        /\ n.content = w
    BY <1>2, <2>1, <2>2 DEF HandleRecord
  <2> QED
    BY <1>4, <2>3 DEF w
<1>9. expected' = [expected EXCEPT ![h] = IF expected[h] = Unset THEN data ELSE expected[h]]
  BY <1>h DEF Fill, Based, H
<1>10. /\ thread'[t] = r /\ handle'[h] = n
       /\ expected'[h] = IF expected[h] = Unset THEN data ELSE expected[h]
       /\ expected'[h] # Unset
  BY <1>2, <1>3, <1>7, <1>9, NotAContent DEF HistoryTypes
<1>11. ASSUME met' \subseteq {"unlocked"} PROVE n.content = expected'[h]
  <2>1. ~handle[h].filled
    BY <1>4, <1>11
  <2>2. handle[h].content = <<>> /\ handle[h].pos = 0 /\ expected[h] = Unset
    BY <1>2, <2>1 DEF HandleFine
  <2>3. n.content = data
    BY <1>3, <1>8, <2>2, OverwrittenEmpty
  <2> QED
    BY <1>10, <2>2, <2>3
<1> HIDE DEF r, n
<1>12. HistoryTypes'
  BY <1>2, <1>3, <1>4, <1>9 DEF HistoryTypes, sizes
<1>13. CallFrame(t, h)
  BY <1>2, <1>3, <1>4, <1>7, <1>8, <1>9, <1>10, <1>12
     DEF CallFrame, file, counts, sizes, locks, LockTypes, HistoryTypes
<1>14. HandleFine(h)'
  BY <1>2, <1>4, <1>8, <1>10 DEF HandleFine, counts, CountTypes
<1>15. ThreadFine(t)'
  <2>1. /\ At(t)' = (IF thread[t].op = "truncate" THEN "io" ELSE "seek")
        /\ H(t)' = h /\ thread'[t].op = thread[t].op
    BY <1>3, <1>10, <1>h DEF At, H
  <2>2. thread[t].op # "truncate" => handleLock[h] = t
    BY <1>1, <1>2, <1>4, <1>h DEF ThreadFine
  <2> QED
    BY <1>2, <1>4, <1>8, <1>10, <2>1, <2>2 DEF ThreadFine, Inside, locks
<1>16. ContentFine(h)'
  BY <1>8, <1>10, <1>11 DEF ContentFine, Exact
<1>17. OffsetKept(t, h)
  <2> SUFFICES ASSUME NEW u \in Threads, At(u) = "io", H(u) = h PROVE ~Steady(h)'
    BY DEF OffsetKept
  <2>1. handle[h].filled
    BY DEF IInv, ThreadInv, ThreadFine
  <2> QED
    BY <1>4, <1>8, <1>10, <2>1 DEF Steady
<1> QED
  BY <1>1, <1>2, <1>h, <1>13, <1>14, <1>15, <1>16, <1>17, CallStep

(* Nobody else is at a read or write of a handle that steadily has its     *)
(* offset, while t is.                                                     *)
LEMMA AloneAtOffset ==
  ASSUME IInv, NEW t \in Threads, At(t) \in {"seek", "io"}, thread[t].op # "truncate",
         NEW h, h = H(t), Steady(h),
         NEW u \in Threads, u # t, At(u) = "io", thread[u].op # "truncate"
  PROVE  H(u) # h
<1> SUFFICES ASSUME H(u) = h PROVE FALSE
  OBVIOUS
<1>1. Inside(t) /\ Inside(u)
  BY DEF Inside
<1>2. h \in Handles /\ LockTypes
  BY <1>1, CallFacts
<1>3. CASE handle[h].kind = "local"
  BY <1>1, <1>3 DEF IInv, LocalInv, Steady
<1>4. CASE handle[h].kind # "local"
  BY <1>4 DEF IInv, ThreadInv, ThreadFine
<1> QED
  BY <1>3, <1>4

LEMMA SeekStep ==
  ASSUME IInv, NEW t \in Threads, Seek(t)
  PROVE  IInv'
<1>h. PICK h : h = H(t)
  OBVIOUS
<1> DEFINE r == [thread[t] EXCEPT !.at = "io"]
           n == [handle[h] EXCEPT !.pos = thread[t].arg]
<1>1. At(t) = "seek" /\ Inside(t)
  BY <1>h DEF Seek, At, Inside, H
<1>2. /\ h \in Handles /\ thread[t] \in ThreadRecord /\ thread \in [Threads -> ThreadRecord]
      /\ handle[h] \in HandleRecord /\ handle \in [Handles -> HandleRecord]
      /\ LockTypes /\ HistoryTypes /\ FileTypes /\ ThreadFine(t) /\ HandleFine(h)
      /\ handle[h].open /\ h <= opened /\ CountTypes /\ h \in Nat /\ ContentFine(h)
  BY <1>1, <1>h, CallFacts
<1>3. /\ thread' = [thread EXCEPT ![t] = r] /\ r \in ThreadRecord
      /\ r.at = "io" /\ r.handle = h /\ r.op = thread[t].op /\ r.arg = thread[t].arg
  BY <1>2, <1>h DEF Seek, ThreadRecord, H
<1>4. UNCHANGED <<locks, file, counts, expected, met, sizes>>
  BY DEF Seek
<1>5. /\ handle[h].filled /\ thread[t].op # "truncate"
      /\ handle[h].kind # "local" => handleLock[h] = t
  BY <1>1, <1>2, <1>h DEF ThreadFine
<1>6. /\ handle' = [handle EXCEPT ![h] = n] /\ n \in HandleRecord
      /\ n.kind = handle[h].kind /\ n.open = handle[h].open /\ n.filled
      /\ n.content = handle[h].content /\ n.pos = thread[t].arg
  BY <1>2, <1>5, <1>h DEF Seek, HandleRecord, ThreadRecord, H
<1>7. thread'[t] = r /\ handle'[h] = n
  BY <1>2, <1>3, <1>6
<1> HIDE DEF r, n
<1>8. HistoryTypes'
  BY <1>2, <1>4 DEF HistoryTypes, sizes
<1>9. CallFrame(t, h)
  BY <1>2, <1>3, <1>4, <1>6, <1>7, <1>8
     DEF CallFrame, file, counts, sizes, locks, LockTypes
<1>10. HandleFine(h)'
  BY <1>2, <1>4, <1>5, <1>6, <1>7 DEF HandleFine, counts, file, CountTypes
<1>11. ThreadFine(t)'
  <2>1. At(t)' = "io" /\ H(t)' = h /\ thread'[t].op = thread[t].op
        /\ thread'[t].arg = thread[t].arg
    BY <1>3, <1>7 DEF At, H
  <2> QED
    BY <1>2, <1>4, <1>5, <1>6, <1>7, <2>1 DEF ThreadFine, Inside, locks
<1>12. ContentFine(h)'
  BY <1>2, <1>4, <1>5, <1>6, <1>7 DEF ContentFine, Exact, file
<1>13. OffsetKept(t, h)
  <2> SUFFICES ASSUME NEW u \in Threads \ {t}, At(u) = "io", thread[u].op # "truncate",
                      H(u) = h, Steady(h)'
               PROVE  FALSE
    BY DEF OffsetKept
  <2>1. Steady(h)
    BY <1>4, <1>6, <1>7 DEF Steady
  <2> QED
    BY <1>1, <1>5, <1>h, <2>1, AloneAtOffset
<1> QED
  BY <1>1, <1>2, <1>h, <1>9, <1>10, <1>11, <1>12, <1>13, CallStep

(* A read, write or truncate that leaves the handle as n, and what it      *)
(* should hold as e                                                        *)
LEMMA TransferFrame ==
  ASSUME IInv, NEW t \in Threads, Transfer(t), NEW h, h = H(t),
         NEW n \in HandleRecord, handle' = [handle EXCEPT ![h] = n],
         n.kind = handle[h].kind, n.open = handle[h].open, n.filled,
         NEW e \in Seq(Nat), expected' = [expected EXCEPT ![h] = e],
         handle[h].content = expected[h] /\ Steady(h) => n.content = e,
         thread[t].op = "truncate" => n.pos = handle[h].pos
  PROVE  IInv'
<1>1. At(t) = "io" /\ Inside(t) /\ Return(t)
  BY DEF Transfer, At, Inside
<1>2. /\ h \in Handles /\ thread[t] \in ThreadRecord /\ thread \in [Threads -> ThreadRecord]
      /\ handle[h] \in HandleRecord /\ handle \in [Handles -> HandleRecord]
      /\ LockTypes /\ HistoryTypes /\ FileTypes /\ ThreadFine(t) /\ HandleFine(h)
      /\ handle[h].open /\ h <= opened /\ CountTypes /\ h \in Nat /\ ContentFine(h)
  BY <1>1, CallFacts
<1>3. /\ thread' = [thread EXCEPT ![t] = Idle] /\ thread'[t] = Idle /\ Idle.at = "idle"
      /\ Idle \in ThreadRecord /\ LockTypes' /\ ThreadFine(t)'
      /\ \A u \in Threads \ {t}, g \in Handles : handleLock[g] = u => handleLock'[g] = u
  BY <1>1, ReturnFacts DEF Idle
<1>4. UNCHANGED <<file, counts, met, sizes>>
  BY DEF Transfer
<1>5. handle[h].filled
  BY <1>1, <1>2 DEF ThreadFine
<1>6. handle'[h] = n /\ expected'[h] = e /\ e # Unset
  BY <1>2, NotAContent DEF HistoryTypes
<1>7. HistoryTypes'
  BY <1>2, <1>4 DEF HistoryTypes, sizes
<1>8. CallFrame(t, h)
  BY <1>2, <1>3, <1>4, <1>5, <1>6, <1>7 DEF CallFrame, file, counts, sizes, HistoryTypes
<1>9. HandleFine(h)'
  BY <1>2, <1>4, <1>6 DEF HandleFine, counts, file, CountTypes
<1>10. ContentFine(h)'
  <2>1. handle[h].kind # "none"
    BY <1>2 DEF HandleFine
  <2>2. created' = created /\ met' = met
    BY <1>4 DEF file
  <2>3. CASE handle[h].kind = "edit"
    BY <1>2, <1>5, <1>6, <2>2, <2>3 DEF ContentFine, Exact, Steady
  <2>4. CASE handle[h].kind = "local"
    BY <1>2, <1>5, <1>6, <2>2, <2>4 DEF ContentFine, Exact, Steady
  <2>5. CASE handle[h].kind = "new"
    BY <1>2, <1>5, <1>6, <2>2, <2>5 DEF ContentFine, Exact, Steady
  <2> QED
    BY <1>2, <2>1, <2>3, <2>4, <2>5 DEF HandleRecord
<1>11. OffsetKept(t, h)
  <2> SUFFICES ASSUME NEW u \in Threads \ {t}, At(u) = "io", thread[u].op # "truncate",
                      H(u) = h, Steady(h)', thread[t].op # "truncate"
               PROVE  FALSE
    BY <1>6 DEF OffsetKept
  <2>1. Steady(h)
    BY <1>4, <1>6 DEF Steady
  <2> QED
    BY <1>1, <2>1, AloneAtOffset
<1> QED
  BY <1>1, <1>2, <1>3, <1>8, <1>9, <1>10, <1>11, CallStep

LEMMA TransferStep ==
  ASSUME IInv, NEW t \in Threads, Transfer(t)
  PROVE  IInv'
<1>h. PICK h : h = H(t)
  OBVIOUS
<1> DEFINE c == handle[h].content
           a == thread[t].arg
<1>1. At(t) = "io" /\ Inside(t)
  BY DEF Transfer, At, Inside
<1>2. /\ h \in Handles /\ thread[t] \in ThreadRecord /\ thread \in [Threads -> ThreadRecord]
      /\ handle[h] \in HandleRecord /\ handle \in [Handles -> HandleRecord]
      /\ HistoryTypes /\ ThreadFine(t) /\ HandleFine(h) /\ h \in Nat
      /\ expected[h] \in Seq(Nat) \union {Unset}
  BY <1>1, <1>h, CallFacts
<1>3. /\ handle[h].filled /\ expected[h] \in Seq(Nat)
      /\ thread[t].op # "truncate" /\ Steady(h) => handle[h].pos = a
  BY <1>1, <1>2, <1>h DEF ThreadFine, HandleFine
<1>4. c \in Seq(Nat) /\ handle[h].pos \in Nat /\ a \in Nat /\ Len(c) \in Nat
  BY <1>2 DEF HandleRecord, ThreadRecord
<1>5. CASE thread[t].op = "read"
  <2> DEFINE p == IF handle[h].pos < Len(c) THEN handle[h].pos + 1 ELSE handle[h].pos
             n == [handle[h] EXCEPT !.pos = p]
  <2>1. handle' = [handle EXCEPT ![h] = n]
    BY <1>2, <1>5, <1>h DEF Transfer, H, HandleRecord
  <2>2. p \in Nat
    BY <1>4
  <2> HIDE DEF p
  <2>3. /\ n \in HandleRecord /\ n.kind = handle[h].kind /\ n.open = handle[h].open /\ n.filled
        /\ n.content = c
    BY <1>2, <1>3, <2>2 DEF HandleRecord
  <2>4. PICK e \in Seq(Nat) : e = expected[h]
    BY <1>3
  <2>5. expected' = [expected EXCEPT ![h] = e]
    BY <1>2, <1>5, <2>4 DEF HistoryTypes, Transfer
  <2> HIDE DEF n
  <2>6. c = expected[h] /\ Steady(h) => n.content = e
    BY <2>3, <2>4
  <2>7. thread[t].op = "truncate" => n.pos = handle[h].pos
    BY <1>5
  <2> QED
    BY <1>h, <2>1, <2>3, <2>5, <2>6, <2>7, TransferFrame
<1>6. CASE thread[t].op = "write"
  <2> DEFINE w == Overwritten(c, handle[h].pos, <<h>>)
             e == Overwritten(expected[h], a, <<h>>)
             p == handle[h].pos + Len(<<h>>)
             n == [handle[h] EXCEPT !.content = w, !.pos = p, !.modified = TRUE]
  <2>1. handle' = [handle EXCEPT ![h] = n] /\ expected' = [expected EXCEPT ![h] = e]
    BY <1>2, <1>6, <1>h DEF Transfer, H, Written, HandleRecord, HistoryTypes
  <2>2. w \in Seq(Nat) /\ e \in Seq(Nat) /\ p \in Nat
    <3>1. <<h>> \in Seq(Nat) /\ Len(<<h>>) = 1
      BY <1>2
    <3>2. w \in Seq(Nat)
      BY <1>4, <3>1, OverwrittenType
    <3>3. e \in Seq(Nat)
      BY <1>3, <1>4, <3>1, OverwrittenType
    <3> HIDE DEF w, e
    <3>4. p \in Nat
      BY <1>4, <3>1
    <3> QED
      BY <3>2, <3>3, <3>4
  <2>3. c = expected[h] /\ Steady(h) => w = e
    BY <1>3, <1>6
  <2> HIDE DEF w, e, p
  <2>4. /\ n \in HandleRecord /\ n.kind = handle[h].kind /\ n.open = handle[h].open /\ n.filled
        /\ n.content = w
    BY <1>2, <1>3, <2>2 DEF HandleRecord
  <2> HIDE DEF n
  <2> QED
    BY <1>6, <1>h, <2>1, <2>2, <2>3, <2>4, TransferFrame
<1>7. CASE thread[t].op = "truncate"
  <2> DEFINE w == Resized(c, a)
             e == Resized(expected[h], a)
             n == [handle[h] EXCEPT !.content = w, !.modified = TRUE]
  <2>1. handle' = [handle EXCEPT ![h] = n] /\ expected' = [expected EXCEPT ![h] = e]
    BY <1>2, <1>7, <1>h DEF Transfer, H, HandleRecord, HistoryTypes
  <2>2. w \in Seq(Nat) /\ e \in Seq(Nat)
    BY <1>3, <1>4, ResizedType
  <2>3. c = expected[h] => w = e
    OBVIOUS
  <2> HIDE DEF w, e
  <2>4. /\ n \in HandleRecord /\ n.kind = handle[h].kind /\ n.open = handle[h].open /\ n.filled
        /\ n.content = w /\ n.pos = handle[h].pos
    BY <1>2, <1>3, <2>2 DEF HandleRecord
  <2> HIDE DEF n
  <2> QED
    BY <1>h, <2>1, <2>2, <2>3, <2>4, TransferFrame
<1> QED
  BY <1>2, <1>5, <1>6, <1>7 DEF ThreadRecord

-----------------------------------------------------------------------------
(* Steps between calls: they concern at most one thread t and one handle h *)
(* that no other thread is using.                                          *)

BoundaryFrame(t, h) ==
  /\ handle' \in [Handles -> HandleRecord]
  /\ \A g \in Handles \ {h} : handle'[g] = handle[g] /\ expected'[g] = expected[g]
  /\ opened <= opened' /\ (created => created') /\ met \subseteq met'
  /\ thread' \in [Threads -> ThreadRecord]
  /\ \A u \in Threads \ {t} : thread'[u] = thread[u]
  /\ \A u \in Threads \ {t} : At(u) # "idle" /\ H(u) = h => handle'[h] = handle[h]
  /\ FileTypes' /\ CountTypes' /\ HistoryTypes'
  /\ UNCHANGED locks

LEMMA BoundaryStep ==
  ASSUME IInv, NEW t, NEW h, BoundaryFrame(t, h),
         h \in Handles => HandleFine(h)' /\ ContentFine(h)',
         t \in Threads => ThreadFine(t)',
         LocalInv', SizeInv', Released'
  PROVE  IInv'
<1>1. /\ handle \in [Handles -> HandleRecord] /\ thread \in [Threads -> ThreadRecord]
      /\ LockTypes /\ FileTypes /\ CountTypes /\ HistoryTypes /\ Released
  BY TypeParts DEF IInv
<1>2. HandleInv'
  <2> SUFFICES ASSUME NEW g \in Handles, g # h PROVE HandleFine(g)'
    BY DEF HandleInv
  <2>1. HandleFine(g) /\ handle'[g] = handle[g] /\ expected'[g] = expected[g]
    BY DEF IInv, HandleInv, BoundaryFrame
  <2>2. g > opened' => g > opened
    <3>1. g \in Nat /\ opened \in Nat /\ opened' \in Nat /\ opened <= opened'
      BY <1>1, BoundsAssumption DEF CountTypes, Handles, BoundaryFrame
    <3> QED
      BY <3>1
  <2> QED
    BY <2>1, <2>2 DEF HandleFine, BoundaryFrame
<1>3. ThreadInv'
  <2> SUFFICES ASSUME NEW u \in Threads \ {t} PROVE ThreadFine(u)'
    BY DEF ThreadInv
  <2>1. /\ ThreadFine(u) /\ thread'[u] = thread[u] /\ At(u)' = At(u) /\ H(u)' = H(u)
    BY DEF IInv, ThreadInv, BoundaryFrame, At, H
  <2>2. CASE At(u) \in {"idle", "store"}
    BY <2>1, <2>2 DEF ThreadFine, Inside
  <2>3. CASE At(u) \notin {"idle", "store"}
    <3>1. H(u) \in Handles
      BY <1>1, <2>1, <2>3 DEF ThreadFine, Inside
    <3>2. handle'[H(u)] = handle[H(u)] /\ handleLock' = handleLock
      BY <2>3, <3>1 DEF BoundaryFrame, locks
    <3>3. Steady(H(u))' => Steady(H(u))
      BY <2>1, <3>2 DEF Steady, BoundaryFrame
    <3> QED
      BY <2>1, <3>1, <3>2, <3>3 DEF ThreadFine, Inside
  <2> QED
    BY <2>2, <2>3
<1>4. ContentExact'
  <2> SUFFICES ASSUME NEW g \in Handles, g # h PROVE ContentFine(g)'
    BY ContentParts
  <2>1. ContentFine(g)
    BY ContentParts DEF IInv
  <2>2. handle'[g] = handle[g] /\ expected'[g] = expected[g]
        /\ (created => created') /\ met \subseteq met'
    BY DEF BoundaryFrame
  <2> QED
    BY <2>1, <2>2 DEF ContentFine, Exact
<1>5. TypeOK'
  BY <1>1, TypePartsPrimed DEF BoundaryFrame, LockTypes, locks
<1> QED
  BY <1>2, <1>3, <1>4, <1>5 DEF IInv

(* Nothing changes but the metadata, the queue and Drive.                  *)
LEMMA OutsideStep ==
  ASSUME IInv, UNCHANGED <<handle, thread, locks, opened, created, expected>>,
         met \subseteq met', FileTypes', CountTypes', HistoryTypes', SizeInv'
  PROVE  IInv'
<1>1. /\ handle \in [Handles -> HandleRecord] /\ thread \in [Threads -> ThreadRecord]
      /\ LockTypes /\ FileTypes /\ CountTypes /\ HistoryTypes /\ Released
  BY TypeParts DEF IInv
<1>2. BoundaryFrame(Nobody, 0)
  BY <1>1 DEF BoundaryFrame, CountTypes
<1>3. LocalInv'
  BY DEF IInv, LocalInv, Inside, At, H
<1>4. Released'
  BY <1>1 DEF Released, At, H, On
<1>5. 0 \notin Handles /\ Nobody \notin Threads
  BY BoundsAssumption, ThreadsAssumption DEF Handles
<1> QED
  BY <1>2, <1>3, <1>4, <1>5, BoundaryStep

(* What an upload does to the queue and to Drive keeps the size.           *)
LEMMA UploadStep ==
  ASSUME IInv, NEW u \in Uploaders, Work(u)
  PROVE  IInv'
<1>1. /\ LockTypes /\ FileTypes /\ CountTypes /\ HistoryTypes
  BY TypeParts DEF IInv
<1>2. /\ upload \in [Uploaders -> UploadRecord]
      /\ queued \in Seq(Nat) \union {NoFile} /\ drive \in Seq(Nat) \union {NoFile}
  BY <1>1 DEF FileTypes
<1>3. NoUpload \in UploadRecord /\ NoUpload.at = "none"
  BY NotAContent DEF NoUpload, UploadRecord
<1>4. UNCHANGED <<handle, thread, locks, metadata, created, counts, expected, met, sizes>>
  BY DEF Work, StartUpload, Send, RemoveJob, UploadFails
<1>5. CountTypes' /\ HistoryTypes'
  BY <1>1, <1>4 DEF CountTypes, HistoryTypes, counts, sizes
<1>6. Releasing' <=> Releasing
  BY <1>4 DEF Releasing
<1>7. SUFFICES FileTypes' /\ ListingInv'
               /\ (EntryFine /\ ~created /\ ~doubt /\ metadata # NoMetadata => EntryFine')
  <2>1. EntryInv'
    BY <1>4, <1>7 DEF IInv, SizeInv, EntryInv, sizes
  <2> QED
    BY <1>4, <1>5, <1>7, <2>1, OutsideStep DEF SizeInv, counts
<1>8. ASSUME queued # NoFile \/ Sending # {} PROVE ListingInv'
  BY <1>4, <1>8 DEF IInv, SizeInv, ListingInv, At, sizes
<1>9. CASE StartUpload(u)
  <2> DEFINE r == [at |-> "sending", content |-> queued, replaced |-> FALSE]
  <2>1. /\ queued # NoFile /\ queued' = queued /\ drive' = drive
        /\ upload' = [upload EXCEPT ![u] = r]
    BY <1>9 DEF StartUpload
  <2>2. r \in UploadRecord
    BY <1>2, <2>1 DEF UploadRecord
  <2>3. r.at = "sending" /\ r.content = queued /\ ~r.replaced
    OBVIOUS
  <2> HIDE DEF r
  <2>4. upload'[u] = r /\ \A v \in Uploaders \ {u} : upload'[v] = upload[v]
    BY <1>2, <2>1
  <2>5. FileTypes'
    BY <1>1, <1>4, <2>1, <2>2 DEF FileTypes
  <2>6. ASSUME EntryFine PROVE EntryFine'
    BY <1>4, <1>6, <2>1, <2>3, <2>4, <2>6 DEF EntryFine, Sending, At, H
  <2> QED
    BY <1>8, <2>1, <2>5, <2>6
<1>10. CASE Send(u)
  <2> DEFINE r == [upload[u] EXCEPT !.at = "sent"]
  <2>1. /\ u \in Sending /\ queued' = queued
        /\ drive' = IF created THEN drive ELSE upload[u].content
        /\ upload' = [upload EXCEPT ![u] = r]
    BY <1>2, <1>10 DEF Send, Sending, UploadRecord
  <2>2. /\ r \in UploadRecord /\ r.at = "sent" /\ r.content = upload[u].content
        /\ r.replaced = upload[u].replaced
    BY <1>2 DEF UploadRecord
  <2> HIDE DEF r
  <2>3. upload'[u] = r /\ \A v \in Uploaders \ {u} : upload'[v] = upload[v]
    BY <1>2, <2>1
  <2>4. FileTypes'
    BY <1>1, <1>2, <1>4, <2>1, <2>2 DEF FileTypes, UploadRecord
  <2>5. Sending' = Sending
    BY <2>1, <2>2, <2>3 DEF Sending
  <2>6. ASSUME EntryFine, ~created PROVE EntryFine'
    <3>1. drive' = upload[u].content
      BY <2>1, <2>6
    <3>2. ~Releasing => metadata = Len(drive')
      BY <2>1, <2>6, <3>1 DEF EntryFine
    <3> QED
      BY <1>4, <1>6, <2>1, <2>2, <2>3, <2>5, <2>6, <3>2 DEF EntryFine, At, H
  <2> QED
    BY <1>8, <2>1, <2>4, <2>6
<1>11. CASE RemoveJob(u) \/ UploadFails(u)
  <2>1. /\ u \in Sending /\ drive' = drive
        /\ upload' = [upload EXCEPT ![u] = NoUpload]
        /\ \/ queued' = queued
           \/ queued' = NoFile /\ (upload[u].at = "sent" \/ upload[u].replaced)
    BY <1>11 DEF RemoveJob, UploadFails, Sending
  <2>2. upload'[u] = NoUpload /\ \A v \in Uploaders \ {u} : upload'[v] = upload[v]
    BY <1>2, <2>1
  <2>3. FileTypes'
    BY <1>1, <1>2, <1>3, <1>4, <2>1 DEF FileTypes
  <2>4. Sending' = Sending \ {u}
    BY <1>3, <2>2 DEF Sending
  <2>5. ASSUME EntryFine PROVE EntryFine'
    <3>1. ASSUME ~Releasing, queued' = NoFile, drive # NoFile PROVE metadata = Len(drive)
      BY <2>1, <2>5, <3>1 DEF EntryFine
    <3>2. \A v \in Sending' : v \in Sending /\ upload'[v] = upload[v]
      BY <2>2, <2>4 DEF Sending
    <3>3. \A v \in Uploaders : upload'[v].at = "sent" => upload[v].at = "sent"
      BY <1>3, <2>2
    <3>4. queued' # NoFile => queued' = queued
      BY <2>1
    <3> QED
      BY <1>4, <1>6, <2>1, <2>5, <3>1, <3>2, <3>3, <3>4 DEF EntryFine, At, H
  <2> QED
    BY <1>8, <2>1, <2>3, <2>5
<1> QED
  BY <1>9, <1>10, <1>11 DEF Work

LEMMA ExpireStep ==
  ASSUME IInv, Expire
  PROVE  IInv'
<1>1. /\ LockTypes /\ FileTypes /\ CountTypes /\ HistoryTypes
  BY TypeParts DEF IInv
<1>2. /\ metadata' = NoMetadata /\ doubt' = FALSE
      /\ UNCHANGED <<handle, thread, locks, queued, drive, upload, created, counts,
                     expected, met, disturbed>>
  BY DEF Expire
<1>3. FileTypes' /\ CountTypes' /\ HistoryTypes'
  BY <1>1, <1>2 DEF FileTypes, CountTypes, HistoryTypes, counts
<1>4. EntryInv'
  BY <1>2 DEF EntryInv
<1>5. ListingInv'
  BY <1>2 DEF IInv, SizeInv, ListingInv, At, Sending, Releasing
<1> QED
  BY <1>2, <1>3, <1>4, <1>5, OutsideStep DEF counts, SizeInv

(* A thread that begins or ends a listing                                  *)
LEMMA ListingFrame ==
  ASSUME IInv, NEW t \in Threads, At(t) \in {"idle", "store"},
         NEW r \in ThreadRecord, thread' = [thread EXCEPT ![t] = r],
         r.at \in {"idle", "store"}, r.at = "store" => r.handle = 0,
         UNCHANGED <<handle, locks, queued, drive, upload, created, counts, expected, met>>,
         FileTypes', HistoryTypes',
         SizeInv'
  PROVE  IInv'
<1>1. /\ handle \in [Handles -> HandleRecord] /\ thread \in [Threads -> ThreadRecord]
      /\ LockTypes /\ FileTypes /\ CountTypes /\ HistoryTypes /\ Released
  BY TypeParts DEF IInv
<1>2. thread'[t] = r /\ \A u \in Threads \ {t} : thread'[u] = thread[u]
  BY <1>1
<1>3. At(t)' \in {"idle", "store"} /\ (At(t)' = "store" => H(t)' = 0)
  BY <1>2 DEF At, H
<1>4. ASSUME NEW u \in Threads \ {t} PROVE At(u)' = At(u) /\ H(u)' = H(u)
  BY <1>2 DEF At, H
<1>5. CountTypes'
  BY <1>1 DEF CountTypes, counts
<1>6. BoundaryFrame(t, 0)
  BY <1>1, <1>2, <1>5 DEF BoundaryFrame, counts, CountTypes
<1>7. ThreadFine(t)'
  BY <1>3 DEF ThreadFine, Inside
<1>8. LocalInv'
  <2> SUFFICES ASSUME NEW u \in Threads, NEW v \in Threads, u # v, Inside(u)', Inside(v)',
                      H(u)' = H(v)', handle[H(u)'].kind = "local"
               PROVE  "unlocked" \in met
    BY DEF LocalInv
  <2>1. u # t /\ v # t
    BY <1>3 DEF Inside
  <2>2. Inside(u) /\ Inside(v) /\ H(u)' = H(u) /\ H(v)' = H(v)
    BY <1>4, <2>1 DEF Inside
  <2> QED
    BY <2>2 DEF IInv, LocalInv
<1>9. Released'
  <2> SUFFICES ASSUME NEW u \in Threads, At(u)' \in {"size", "enqueue"}
               PROVE  /\ ~handle[H(u)'].open
                      /\ {w \in Threads : At(w)' # "idle" /\ H(w)' = H(u)'} = {u}
    BY DEF Released, On, At, H
  <2>1. u # t
    BY <1>3
  <2>2. At(u) \in {"size", "enqueue"} /\ H(u)' = H(u) /\ At(u)' # "idle"
    BY <1>4, <2>1
  <2>3. ~handle[H(u)].open /\ On(H(u)) = {u} /\ H(u) \in Handles /\ H(u) # 0
    BY <1>1, <2>2, BoundsAssumption DEF Released, IInv, ThreadInv, ThreadFine, Handles
  <2>4. ASSUME NEW w \in Threads, At(w)' # "idle", H(w)' = H(u) PROVE w = u
    <3>1. w # t
      BY <1>3, <2>3, <2>4
    <3>2. w \in On(H(u))
      BY <1>4, <2>4, <3>1 DEF On, At, H
    <3> QED
      BY <2>3, <3>2
  <2> QED
    BY <2>2, <2>3, <2>4
<1>10. 0 \notin Handles
  BY BoundsAssumption DEF Handles
<1> QED
  BY <1>6, <1>7, <1>8, <1>9, <1>10, BoundaryStep

LEMMA ListStep ==
  ASSUME IInv, NEW t \in Threads, List(t)
  PROVE  IInv'
<1>n. PICK n : n = Len(drive)
  OBVIOUS
<1>i. PICK i \in ThreadRecord : i = Idle /\ i.handle = 0
  <2>1. Idle \in ThreadRecord
    BY BoundsAssumption, NotAContent DEF Idle, ThreadRecord
  <2>2. Idle.handle = 0
    BY DEF Idle
  <2> QED
    BY <2>1, <2>2
<1> DEFINE r == [i EXCEPT !.at = "store", !.arg = n]
<1>1. /\ thread \in [Threads -> ThreadRecord] /\ FileTypes /\ HistoryTypes
  BY TypeParts DEF IInv
<1>2. /\ At(t) = "idle" /\ drive # NoFile /\ thread' = [thread EXCEPT ![t] = r]
      /\ disturbed' = IF queued # NoFile \/ Sending # {} \/ Releasing
                        THEN disturbed \union {t} ELSE disturbed \ {t}
      /\ UNCHANGED <<handle, locks, file, counts, expected, met, doubt>>
  BY <1>n, <1>i DEF List, At
<1>3. n \in Nat
  BY <1>1, <1>2, <1>n DEF FileTypes
<1>4. r \in ThreadRecord /\ r.at = "store" /\ r.handle = 0 /\ r.arg = n
  BY <1>3, <1>i DEF ThreadRecord
<1> HIDE DEF r
<1>5. thread'[t] = r /\ \A u \in Threads \ {t} : thread'[u] = thread[u]
  BY <1>1, <1>2
<1>6. Releasing' <=> Releasing
  <2>1. \A u \in Threads :
          thread'[u].at \in {"size", "enqueue"} <=> thread[u].at \in {"size", "enqueue"}
    BY <1>2, <1>4, <1>5 DEF At
  <2> QED
    BY <2>1 DEF Releasing
<1>7. Sending' = Sending
  BY <1>2 DEF Sending, file
<1>8. \A u \in Threads : At(u)' \in {"size", "enqueue"} =>
        At(u)' = At(u) /\ H(u)' = H(u)
  BY <1>4, <1>5 DEF At, H
<1>9. EntryInv'
  <2> SUFFICES ASSUME EntryFine PROVE EntryFine'
    BY <1>2 DEF IInv, SizeInv, EntryInv, file
  <2> QED
    BY <1>2, <1>6, <1>7, <1>8 DEF EntryFine, file
<1>10. ListingInv'
  <2> SUFFICES ASSUME NEW u \in Threads, At(u)' = "store", u \notin disturbed'
               PROVE  /\ drive # NoFile /\ thread'[u].arg = Len(drive)
                      /\ queued = NoFile /\ Sending = {} /\ ~Releasing
    BY <1>2, <1>6, <1>7 DEF ListingInv, file
  <2>1. CASE u = t
    BY <1>2, <1>4, <1>5, <1>n, <2>1
  <2>2. CASE u # t
    BY <1>2, <1>5, <2>2 DEF IInv, SizeInv, ListingInv, At
  <2> QED
    BY <2>1, <2>2
<1>11. FileTypes' /\ HistoryTypes'
  BY <1>1, <1>2 DEF FileTypes, HistoryTypes, file
<1> QED
  BY <1>2, <1>4, <1>9, <1>10, <1>11, ListingFrame DEF SizeInv, file

(* A listing that nothing disturbed leaves no doubt.                       *)
LEMMA StoreStep ==
  ASSUME IInv, NEW t \in Threads, Store(t)
  PROVE  IInv'
<1>1. /\ thread \in [Threads -> ThreadRecord] /\ FileTypes /\ HistoryTypes
  BY TypeParts DEF IInv
<1>2. /\ At(t) = "store" /\ metadata' = thread[t].arg /\ thread' = [thread EXCEPT ![t] = Idle]
      /\ doubt' = (t \in disturbed) /\ disturbed' = disturbed \ {t}
      /\ UNCHANGED <<handle, locks, queued, drive, upload, created, counts, expected, met>>
  BY DEF Store, At
<1>3. Idle \in ThreadRecord /\ Idle.at = "idle"
  BY BoundsAssumption, NotAContent DEF Idle, ThreadRecord
<1>4. thread'[t] = Idle /\ \A u \in Threads \ {t} : thread'[u] = thread[u]
  BY <1>1, <1>2
<1>5. Releasing' <=> Releasing
  <2>1. \A u \in Threads :
          thread'[u].at \in {"size", "enqueue"} <=> thread[u].at \in {"size", "enqueue"}
    BY <1>2, <1>3, <1>4 DEF At
  <2> QED
    BY <2>1 DEF Releasing
<1>6. Sending' = Sending
  BY <1>2 DEF Sending
<1>7. EntryInv'
  <2> SUFFICES ASSUME t \notin disturbed PROVE EntryFine'
    BY <1>2 DEF EntryInv
  <2>1. /\ drive # NoFile /\ metadata' = Len(drive)
        /\ queued = NoFile /\ Sending = {} /\ ~Releasing
    BY <1>2 DEF IInv, SizeInv, ListingInv
  <2>2. \A u \in Threads : At(u)' \notin {"size", "enqueue"}
    BY <1>5, <2>1 DEF Releasing, At
  <2>3. \A u \in Uploaders : upload'[u].at = "none"
    BY <1>2, <2>1 DEF Sending
  <2> QED
    BY <1>2, <1>6, <2>1, <2>2, <2>3 DEF EntryFine
<1>8. ListingInv'
  <2> SUFFICES ASSUME NEW u \in Threads, At(u)' = "store", u \notin disturbed'
               PROVE  /\ drive # NoFile /\ thread'[u].arg = Len(drive)
                      /\ queued = NoFile /\ Sending = {} /\ ~Releasing
    BY <1>2, <1>5, <1>6 DEF ListingInv
  <2>1. u # t
    BY <1>3, <1>4 DEF At
  <2> QED
    BY <1>2, <1>4, <2>1 DEF IInv, SizeInv, ListingInv, At
<1>9. FileTypes' /\ HistoryTypes'
  BY <1>1, <1>2 DEF FileTypes, HistoryTypes, ThreadRecord
<1> QED
  BY <1>2, <1>3, <1>7, <1>8, <1>9, ListingFrame DEF SizeInv

(* The new descriptor was never used before.                               *)
LEMMA NewHandleStep ==
  ASSUME IInv, NEW kind \in {"edit", "new", "local"}, NEW filled \in BOOLEAN,
         NEW modified \in BOOLEAN, NewHandle(kind, filled, modified),
         FileTypes', created => created', ~created' => metadata' = metadata,
         kind \in {"new", "local"} => filled, kind = "new" => created'
  PROVE  IInv'
<1>k. PICK k : k = opened + 1
  OBVIOUS
<1> DEFINE n == [kind |-> kind, open |-> TRUE, content |-> <<>>, pos |-> 0,
                 filled |-> filled, modified |-> modified]
<1>1. /\ handle \in [Handles -> HandleRecord] /\ thread \in [Threads -> ThreadRecord]
      /\ LockTypes /\ FileTypes /\ CountTypes /\ HistoryTypes /\ Released
  BY TypeParts DEF IInv
<1>2. /\ opened < MaxHandles /\ opened' = k /\ handle' = [handle EXCEPT ![k] = n]
      /\ expected' = [expected EXCEPT ![k] = IF filled THEN <<>> ELSE expected[k]]
      /\ UNCHANGED <<thread, locks, queued, drive, upload, calls, met, sizes>>
  BY <1>k DEF NewHandle
<1>3. k \in Handles /\ k > opened /\ opened \in Nat /\ k \in Nat
  BY <1>1, <1>2, <1>k, BoundsAssumption DEF CountTypes, Handles
<1>4. handle[k] = Unopened /\ expected[k] = Unset
  BY <1>3 DEF IInv, HandleInv, HandleFine
<1>5. n \in HandleRecord
  BY NotAContent DEF HandleRecord
<1>6. /\ n.kind = kind /\ n.open /\ n.content = <<>> /\ n.pos = 0 /\ n.filled = filled
  OBVIOUS
<1> HIDE DEF n
<1>7. /\ handle'[k] = n /\ expected'[k] = IF filled THEN <<>> ELSE Unset
      /\ \A g \in Handles \ {k} : handle'[g] = handle[g] /\ expected'[g] = expected[g]
  BY <1>1, <1>2, <1>3, <1>4 DEF HistoryTypes
<1>8. ASSUME NEW u \in Threads, At(u) # "idle"
      PROVE  H(u) # k /\ (At(u) # "store" => H(u) \in Handles)
  BY <1>3, <1>4, <1>8 DEF IInv, ThreadInv, ThreadFine, Inside, Unopened
<1>9. HistoryTypes' /\ CountTypes'
  BY <1>1, <1>2, <1>3, <1>k, BoundsAssumption, NotAContent DEF HistoryTypes, CountTypes, sizes
<1>10. BoundaryFrame(Nobody, k)
  BY <1>1, <1>2, <1>3, <1>5, <1>7, <1>8, <1>9, <1>k DEF BoundaryFrame, CountTypes
<1>11. HandleFine(k)' /\ ContentFine(k)'
  <2>1. ~(k > opened')
    BY <1>2, <1>3
  <2>2. <<>> # Unset
    BY NotAContent
  <2>3. HandleFine(k)'
    BY <1>6, <1>7, <2>1, <2>2 DEF HandleFine
  <2>4. ContentFine(k)'
    BY <1>6, <1>7 DEF ContentFine, Exact
  <2> QED
    BY <2>3, <2>4
<1>12. \A u \in Threads : thread'[u] = thread[u]
  BY <1>2
<1>13. LocalInv'
  <2> SUFFICES ASSUME NEW t \in Threads, NEW u \in Threads, t # u, Inside(t), Inside(u),
                      H(t) = H(u), handle'[H(t)].kind = "local"
               PROVE  "unlocked" \in met
    BY <1>2 DEF LocalInv, Inside, At, H
  <2>1. handle'[H(t)] = handle[H(t)]
    BY <1>7, <1>8 DEF Inside
  <2> QED
    BY <2>1 DEF IInv, LocalInv
<1>14. SizeInv'
  <2>1. \A u \in Threads : At(u) = "enqueue" => handle'[H(u)] = handle[H(u)]
    BY <1>7, <1>8
  <2> QED
    BY <1>2, <2>1, SizeFrame DEF IInv, At, H, sizes
<1>15. Released'
  <2> SUFFICES ASSUME NEW t \in Threads, At(t) \in {"size", "enqueue"}
               PROVE  ~handle'[H(t)].open /\ On(H(t)) = {t}
    BY <1>2 DEF Released, At, H, On
  <2>1. handle'[H(t)] = handle[H(t)]
    BY <1>7, <1>8
  <2> QED
    BY <1>1, <2>1 DEF Released
<1> QED
  BY <1>10, <1>11, <1>13, <1>14, <1>15, ThreadsAssumption, BoundaryStep

LEMMA OpenStep ==
  ASSUME IInv, NEW truncate \in BOOLEAN, Open(truncate)
  PROVE  IInv'
<1>1. FileTypes
  BY TypeParts DEF IInv
<1>2. /\ NewHandle("edit", truncate, truncate)
      /\ metadata' = metadata /\ created' = created
      /\ queued' = queued /\ drive' = drive /\ upload' = upload
  BY DEF Open, NewHandle
<1>3. FileTypes'
  BY <1>1, <1>2 DEF FileTypes
<1> QED
  BY <1>2, <1>3, NewHandleStep

LEMMA CreateStep ==
  ASSUME IInv, Create
  PROVE  IInv'
<1>1. FileTypes
  BY TypeParts DEF IInv
<1>2. /\ NewHandle("new", TRUE, TRUE)
      /\ metadata' = 0 /\ created' = TRUE
      /\ queued' = queued /\ drive' = drive /\ upload' = upload
  BY DEF Create, NewHandle
<1>3. FileTypes'
  BY <1>1, <1>2 DEF FileTypes
<1> QED
  BY <1>2, <1>3, NewHandleStep

LEMMA CreateSwapStep ==
  ASSUME IInv, CreateSwap
  PROVE  IInv'
<1>1. FileTypes
  BY TypeParts DEF IInv
<1>2. /\ NewHandle("local", TRUE, TRUE)
      /\ metadata' = metadata /\ created' = created
      /\ queued' = queued /\ drive' = drive /\ upload' = upload
  BY DEF CreateSwap, NewHandle
<1>3. FileTypes'
  BY <1>1, <1>2 DEF FileTypes
<1> QED
  BY <1>2, <1>3, NewHandleStep

LEMMA CallBeginStep ==
  ASSUME IInv, NEW t \in Threads, NEW h \in Handles,
         NEW op \in {"read", "write", "truncate"}, NEW arg \in Nat, Call(t, h, op, arg)
  PROVE  IInv'
<1> DEFINE local == handle[h].kind = "local"
           place == IF op = "truncate" THEN IF local THEN "io" ELSE "fdLock"
                                       ELSE IF local THEN "seek" ELSE "lock"
           r == [at |-> place,
                 op |-> op, handle |-> h, arg |-> arg, data |-> <<>>]
<1>1. /\ handle \in [Handles -> HandleRecord] /\ thread \in [Threads -> ThreadRecord]
      /\ LockTypes /\ FileTypes /\ CountTypes /\ HistoryTypes /\ Released
  BY TypeParts DEF IInv
<1>2. /\ At(t) = "idle" /\ handle[h].open /\ calls < MaxCalls /\ calls' = calls + 1
      /\ met' = met \union (IF local /\ On(h) # {} THEN {"unlocked"} ELSE {})
      /\ thread' = [thread EXCEPT ![t] = r]
      /\ UNCHANGED <<handle, locks, file, opened, expected, sizes>>
  BY DEF Call, At
<1>3. /\ r.op = op /\ r.handle = h /\ r.arg = arg /\ r.data = <<>>
      /\ r.at \in {"io", "fdLock", "seek", "lock"}
      /\ r.at = "fdLock" => op = "truncate" /\ ~local
      /\ r.at = "lock" => op # "truncate" /\ ~local
      /\ r.at = "seek" => op # "truncate" /\ local
      /\ r.at = "io" => op = "truncate" /\ local
  <2>1. /\ op = "truncate" /\ local => place = "io"
        /\ op = "truncate" /\ ~local => place = "fdLock"
        /\ op # "truncate" /\ local => place = "seek"
        /\ op # "truncate" /\ ~local => place = "lock"
    OBVIOUS
  <2> HIDE DEF place, local
  <2> QED
    BY <2>1
<1>4. r \in ThreadRecord
  <2>1. h \in 0..MaxHandles
    BY BoundsAssumption DEF Handles
  <2>2. r = [at |-> r.at, op |-> op, handle |-> h, arg |-> arg, data |-> <<>>]
    OBVIOUS
  <2> QED
    BY <1>3, <2>1, <2>2, NotAContent DEF ThreadRecord
<1> HIDE DEF r
<1>5. thread'[t] = r /\ \A u \in Threads \ {t} : thread'[u] = thread[u]
  BY <1>1, <1>2
<1>6. /\ At(t)' = r.at /\ H(t)' = h /\ thread'[t].op = op
  BY <1>3, <1>5 DEF At, H
<1>7. ASSUME NEW u \in Threads \ {t}
      PROVE  At(u)' = At(u) /\ H(u)' = H(u)
  BY <1>5 DEF At, H
<1>8. CountTypes' /\ HistoryTypes' /\ FileTypes'
  BY <1>1, <1>2, BoundsAssumption DEF CountTypes, HistoryTypes, FileTypes, file, sizes
<1>9. BoundaryFrame(t, h)
  BY <1>1, <1>2, <1>4, <1>5, <1>8 DEF BoundaryFrame, file, CountTypes
<1>10. HandleFine(h) /\ ContentFine(h)
  BY ContentParts DEF IInv, HandleInv
<1>11. HandleFine(h)' /\ ContentFine(h)'
  BY <1>2, <1>10 DEF HandleFine, ContentFine, Exact, file
<1>12. ThreadFine(t)'
  BY <1>2, <1>3, <1>6, <1>10 DEF ThreadFine, Inside, HandleFine
<1>13. LocalInv'
  <2> SUFFICES ASSUME NEW u \in Threads, NEW v \in Threads, u # v, Inside(u)', Inside(v)',
                      H(u)' = H(v)', handle[H(u)'].kind = "local"
               PROVE  "unlocked" \in met'
    BY <1>2 DEF LocalInv
  <2>1. ASSUME NEW w \in Threads, w # t, Inside(w)', H(w)' = h, local
        PROVE  "unlocked" \in met'
    <3>1. w \in On(h)
      BY <1>7, <2>1 DEF On, At, H, Inside
    <3> QED
      BY <1>2, <2>1, <3>1
  <2>2. CASE u = t
    BY <1>6, <2>1, <2>2
  <2>3. CASE v = t
    BY <1>6, <2>1, <2>3
  <2>4. CASE u # t /\ v # t
    BY <1>2, <1>7, <2>4 DEF IInv, LocalInv, Inside
  <2> QED
    BY <2>2, <2>3, <2>4
<1>14. ASSUME NEW u \in Threads
       PROVE  /\ (At(u)' = "size") <=> (At(u) = "size")
              /\ (At(u)' = "enqueue") <=> (At(u) = "enqueue")
              /\ At(u) \in {"size", "enqueue"} => H(u)' = H(u)
  <2>1. CASE u = t
    BY <1>2, <1>3, <1>6, <2>1
  <2>2. CASE u # t
    BY <1>7, <2>2
  <2> QED
    BY <2>1, <2>2
<1>15. SizeInv'
  <2>1. At(t) = "idle" /\ At(t)' \notin {"size", "enqueue", "store"}
    BY <1>2, <1>3, <1>6
  <2>2. \A u \in Threads \ {t} : At(u)' = At(u) /\ H(u)' = H(u) /\ thread'[u] = thread[u]
    BY <1>5, <1>7
  <2> QED
    BY <1>2, <2>1, <2>2, SizeFrame DEF IInv, file, sizes
<1>16. Released'
  <2> SUFFICES ASSUME NEW u \in Threads, At(u)' \in {"size", "enqueue"}
               PROVE  /\ ~handle'[H(u)'].open
                      /\ {w \in Threads : At(w)' # "idle" /\ H(w)' = H(u)'} = {u}
    BY DEF Released, On, At, H
  <2>1. At(u) \in {"size", "enqueue"} /\ H(u)' = H(u) /\ u # t
    BY <1>2, <1>14
  <2>2. ~handle[H(u)].open /\ On(H(u)) = {u}
    BY <1>1, <2>1 DEF Released
  <2>3. ASSUME NEW w \in Threads, At(w)' # "idle", H(w)' = H(u) PROVE w = u
    <3>1. w # t
      BY <1>2, <1>6, <2>2, <2>3
    <3>2. w \in On(H(u))
      BY <1>7, <2>3, <3>1 DEF On, At, H
    <3> QED
      BY <2>2, <3>2
  <2>4. At(u)' # "idle"
    BY <1>7, <2>1
  <2> QED
    BY <1>2, <2>1, <2>2, <2>3, <2>4
<1> QED
  BY <1>9, <1>11, <1>12, <1>13, <1>15, <1>16, BoundaryStep

(* release of a modified file of Drive: the thread keeps the handle.       *)
LEMMA ReleaseModifiedStep ==
  ASSUME IInv, NEW t \in Threads, NEW h \in Handles, Release(t, h),
         handle[h].kind \in {"edit", "new"}, handle[h].modified
  PROVE  IInv'
<1> DEFINE place == IF handle[h].kind = "new" THEN "enqueue" ELSE "size"
           r == [thread[t] EXCEPT !.handle = h, !.at = place]
           n == [handle[h] EXCEPT !.open = FALSE]
<1>1. /\ handle \in [Handles -> HandleRecord] /\ thread \in [Threads -> ThreadRecord]
      /\ LockTypes /\ FileTypes /\ CountTypes /\ HistoryTypes /\ Released
  BY TypeParts DEF IInv
<1>2. /\ At(t) = "idle" /\ handle[h].open /\ On(h) = {}
      /\ handle' = [handle EXCEPT ![h] = n]
      /\ thread' = [thread EXCEPT ![t] = r]
      /\ doubt' = (doubt \/ Releasing) /\ disturbed' = Listing
      /\ UNCHANGED <<locks, file, counts, expected, met>>
  BY <1>1 DEF Release, At, Popped, HandleRecord, ThreadRecord
<1>3. /\ n \in HandleRecord /\ n.kind = handle[h].kind /\ ~n.open
      /\ n.content = handle[h].content /\ n.filled = handle[h].filled
      /\ n.pos = handle[h].pos
  BY <1>1 DEF HandleRecord
<1>4. /\ r \in ThreadRecord /\ r.handle = h /\ r.at = place
  <2>1. h \in 0..MaxHandles
    BY BoundsAssumption DEF Handles
  <2>2. place \in {"size", "enqueue"}
    OBVIOUS
  <2> HIDE DEF place
  <2> QED
    BY <1>1, <2>1, <2>2 DEF ThreadRecord
<1>5. /\ handle'[h] = n /\ thread'[t] = r
      /\ \A g \in Handles \ {h} : handle'[g] = handle[g]
      /\ \A u \in Threads \ {t} : thread'[u] = thread[u]
  BY <1>1, <1>2
<1> HIDE DEF r, n
<1>6. At(t)' = place /\ H(t)' = h /\ place \in {"size", "enqueue"}
  BY <1>4, <1>5 DEF At, H
<1>7. ASSUME NEW u \in Threads \ {t}
      PROVE  At(u)' = At(u) /\ H(u)' = H(u)
  BY <1>5 DEF At, H
<1>8. ASSUME NEW u \in Threads, At(u) # "idle"
      PROVE  /\ H(u) # h
             /\ At(u) # "store" => H(u) \in Handles /\ handle'[H(u)] = handle[H(u)]
  <2>1. H(u) # h
    BY <1>2, <1>8 DEF On, At, H
  <2>2. At(u) # "store" => H(u) \in Handles
    BY <1>8 DEF IInv, ThreadInv, ThreadFine, Inside
  <2> QED
    BY <1>5, <2>1, <2>2
<1>9. CountTypes' /\ HistoryTypes' /\ FileTypes'
  BY <1>1, <1>2 DEF CountTypes, HistoryTypes, FileTypes, file, counts, Listing
<1>10. BoundaryFrame(t, h)
  BY <1>1, <1>2, <1>3, <1>4, <1>5, <1>8, <1>9 DEF BoundaryFrame, file, counts, CountTypes
<1>11. HandleFine(h) /\ ContentFine(h)
  BY ContentParts DEF IInv, HandleInv
<1>12. HandleFine(h)' /\ ContentFine(h)'
  <2>1. ~(h > opened)
    BY <1>2, <1>11 DEF HandleFine, Unopened
  <2> QED
    BY <1>2, <1>3, <1>5, <1>11, <2>1 DEF HandleFine, ContentFine, Exact, file, counts
<1>13. ThreadFine(t)'
  BY <1>3, <1>5, <1>6 DEF ThreadFine, Inside
<1>14. LocalInv'
  <2> SUFFICES ASSUME NEW u \in Threads, NEW v \in Threads, u # v, Inside(u)', Inside(v)',
                      H(u)' = H(v)', handle'[H(u)'].kind = "local"
               PROVE  "unlocked" \in met'
    BY DEF LocalInv
  <2>1. u # t /\ v # t
    BY <1>6 DEF Inside
  <2>2. /\ Inside(u) /\ Inside(v) /\ H(u)' = H(u) /\ H(v)' = H(v)
        /\ handle'[H(u)] = handle[H(u)]
    BY <1>7, <1>8, <2>1 DEF Inside
  <2> QED
    BY <1>2, <2>2 DEF IInv, LocalInv
<1>15. SizeInv'
  <2>1. ListingInv'
    <3> SUFFICES ASSUME NEW u \in Threads, At(u)' = "store" PROVE u \in disturbed'
      BY DEF ListingInv
    <3>1. u # t
      BY <1>6
    <3> QED
      BY <1>2, <1>7, <3>1 DEF Listing, At
  <2>2. ASSUME ~created', ~doubt', metadata' # NoMetadata PROVE EntryFine'
    <3>1. ~Releasing /\ EntryFine
      BY <1>2, <2>2 DEF IInv, SizeInv, EntryInv, file
    <3>2. \A u \in Threads : At(u) \notin {"size", "enqueue"}
      BY <3>1 DEF Releasing, At
    <3>3. ASSUME NEW u \in Threads, At(u)' \in {"size", "enqueue"} PROVE u = t
      BY <1>7, <3>2, <3>3
    <3>4. handle[h].kind # "new" /\ At(t)' = "size"
      BY <1>2, <1>6, <1>11, <2>2 DEF HandleFine, file
    <3>5. Releasing'
      BY <1>6 DEF Releasing, At
    <3>6. \A u \in Sending' : ~upload'[u].replaced
      BY <1>2, <3>1 DEF EntryFine, Sending, file
    <3> QED
      BY <3>3, <3>4, <3>5, <3>6 DEF EntryFine
  <2> QED
    BY <2>1, <2>2 DEF SizeInv, EntryInv
<1>16. Released'
  <2> SUFFICES ASSUME NEW u \in Threads, At(u)' \in {"size", "enqueue"}
               PROVE  /\ ~handle'[H(u)'].open
                      /\ {w \in Threads : At(w)' # "idle" /\ H(w)' = H(u)'} = {u}
    BY DEF Released, On, At, H
  <2>1. CASE u = t
    <3>1. ASSUME NEW w \in Threads \ {t}, At(w)' # "idle" PROVE H(w)' # h
      BY <1>7, <1>8, <3>1
    <3>2. At(t)' # "idle" /\ H(t)' = h /\ ~handle'[h].open
      BY <1>3, <1>5, <1>6
    <3> QED
      BY <2>1, <3>1, <3>2
  <2>2. CASE u # t
    <3>1. At(u)' = At(u) /\ H(u)' = H(u) /\ At(u) # "idle" /\ At(u) \in {"size", "enqueue"}
      BY <1>7, <2>2
    <3>2. ~handle[H(u)].open /\ On(H(u)) = {u} /\ H(u) # h /\ handle'[H(u)] = handle[H(u)]
      BY <1>1, <1>8, <3>1 DEF Released
    <3>3. ASSUME NEW w \in Threads, At(w)' # "idle", H(w)' = H(u) PROVE w = u
      <4>1. w # t
        BY <1>6, <3>2, <3>3
      <4>2. w \in On(H(u))
        BY <1>7, <3>3, <4>1 DEF On, At, H
      <4> QED
        BY <3>2, <4>2
    <3> QED
      BY <3>1, <3>2, <3>3
  <2> QED
    BY <2>1, <2>2
<1> QED
  BY <1>10, <1>12, <1>13, <1>14, <1>15, <1>16, BoundaryStep

(* release of any other handle: it is gone at once.                        *)
LEMMA ReleaseOtherStep ==
  ASSUME IInv, NEW t \in Threads, NEW h \in Handles, Release(t, h),
         handle' = [handle EXCEPT ![h] = Unopened], thread' = thread, sizes' = sizes
  PROVE  IInv'
<1>1. /\ handle \in [Handles -> HandleRecord] /\ thread \in [Threads -> ThreadRecord]
      /\ LockTypes /\ FileTypes /\ CountTypes /\ HistoryTypes /\ Released
  BY TypeParts DEF IInv
<1>2. /\ handle[h].open /\ On(h) = {}
      /\ UNCHANGED <<locks, file, counts, expected, met>>
  BY DEF Release
<1>3. Unopened \in HandleRecord /\ Unopened.kind = "none" /\ ~Unopened.filled /\ ~Unopened.open
      /\ Unopened.content = <<>> /\ Unopened.pos = 0
  BY NotAContent DEF Unopened, HandleRecord
<1>4. handle'[h] = Unopened /\ \A g \in Handles \ {h} : handle'[g] = handle[g]
  BY <1>1
<1>5. ASSUME NEW u \in Threads, At(u) # "idle"
      PROVE  /\ H(u) # h
             /\ At(u) # "store" => H(u) \in Handles /\ handle'[H(u)] = handle[H(u)]
  <2>1. H(u) # h
    BY <1>2, <1>5 DEF On, At, H
  <2>2. At(u) # "store" => H(u) \in Handles
    BY <1>5 DEF IInv, ThreadInv, ThreadFine, Inside
  <2> QED
    BY <1>4, <2>1, <2>2
<1>6. CountTypes' /\ HistoryTypes' /\ FileTypes'
  BY <1>1, <1>2 DEF CountTypes, HistoryTypes, FileTypes, file, counts, sizes
<1>7. BoundaryFrame(Nobody, h)
  BY <1>1, <1>2, <1>3, <1>4, <1>5, <1>6 DEF BoundaryFrame, file, counts, CountTypes
<1>8. HandleFine(h)' /\ ContentFine(h)'
  <2>1. ~(h > opened)
    BY <1>2 DEF IInv, HandleInv, HandleFine, Unopened
  <2> QED
    BY <1>2, <1>3, <1>4, <2>1 DEF HandleFine, ContentFine, Exact, counts
<1>9. LocalInv'
  <2> SUFFICES ASSUME NEW u \in Threads, NEW v \in Threads, u # v, Inside(u), Inside(v),
                      H(u) = H(v), handle'[H(u)].kind = "local"
               PROVE  "unlocked" \in met
    BY <1>2 DEF LocalInv, Inside, At, H
  <2> QED
    BY <1>5 DEF IInv, LocalInv, Inside
<1>10. SizeInv'
  <2>1. \A u \in Threads : At(u) = "enqueue" => handle'[H(u)] = handle[H(u)]
    BY <1>5
  <2> QED
    BY <1>2, <2>1, SizeFrame DEF IInv, At, H, file, sizes
<1>11. Released'
  <2> SUFFICES ASSUME NEW u \in Threads, At(u) \in {"size", "enqueue"}
               PROVE  ~handle'[H(u)].open /\ On(H(u)) = {u}
    BY DEF Released, At, H, On
  <2> QED
    BY <1>1, <1>5 DEF Released
<1> QED
  BY <1>7, <1>8, <1>9, <1>10, <1>11, ThreadsAssumption, BoundaryStep

(* release records the size: the entry, if there is one, is that of the    *)
(* content about to be queued.                                             *)
LEMMA RecordSizeStep ==
  ASSUME IInv, NEW t \in Threads, RecordSize(t)
  PROVE  IInv'
<1>h. PICK h : h = H(t)
  OBVIOUS
<1> DEFINE r == [thread[t] EXCEPT !.at = "enqueue"]
<1>1. /\ handle \in [Handles -> HandleRecord] /\ thread \in [Threads -> ThreadRecord]
      /\ LockTypes /\ FileTypes /\ CountTypes /\ HistoryTypes /\ Released
  BY TypeParts DEF IInv
<1>2. /\ At(t) = "size" /\ thread' = [thread EXCEPT ![t] = r]
      /\ metadata' = IF metadata = NoMetadata THEN NoMetadata ELSE Len(handle[h].content)
      /\ UNCHANGED <<handle, locks, queued, drive, upload, created, counts, expected,
                     met, sizes>>
  BY <1>1, <1>h DEF RecordSize, At, H, ThreadRecord
<1>3. h \in Handles /\ handle[h].kind \in {"edit", "new"}
  BY <1>2, <1>h DEF IInv, ThreadInv, ThreadFine
<1>4. r \in ThreadRecord /\ r.at = "enqueue" /\ r.handle = h
  BY <1>1, <1>h DEF ThreadRecord, H
<1>5. thread'[t] = r /\ \A u \in Threads \ {t} : thread'[u] = thread[u]
  BY <1>1, <1>2
<1> HIDE DEF r
<1>6. At(t)' = "enqueue" /\ H(t)' = h
  BY <1>4, <1>5 DEF At, H
<1>7. ASSUME NEW u \in Threads \ {t}
      PROVE  At(u)' = At(u) /\ H(u)' = H(u)
  BY <1>5 DEF At, H
<1>8. CountTypes' /\ HistoryTypes' /\ FileTypes'
  <2>1. Len(handle[h].content) \in Nat
    BY <1>1, <1>3 DEF HandleRecord
  <2> QED
    BY <1>1, <1>2, <2>1 DEF CountTypes, HistoryTypes, FileTypes, counts, sizes
<1>9. BoundaryFrame(t, h)
  BY <1>1, <1>2, <1>4, <1>5, <1>8 DEF BoundaryFrame, counts, CountTypes
<1>10. HandleFine(h)' /\ ContentFine(h)'
  <2>1. HandleFine(h) /\ ContentFine(h)
    BY <1>3, ContentParts DEF IInv, HandleInv
  <2> QED
    BY <1>2, <2>1 DEF HandleFine, ContentFine, Exact, counts
<1>11. ThreadFine(t)'
  BY <1>2, <1>3, <1>6 DEF ThreadFine, Inside
<1>12. LocalInv'
  <2> SUFFICES ASSUME NEW u \in Threads, NEW v \in Threads, u # v, Inside(u)', Inside(v)',
                      H(u)' = H(v)', handle[H(u)'].kind = "local"
               PROVE  "unlocked" \in met
    BY <1>2 DEF LocalInv
  <2>1. u # t /\ v # t
    BY <1>6 DEF Inside
  <2>2. Inside(u) /\ Inside(v) /\ H(u)' = H(u) /\ H(v)' = H(v)
    BY <1>7, <2>1 DEF Inside
  <2> QED
    BY <2>2 DEF IInv, LocalInv
<1>13. SizeInv'
  <2>1. Releasing /\ Releasing'
    BY <1>2, <1>6 DEF Releasing, At
  <2>2. ListingInv'
    <3>1. At(t)' # "store"
      BY <1>6
    <3> QED
      BY <1>2, <1>7, <2>1, <3>1 DEF IInv, SizeInv, ListingInv, sizes
  <2>3. ASSUME ~created', ~doubt', metadata' # NoMetadata PROVE EntryFine'
    <3>1. EntryFine /\ metadata' = Len(handle[h].content)
      BY <1>2, <2>3 DEF IInv, SizeInv, EntryInv, sizes
    <3>2. \A u \in Threads : At(u) \in {"size", "enqueue"} => u = t
      BY <1>2, <3>1 DEF EntryFine
    <3>3. ASSUME NEW u \in Threads, At(u)' \in {"size", "enqueue"} PROVE u = t
      BY <1>7, <3>2, <3>3
    <3>4. \A u \in Sending' : ~upload'[u].replaced
      BY <1>2, <3>1 DEF EntryFine, Sending
    <3> QED
      BY <1>2, <1>6, <2>1, <3>1, <3>3, <3>4 DEF EntryFine
  <2> QED
    BY <2>2, <2>3 DEF SizeInv, EntryInv
<1>14. Released'
  <2> SUFFICES ASSUME NEW u \in Threads, At(u)' \in {"size", "enqueue"}
               PROVE  /\ ~handle'[H(u)'].open
                      /\ {w \in Threads : At(w)' # "idle" /\ H(w)' = H(u)'} = {u}
    BY DEF Released, On, At, H
  <2>1. /\ H(u)' = H(u) /\ At(u) \in {"size", "enqueue"}
    <3>1. CASE u = t
      BY <1>2, <1>6, <1>h, <3>1
    <3>2. CASE u # t
      BY <1>7, <3>2
    <3> QED
      BY <3>1, <3>2
  <2>2. ~handle[H(u)].open /\ On(H(u)) = {u}
    BY <1>1, <2>1 DEF Released
  <2>3. ASSUME NEW w \in Threads
        PROVE  (At(w)' # "idle" <=> At(w) # "idle") /\ H(w)' = H(w)
    <3>1. CASE w = t
      BY <1>2, <1>6, <1>h, <3>1
    <3>2. CASE w # t
      BY <1>7, <3>2
    <3> QED
      BY <3>1, <3>2
  <2> QED
    BY <1>2, <2>1, <2>2, <2>3 DEF On, At, H
<1> QED
  BY <1>9, <1>10, <1>11, <1>12, <1>13, <1>14, BoundaryStep

(* release queues the journal file, and is over.                           *)
LEMMA EnqueueStep ==
  ASSUME IInv, NEW t \in Threads, Enqueue(t)
  PROVE  IInv'
<1>h. PICK h : h = H(t)
  OBVIOUS
<1>1. /\ handle \in [Handles -> HandleRecord] /\ thread \in [Threads -> ThreadRecord]
      /\ LockTypes /\ FileTypes /\ CountTypes /\ HistoryTypes /\ Released
  BY TypeParts DEF IInv
<1>2. /\ At(t) = "enqueue" /\ thread' = [thread EXCEPT ![t] = Idle]
      /\ queued' = handle[h].content /\ handle' = [handle EXCEPT ![h] = Unopened]
      /\ upload' = [u \in Uploaders |-> [upload[u] EXCEPT !.replaced = u \in Sending]]
      /\ doubt' = (doubt \/ Sending # {})
      /\ UNCHANGED <<locks, metadata, drive, created, counts, expected, met, disturbed>>
  BY <1>h DEF Enqueue, At, H
<1>3. h \in Handles /\ handle[h].kind \in {"edit", "new"} /\ On(h) = {t}
  BY <1>1, <1>2, <1>h DEF IInv, ThreadInv, ThreadFine, Released
<1>4. Idle \in ThreadRecord /\ Idle.at = "idle"
  BY BoundsAssumption, NotAContent DEF Idle, ThreadRecord
<1>5. Unopened \in HandleRecord /\ Unopened.kind = "none" /\ ~Unopened.filled /\ ~Unopened.open
      /\ Unopened.content = <<>> /\ Unopened.pos = 0
  BY NotAContent DEF Unopened, HandleRecord
<1>6. /\ handle'[h] = Unopened /\ thread'[t] = Idle
      /\ \A g \in Handles \ {h} : handle'[g] = handle[g]
      /\ \A u \in Threads \ {t} : thread'[u] = thread[u]
  BY <1>1, <1>2, <1>3
<1>7. At(t)' = "idle"
  BY <1>4, <1>6 DEF At
<1>8. ASSUME NEW u \in Threads \ {t}
      PROVE  At(u)' = At(u) /\ H(u)' = H(u)
  BY <1>6 DEF At, H
<1>9. ASSUME NEW u \in Threads \ {t}, At(u) # "idle"
      PROVE  /\ H(u) # h
             /\ At(u) # "store" => H(u) \in Handles /\ handle'[H(u)] = handle[H(u)]
  <2>1. H(u) # h
    BY <1>3, <1>9 DEF On, At, H
  <2>2. At(u) # "store" => H(u) \in Handles
    BY <1>9 DEF IInv, ThreadInv, ThreadFine, Inside
  <2> QED
    BY <1>6, <2>1, <2>2
<1>10. handle[h].content \in Seq(Nat)
  BY <1>1, <1>3 DEF HandleRecord
<1>11. CountTypes' /\ HistoryTypes' /\ FileTypes'
  <2>1. upload' \in [Uploaders -> UploadRecord]
    <3>1. ASSUME NEW u \in Uploaders, NEW b \in BOOLEAN
          PROVE  [upload[u] EXCEPT !.replaced = b] \in UploadRecord
      BY <1>1 DEF FileTypes, UploadRecord
    <3>2. \A u \in Uploaders : (u \in Sending) \in BOOLEAN
      OBVIOUS
    <3>3. \A u \in Uploaders :
            [upload[u] EXCEPT !.replaced = u \in Sending] \in UploadRecord
      BY <3>1, <3>2
    <3> QED
      BY <1>2, <3>3
  <2> QED
    BY <1>1, <1>2, <1>10, <2>1 DEF CountTypes, HistoryTypes, FileTypes, counts
<1>12. BoundaryFrame(t, h)
  <2>1. handle' \in [Handles -> HandleRecord]
    BY <1>1, <1>2, <1>5
  <2>2. thread' \in [Threads -> ThreadRecord]
    BY <1>1, <1>2, <1>4
  <2>3. opened' = opened /\ created' = created /\ met' = met /\ expected' = expected
    BY <1>2 DEF counts
  <2>4. opened <= opened'
    BY <1>1, <2>3, BoundsAssumption DEF CountTypes
  <2>5. \A u \in Threads \ {t} : At(u) # "idle" /\ H(u) = h => handle'[h] = handle[h]
    BY <1>9
  <2>6. \A g \in Handles \ {h} : handle'[g] = handle[g] /\ expected'[g] = expected[g]
    BY <1>6, <2>3
  <2>7. UNCHANGED locks
    BY <1>2
  <2> QED
    BY <1>6, <1>11, <2>1, <2>2, <2>3, <2>4, <2>5, <2>6, <2>7 DEF BoundaryFrame
<1>13. HandleFine(h)' /\ ContentFine(h)'
  <2>1. ~(h > opened)
    BY <1>3 DEF IInv, HandleInv, HandleFine, Unopened
  <2> QED
    BY <1>2, <1>5, <1>6, <2>1 DEF HandleFine, ContentFine, Exact, counts
<1>14. ThreadFine(t)'
  BY <1>7 DEF ThreadFine, Inside
<1>15. LocalInv'
  <2> SUFFICES ASSUME NEW u \in Threads, NEW v \in Threads, u # v, Inside(u)', Inside(v)',
                      H(u)' = H(v)', handle'[H(u)'].kind = "local"
               PROVE  "unlocked" \in met
    BY <1>2 DEF LocalInv
  <2>1. u # t /\ v # t
    BY <1>7 DEF Inside
  <2>2. /\ Inside(u) /\ Inside(v) /\ H(u)' = H(u) /\ H(v)' = H(v)
        /\ handle'[H(u)] = handle[H(u)]
    BY <1>8, <1>9, <2>1 DEF Inside
  <2> QED
    BY <2>2 DEF IInv, LocalInv
<1>16. SizeInv'
  <2>1. Releasing
    BY <1>2 DEF Releasing, At
  <2>2. ListingInv'
    <3>1. At(t)' # "store"
      BY <1>7
    <3> QED
      BY <1>2, <1>8, <2>1, <3>1 DEF IInv, SizeInv, ListingInv
  <2>3. ASSUME ~created', ~doubt', metadata' # NoMetadata PROVE EntryFine'
    <3>1. EntryFine /\ Sending = {}
      BY <1>2, <2>3 DEF IInv, SizeInv, EntryInv
    <3>2. \A u \in Threads : At(u) \in {"size", "enqueue"} => u = t
      BY <1>2, <3>1 DEF EntryFine
    <3>3. metadata = Len(handle[h].content)
      BY <1>2, <1>h, <3>1 DEF EntryFine
    <3>4. ASSUME NEW u \in Threads PROVE At(u)' \notin {"size", "enqueue"}
      BY <1>7, <1>8, <3>2
    <3>5. queued' # NoFile
      BY <1>2, <1>10, NotAContent
    <3>6. \A u \in Uploaders : upload'[u].at = "none"
      <4>1. \A u \in Uploaders : upload[u].at = "none" /\ upload[u] \in UploadRecord
        BY <1>1, <3>1 DEF Sending, FileTypes
      <4> QED
        BY <1>2, <4>1 DEF UploadRecord
    <3>7. Sending' = {}
      BY <3>6 DEF Sending
    <3> QED
      BY <1>2, <3>3, <3>4, <3>5, <3>6, <3>7 DEF EntryFine
  <2> QED
    BY <2>2, <2>3 DEF SizeInv, EntryInv
<1>17. Released'
  <2> SUFFICES ASSUME NEW u \in Threads, At(u)' \in {"size", "enqueue"}
               PROVE  /\ ~handle'[H(u)'].open
                      /\ {w \in Threads : At(w)' # "idle" /\ H(w)' = H(u)'} = {u}
    BY DEF Released, On, At, H
  <2>1. u # t
    BY <1>7
  <2>2. At(u)' = At(u) /\ H(u)' = H(u) /\ At(u) \in {"size", "enqueue"}
    BY <1>8, <2>1
  <2>3. ~handle[H(u)].open /\ On(H(u)) = {u} /\ handle'[H(u)] = handle[H(u)]
    BY <1>1, <1>9, <2>1, <2>2 DEF Released
  <2>4. ASSUME NEW w \in Threads, At(w)' # "idle", H(w)' = H(u) PROVE w = u
    <3>1. w # t
      BY <1>7, <2>4
    <3>2. w \in On(H(u))
      BY <1>8, <2>4, <3>1 DEF On, At, H
    <3> QED
      BY <2>3, <3>2
  <2> QED
    BY <2>2, <2>3, <2>4
<1> QED
  BY <1>12, <1>13, <1>14, <1>15, <1>16, <1>17, BoundaryStep

-----------------------------------------------------------------------------
(* Theorems                                                                *)

LEMMA InitInv == Init => IInv
<1> SUFFICES ASSUME Init PROVE IInv
  OBVIOUS
<1>1. /\ Unopened \in HandleRecord /\ Unopened.kind = "none" /\ ~Unopened.filled
      /\ ~Unopened.open /\ Unopened.content = <<>> /\ Unopened.pos = 0
  BY NotAContent DEF Unopened, HandleRecord
<1>2. Idle \in ThreadRecord /\ Idle.at = "idle"
  BY BoundsAssumption, NotAContent DEF Idle, ThreadRecord
<1>3. \A t \in Threads : At(t) = "idle"
  BY <1>2 DEF Init, At
<1>4. drive = NoFile \/ drive \in Seq(Nat)
  BY FilesAssumption DEF Init
<1>5. FileTypes
  <2>1. drive # NoFile => Len(drive) \in Nat
    BY <1>4
  <2>2. NoUpload \in UploadRecord
    BY NotAContent DEF NoUpload, UploadRecord
  <2> QED
    BY <1>4, <2>1, <2>2 DEF Init, FileTypes
<1>6. /\ LockTypes /\ CountTypes /\ HistoryTypes /\ Released
  <2>1. HistoryTypes
    BY DEF Init, HistoryTypes
  <2> QED
    BY <1>3, <2>1, BoundsAssumption DEF Init, LockTypes, CountTypes, Released
<1>7. TypeOK
  BY <1>1, <1>2, <1>5, <1>6, TypeParts DEF Init
<1>8. HandleInv
  BY <1>1 DEF Init, HandleInv, HandleFine
<1>9. ThreadInv /\ LocalInv
  BY <1>3 DEF ThreadInv, ThreadFine, LocalInv, Inside
<1>10. ContentExact
  BY <1>1 DEF Init, ContentExact, Exact
<1>11. SizeInv
  <2>1. \A u \in Uploaders : upload[u].at = "none"
    BY DEF Init, NoUpload
  <2>2. Sending = {}
    BY <2>1 DEF Sending
  <2>3. ListingInv
    BY <1>3 DEF ListingInv
  <2>4. EntryInv
    BY <1>3, <2>1, <2>2 DEF Init, EntryInv, EntryFine
  <2> QED
    BY <2>3, <2>4 DEF SizeInv
<1> QED
  BY <1>7, <1>8, <1>9, <1>10, <1>11 DEF IInv

(* Every step of a call, of the editor's opens and closes and of the world *)
(* around the handles preserves the invariant.                             *)
THEOREM Inductive == Spec => []IInv
<1>1. IInv /\ [Next]_vars => IInv'
  <2> SUFFICES ASSUME IInv, [Next]_vars PROVE IInv'
    OBVIOUS
  <2>1. ASSUME NEW truncate \in BOOLEAN, Open(truncate) PROVE IInv'
    BY <2>1, OpenStep
  <2>2. CASE Create
    BY <2>2, CreateStep
  <2>3. CASE CreateSwap
    BY <2>3, CreateSwapStep
  <2>4. ASSUME NEW t \in Threads, Use(t) PROVE IInv'
    <3>1. ASSUME NEW h \in Handles, NEW op \in {"read", "write"}, NEW n \in Offsets,
                 Call(t, h, op, n)
          PROVE  IInv'
      <4>1. n \in Nat /\ op \in {"read", "write", "truncate"}
        BY NumbersAssumption
      <4> QED
        BY <3>1, <4>1, CallBeginStep
    <3>2. ASSUME NEW h \in Handles, NEW n \in Lengths, Call(t, h, "truncate", n)
          PROVE  IInv'
      <4>1. n \in Nat
        BY NumbersAssumption
      <4> QED
        BY <3>2, <4>1, CallBeginStep
    <3>3. ASSUME NEW h \in Handles, Release(t, h) PROVE IInv'
      <4>1. CASE handle[h].kind \in {"edit", "new"} /\ handle[h].modified
        BY <3>3, <4>1, ReleaseModifiedStep
      <4>2. CASE ~(handle[h].kind \in {"edit", "new"} /\ handle[h].modified)
        <5>1. handle' = [handle EXCEPT ![h] = Unopened] /\ thread' = thread /\ sizes' = sizes
          BY <3>3, <4>2 DEF Release
        <5> QED
          BY <3>3, <5>1, ReleaseOtherStep
      <4> QED
        BY <4>1, <4>2
    <3> QED
      BY <2>4, <3>1, <3>2, <3>3 DEF Use
  <2>5. ASSUME NEW t \in Threads, Step(t) PROVE IInv'
    BY <2>5, LockStep, LockFdStep, AlreadyFilledStep, NoBaseStep, DownloadStep, FetchStep,
       FetchFailsStep, FillStep, SeekStep, TransferStep, RecordSizeStep, EnqueueStep, StoreStep
       DEF Step, Ensure
  <2>6. ASSUME NEW u \in Uploaders, Work(u) PROVE IInv'
    BY <2>6, UploadStep
  <2>7. CASE Expire
    BY <2>7, ExpireStep
  <2>8. ASSUME NEW t \in Threads, List(t) PROVE IInv'
    BY <2>8, ListStep
  <2>9. CASE UNCHANGED vars
    <3>1. SizeInv' /\ FileTypes' /\ CountTypes' /\ HistoryTypes'
      <4>1. FileTypes /\ CountTypes /\ HistoryTypes
        BY TypeParts DEF IInv
      <4>2. FileTypes' /\ CountTypes' /\ HistoryTypes'
        BY <2>9, <4>1 DEF FileTypes, CountTypes, HistoryTypes, vars, file, counts, sizes
      <4>3. SizeInv'
        BY <2>9, SizeFrame DEF IInv, At, H, vars, file, sizes
      <4> QED
        BY <4>2, <4>3
    <3> QED
      BY <2>9, <3>1, OutsideStep DEF vars, file, counts, locks
  <2> QED
    BY <2>1, <2>2, <2>3, <2>4, <2>5, <2>6, <2>7, <2>8, <2>9 DEF Next
<1> QED
  BY <1>1, InitInv, PTL DEF Spec

(* Handles, threads and the file stay in their types; a handle under       *)
(* release is closed, and its releaser is the only one who uses it.        *)
THEOREM TypeCorrect == Spec => []TypeOK
<1>1. IInv => TypeOK
  BY DEF IInv
<1> QED
  BY <1>1, Inductive, PTL

(* The base of a handle is filled in once, also when truncates and failing *)
(* downloads come between, and every write and truncate lands on it.       *)
THEOREM HandleHoldsItsEdits == Spec => []ContentExact
<1>1. IInv => ContentExact
  BY DEF IInv
<1> QED
  BY <1>1, Inductive, PTL

(* The lock of the handle keeps the offset between lseek and the read or   *)
(* write that uses it; a truncate, which does not take it, can only fill.  *)
THEOREM OffsetStays == Spec => []InPlace
<1>1. IInv => InPlace
  <2> SUFFICES ASSUME IInv, NEW t \in Threads, At(t) = "io", thread[t].op # "truncate",
                      {"overlap", "unlocked"} \intersect met = {}
               PROVE  handle[H(t)].pos = thread[t].arg
    BY DEF InPlace, At, H
  <2>1. ThreadFine(t) /\ H(t) \in Handles /\ handle[H(t)].open /\ handle[H(t)] \in HandleRecord
    BY CallFacts DEF Inside
  <2>2. handle[H(t)].kind \in {"edit", "new", "local"}
    BY <2>1 DEF IInv, HandleInv, HandleFine, HandleRecord
  <2>3. Steady(H(t))
    BY <2>2 DEF Steady
  <2> QED
    BY <2>1, <2>3 DEF ThreadFine
<1> QED
  BY <1>1, Inductive, PTL

(* Between releases the size of an entry that is not in doubt is that of   *)
(* the content a read finds, whatever uploads and listings are under way.  *)
THEOREM SizeIsOfContent == Spec => []SizeMatches
<1>1. IInv => SizeMatches
  <2> SUFFICES ASSUME IInv, ~created, ~Releasing, ~doubt, metadata # NoMetadata,
                      NEW s \in Visible
               PROVE  metadata = Len(s)
    BY DEF SizeMatches
  <2>1. \/ queued = NoFile /\ s = drive /\ drive # NoFile
        \/ queued # NoFile /\ s = queued
    BY VisibleFacts, TypeParts DEF IInv
  <2> QED
    BY <2>1 DEF IInv, SizeInv, EntryInv, EntryFine
<1> QED
  BY <1>1, Inductive, PTL
=============================================================================
