----------------------------- MODULE ChunkCache -----------------------------
(***************************************************************************)
(* InMemoryChunkEvictionCache of src/infrastructure/cache/chunk_manager.py *)
(* as ChunkManager uses it: chunks in the order of their last use, with a  *)
(* limit on their number and on their bytes, and a mark on those that a    *)
(* prefetch brought and nobody asked for yet.  Every call is made under    *)
(* mem_cache_lock, so each operation is one step.                          *)
(***************************************************************************)
EXTENDS Integers, Sequences, FiniteSets, FiniteSetsExt, SequencesExt

CONSTANTS
  Keys,       \* (file id, chunk index)
  Files,      \* Files[k]: the file of the chunk
  Sizes,      \* the sizes a chunk can have; the last of a file is short
  MaxChunks, MaxBytes,
  MaxCalls    \* bound on the number of calls

ASSUME LimitsAssumption ==
  /\ MaxChunks \in Nat /\ MaxBytes \in Nat /\ MaxCalls \in Nat
  /\ Sizes \subseteq Nat

VARIABLES
  order,         \* the keys of the OrderedDict, least recently used first
  size,          \* size[k]: the length of the chunk
  bytes,         \* current_bytes
  prefetched,    \* the keys of prefetch_status
  lastUse, calls \* history: the number of the last get or put of each key

vars == <<order, size, bytes, prefetched, lastUse, calls>>

Present == ToSet(order)
Total(length, S) == MapThenSumSet(LAMBDA k : length[k], S)
BytesOf(S) == Total(size, S)

Init ==
  /\ order = <<>> /\ size = [k \in Keys |-> 0] /\ bytes = 0
  /\ prefetched = {}
  /\ lastUse = [k \in Keys |-> 0] /\ calls = 0

Call(k) ==
  /\ calls < MaxCalls
  /\ calls' = calls + 1
  /\ lastUse' = [lastUse EXCEPT ![k] = calls + 1]

(* get: a hit becomes the most recently used, and loses its mark           *)
Without(keys, gone) ==
  FoldLeft(LAMBDA kept, k : IF k \in gone THEN kept ELSE Append(kept, k),
           <<>>, keys)
TouchedIfNew(k) == IF k \in Present THEN order ELSE Append(order, k)
Touched(k) == Append(Without(order, {k}), k)

Get(k) ==
  /\ k \in Present
  /\ Call(k)
  /\ order' = Touched(k)
  /\ prefetched' = prefetched \ {k}
  /\ UNCHANGED <<size, bytes>>

(* _evict_if_needed: the oldest go until both limits hold, the new chunk   *)
(* itself included when it is larger than the cache.                       *)
EvictionsByBytes(all, length, total) ==
  LET Fits(n) == total - Total(length, ToSet(SubSeq(all, 1, n))) <= MaxBytes
  IN Min({n \in 0..Len(all) : n = Len(all) \/ Fits(n)})
Evictions(all, length, total) ==
  LET Fits(n) == /\ Len(all) - n <= MaxChunks
                 /\ total - Total(length, ToSet(SubSeq(all, 1, n))) <= MaxBytes
  IN Min({n \in 0..Len(all) : n = Len(all) \/ Fits(n)})

(* What the replaced chunk counted for                                     *)
OldSizeForgotten(k) == 0
OldSizeAlways(k) == 1 + size[k]
OldSize(k) == IF k \in Present THEN size[k] ELSE 0

(* The marks go with the chunks.                                           *)
MarksKept(marks, gone) == marks
Marks(marks, gone) == marks \ gone

Put(k, length, isPrefetch) ==
  LET all == Touched(k)
      lengths == [size EXCEPT ![k] = length]
      total == bytes - OldSize(k) + length
      n == Evictions(all, lengths, total)
      gone == ToSet(SubSeq(all, 1, n))
      marks == IF isPrefetch THEN prefetched \union {k} ELSE prefetched \ {k}
  IN /\ Call(k)
     /\ order' = SubSeq(all, n + 1, Len(all))
     /\ bytes' = total - Total(lengths, gone)
     /\ size' = [g \in Keys |-> IF g \in gone THEN 0 ELSE lengths[g]]
     /\ prefetched' = Marks(marks, gone)

(* invalidate, for every chunk of the file                                 *)
Invalidate(file) ==
  LET gone == {k \in Present : Files[k] = file}
  IN /\ calls < MaxCalls /\ calls' = calls + 1
     /\ order' = Without(order, gone)
     /\ bytes' = bytes - BytesOf(gone)
     /\ size' = [k \in Keys |-> IF k \in gone THEN 0 ELSE size[k]]
     /\ prefetched' = Marks(prefetched, gone)
     /\ UNCHANGED lastUse

Next ==
  \/ \E k \in Keys : Get(k)
  \/ \E k \in Keys, length \in Sizes, p \in BOOLEAN : Put(k, length, p)
  \/ \E k \in Keys : Invalidate(Files[k])

Spec == Init /\ [][Next]_vars

-----------------------------------------------------------------------------
(* Properties                                                              *)

TypeOK ==
  /\ order \in Seq(Keys) /\ prefetched \subseteq Keys
  /\ size \in [Keys -> Nat] /\ bytes \in Nat
  /\ lastUse \in [Keys -> 0..MaxCalls] /\ calls \in 0..MaxCalls

(* current_bytes, kept by adding and subtracting over every replacement,   *)
(* eviction and invalidation, never drifts from what the cache holds.      *)
BytesExact == bytes = BytesOf(Present)

(* After every call the cache is within both of its limits, counted on     *)
(* what it really holds.                                                   *)
WithinLimits == Len(order) <= MaxChunks /\ BytesOf(Present) <= MaxBytes

(* prefetch_status marks no chunk that is gone: the mark would turn the    *)
(* next chunk with that key into a prefetch hit or waste.                  *)
MarksPresent == prefetched \subseteq Present

(* Only the chunks used least recently are evicted, and no more of them    *)
(* than the limits require (unless the new chunk alone exceeds them).      *)
EvictsOldest ==
  [][\A k \in Keys : lastUse'[k] # lastUse[k] =>
       LET kept == Present'
           gone == (Present \ kept) \ {k}
       IN \A g \in gone :
            /\ \A h \in kept : lastUse[g] < lastUse'[h]
            /\ k \in kept /\ (\A h \in gone : lastUse[g] >= lastUse[h]) =>
                 \/ Cardinality(kept) = MaxChunks
                 \/ BytesOf(Present)' + size[g] > MaxBytes]_vars
==============================================================================
