------------------------------- MODULE RWMutex -------------------------------
(***************************************************************************)
(* What LockManager promises its callers: one reader-writer mutex per key. *)
(* A holder is one `with shared_lock(k)` or `with exclusive_lock(k)` block *)
(* of some thread.  Nothing is said here of the RWLock objects, the        *)
(* reference counts or the waiting that the implementation uses.           *)
(***************************************************************************)

CONSTANTS
  Holders,   \* the blocks that can hold a key
  Keys       \* the keys: "chunk:<file>:<index>", "file_handle:<n>", ...

VARIABLES
  sharedBy,      \* sharedBy[k]: the blocks that hold k shared
  exclusiveBy    \* exclusiveBy[k]: the blocks that hold k exclusively

vars == <<sharedBy, exclusiveBy>>

Init ==
  /\ sharedBy = [k \in Keys |-> {}]
  /\ exclusiveBy = [k \in Keys |-> {}]

AcquireShared(h, k) ==
  /\ exclusiveBy[k] = {}
  /\ h \notin sharedBy[k]
  /\ sharedBy' = [sharedBy EXCEPT ![k] = @ \union {h}]
  /\ UNCHANGED exclusiveBy

AcquireExclusive(h, k) ==
  /\ exclusiveBy[k] = {} /\ sharedBy[k] = {}
  /\ exclusiveBy' = [exclusiveBy EXCEPT ![k] = {h}]
  /\ UNCHANGED sharedBy

ReleaseShared(h, k) ==
  /\ h \in sharedBy[k]
  /\ sharedBy' = [sharedBy EXCEPT ![k] = @ \ {h}]
  /\ UNCHANGED exclusiveBy

ReleaseExclusive(h, k) ==
  /\ h \in exclusiveBy[k]
  /\ exclusiveBy' = [exclusiveBy EXCEPT ![k] = {}]
  /\ UNCHANGED sharedBy

Next ==
  \E h \in Holders, k \in Keys :
    \/ AcquireShared(h, k) \/ AcquireExclusive(h, k)
    \/ ReleaseShared(h, k) \/ ReleaseExclusive(h, k)

Spec == Init /\ [][Next]_vars
==============================================================================
