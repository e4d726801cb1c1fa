---------------------------- MODULE MCLockManager ----------------------------
(* Small instances of LockManager for TLC. *)
EXTENDS LockManager, TLC

ReadWrite == [t \in Threads |-> {"read", "write"}]

(* Threads differ only by name where Modes gives all the same; keys and    *)
(* objects always do.                                                      *)
Symmetric == Permutations(Threads) \union Permutations(Keys)
               \union Permutations(Locks)
==============================================================================
