--------------------------- MODULE MetadataCache ---------------------------
(***************************************************************************)
(* MemoryMetadataCache (src/infrastructure/cache/memory_cache.py): three   *)
(* TTLCaches, from paths to ids, from ids to metadata and of the           *)
(* directories whose children were all loaded, whose entries expire on     *)
(* their own; and the children of each path, which never expire.  Every    *)
(* call is one step, under _lock.                                          *)
(*                                                                         *)
(* A path is the sequence of its names.  An entry is known by the time it  *)
(* has left.  What the metadata say, maxsize, and the callback that drops   *)
(* the chunks of a file whose modification time changed, are left out.     *)
(***************************************************************************)
EXTENDS Integers, Sequences, SequencesExt

CONSTANTS
  Paths,    \* the paths in play, with all their parents
  Ids,      \* of files and directories
  NoId,
  TTL

Root == <<>>

ASSUME PathsAssumption ==
  Root \in Paths /\ \A p \in Paths \ {Root} : p \in Seq(STRING) /\ Front(p) \in Paths
ASSUME IdsAssumption == NoId \notin Ids
ASSUME TTLAssumption == TTL \in Nat \ {0}

VARIABLES
  paths,     \* _path_to_node_id_map: id, and time left, of each path
  metadata,  \* _node_id_to_metadata_map, and
  loaded,    \*   _fully_loaded_directories_set: time left of each id
  children   \* _parent_path_to_children_paths_map

cache == <<paths, metadata, loaded, children>>

NoEntry == [id |-> NoId, left |-> 0]

InitCache ==
  /\ paths = [p \in Paths |-> NoEntry]
  /\ metadata = [i \in Ids |-> 0]
  /\ loaded = [i \in Ids |-> 0]
  /\ children = [p \in Paths |-> {}]

ResolvePath(p) == paths[p].id
HasMetadata(i) == metadata[i] > 0
IsLoaded(i) == loaded[i] > 0

MapPath(p, i) ==
  /\ paths' = [paths EXCEPT ![p] = [id |-> i, left |-> TTL]]
  /\ children' = IF p = Root THEN children
                 ELSE [children EXCEPT ![Front(p)] = @ \union {p}]

SetMetadataOnce(i) ==
  metadata' = IF HasMetadata(i) THEN metadata ELSE [metadata EXCEPT ![i] = TTL]
SetMetadata(i) == metadata' = [metadata EXCEPT ![i] = TTL]

MarkLoaded(i) == loaded' = [loaded EXCEPT ![i] = TTL]

InvalidatePathOnly(p) ==
  /\ children' = [children EXCEPT ![Front(p)] = @ \ {p}]
  /\ UNCHANGED <<paths, metadata>>
InvalidatePath(p) ==
  LET i == ResolvePath(p)
  IN /\ paths' = [paths EXCEPT ![p] = NoEntry]
     /\ metadata' = IF i = NoId THEN metadata ELSE [metadata EXCEPT ![i] = 0]
     /\ children' = IF p = Root THEN children
                    ELSE [children EXCEPT ![Front(p)] = @ \ {p}]

(* A unit of time passes: what has no time left is gone.                   *)
Less(left) == IF left = 0 THEN 0 ELSE left - 1
OlderPaths == [p \in Paths |-> IF paths[p].left <= 1 THEN NoEntry
                               ELSE [paths[p] EXCEPT !.left = @ - 1]]
PassPathsKept ==
  /\ metadata' = [i \in Ids |-> Less(metadata[i])]
  /\ loaded' = [i \in Ids |-> Less(loaded[i])]
  /\ UNCHANGED <<paths, children>>
PassLoadedKept ==
  /\ paths' = OlderPaths
  /\ metadata' = [i \in Ids |-> Less(metadata[i])]
  /\ UNCHANGED <<loaded, children>>
Pass ==
  /\ paths' = OlderPaths
  /\ metadata' = [i \in Ids |-> Less(metadata[i])]
  /\ loaded' = [i \in Ids |-> Less(loaded[i])]
  /\ UNCHANGED children

TypeOKCache ==
  /\ paths \in [Paths -> [id : Ids, left : 1..TTL] \union {NoEntry}]
  /\ metadata \in [Ids -> 0..TTL] /\ loaded \in [Ids -> 0..TTL]
  /\ children \in [Paths -> SUBSET Seq(STRING)]  \* in play or not
============================================================================
