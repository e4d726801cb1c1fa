----------------------------- MODULE Namespace -----------------------------
(***************************************************************************)
(* The operations of FuseOps on names (src/fuse/operations/fuse_ops.py):   *)
(* resolve_path_to_drive_node_id and _load_children, and getattr, readdir, *)
(* create, mkdir, rename, unlink and rmdir on top of them, run by several  *)
(* FUSE threads against one MetadataCache and a Drive that others change   *)
(* too.                                                                    *)
(*                                                                         *)
(* A thread resolves the paths of its call one after the other (goals):    *)
(* up to the nearest cached parent, then down, loading each directory that *)
(* is not loaded.  A refusal for quota changes nothing and is left out.    *)
(***************************************************************************)
EXTENDS MetadataCache, FiniteSets

CONSTANTS
  Threads,
  RootId,
  Directories,  \* the paths that name directories; the others name files
  Initial,      \* the paths that are on Drive at first
  Slow,         \* how long a call may take
  MaxCalls      \* calls and remote changes in a run

ASSUME NodesAssumption == Ids \subseteq Nat /\ RootId \in Ids
ASSUME DirectoriesAssumption ==
  /\ IsFiniteSet(Paths)
  /\ Directories \subseteq Paths /\ Root \in Directories
  /\ \A p \in Paths \ {Root} : Front(p) \in Directories
ASSUME InitialAssumption ==
  /\ Initial \subseteq Paths \ {Root}
  /\ \A p \in Initial : Front(p) \in Initial \union {Root}
  /\ Injection(Initial, Ids \ {RootId}) # {}
ASSUME BoundsAssumption ==
  Slow \in Nat /\ MaxCalls \in Nat

VARIABLES
  node,         \* node[i]: none; on Drive; or local, made by create and not
                \* uploaded yet; its parent and name
  thread,
  calls,        \* calls and remote changes so far
  touched,      \* history: time since what p stands for last changed, or p
                \*   was invalidated;
  dropped       \*   and since the metadata of i were invalidated

nodes == <<node, touched>>
vars == <<cache, nodes, thread, calls, dropped>>

NoNode == [at |-> "none", parent |-> RootId, name |-> ""]
Node(at, parent, name) == [at |-> at, parent |-> parent, name |-> name]

(* An entry's life and a call, once for each directory on the way          *)
Settled(p) == Len(p) * (TTL + Slow)
LongAgo == Max({Settled(p) : p \in Paths})  \* older times count as this one

Idle == [at |-> "idle", op |-> "getattr", path |-> Root, to |-> Root,
         goals |-> <<>>, cur |-> Root, id |-> NoId, found |-> <<>>,
         items |-> {}, item |-> NoId, age |-> 0]

(* The ids that a path stands for: Drive allows several of one name.       *)
HeldIn(nodeOf) ==
  LET held[p \in Paths] ==
        IF p = Root THEN {RootId}
        ELSE {i \in Ids \ {RootId} : /\ nodeOf[i].at # "none"
                                     /\ nodeOf[i].parent \in held[Front(p)]
                                     /\ nodeOf[i].name = Last(p)}
  IN held
Held(p) == HeldIn(node)[p]
OnDrive(i) == i = RootId \/ node[i].at = "drive"
Listing(i) == {[name |-> node[j].name, id |-> j] :
                 j \in {j \in Ids \ {RootId} : OnDrive(j) /\ node[j].parent = i}}

(* A change of the tree: a path that stands for other ids, or for one that *)
(* was moved or uploaded, is touched now.                                  *)
Becomes(nodeOf) ==
  LET Same(p) == /\ HeldIn(nodeOf)[p] = Held(p)
                 /\ \A i \in Held(p) : nodeOf[i] = node[i]
  IN /\ node' = nodeOf
     /\ touched' = [p \in Paths |-> IF Same(p) THEN touched[p] ELSE 0]

Fresh == {i \in Ids \ {RootId} : node[i] = NoNode /\ \A j \in Ids \ {RootId} :
                                    j < i => node[j] # NoNode}

(* Each path of Initial is one file or directory.                          *)
Init ==
  LET number == CHOOSE f \in Injection(Initial, Ids \ {RootId}) : TRUE
      IdOf(p) == IF p = Root THEN RootId ELSE number[p]
      PathOf(i) == CHOOSE p \in Initial : number[p] = i
  IN /\ InitCache
     /\ node = [i \in Ids |->
          IF \E p \in Initial : number[p] = i
            THEN Node("drive", IdOf(Front(PathOf(i))), Last(PathOf(i)))
            ELSE NoNode]
     /\ thread = [t \in Threads |-> Idle]
     /\ calls = 0
     /\ touched = [p \in Paths |-> LongAgo]
     /\ dropped = [i \in Ids |-> TTL]

-----------------------------------------------------------------------------
(* Calls                                                                   *)

Begin(t, op, path, to, goals) ==
  /\ thread[t].at = "idle" /\ calls < MaxCalls
  /\ calls' = calls + 1
  /\ thread' = [thread EXCEPT ![t] =
       [Idle EXCEPT !.op = op, !.at = "up", !.path = path, !.to = to,
                    !.goals = goals, !.cur = Head(goals)]]
  /\ UNCHANGED <<cache, nodes, dropped>>

Getattr(t, p) == Begin(t, "getattr", p, Root, <<p>>)
Readdir(t, p) == Begin(t, "readdir", p, Root, <<p>>)
Create(t, p) == Begin(t, "create", p, Root, <<Front(p)>>)
Mkdir(t, p) == Begin(t, "mkdir", p, Root, <<Front(p)>>)
Unlink(t, p) == Begin(t, "unlink", p, Root, <<p>>)  \* and rmdir
Rename(t, p, q) == Begin(t, "rename", p, q, <<p, Front(q), Front(p)>>)
RenameSwap(t, q) == Begin(t, "swap", q, Root, <<q>>)  \* an editor's swap file over q

-----------------------------------------------------------------------------
(* resolve_path_to_drive_node_id                                           *)

Goal(t) == Head(thread[t].goals)
Next1(t) == Append(thread[t].cur, Goal(t)[Len(thread[t].cur) + 1])
Goto(t, at) == thread' = [thread EXCEPT ![t].at = at]
Return(t) == thread' = [thread EXCEPT ![t] = Idle]

ResolvedAnyway(t, id) ==
  LET h == thread[t]
      found == Append(h.found, id)
  IN thread' = [thread EXCEPT ![t] =
       IF h.op = "getattr" THEN Idle
       ELSE IF Len(h.goals) > 1
         THEN [h EXCEPT !.at = "up", !.goals = Tail(@), !.cur = Head(Tail(h.goals)),
                        !.found = found]
       ELSE [h EXCEPT !.at = IF h.op = "readdir" THEN "load" ELSE "act",
                      !.found = found, !.id = id, !.cur = Goal(t)]]

(* The goal is resolved, to NoId perhaps.  rename resolves the target's    *)
(* directory even if there is no source; then a path not found ends every  *)
(* call, except for the second look at the directory of the source.        *)
Resolved(t, id) ==
  LET h == thread[t]
      found == Append(h.found, id)
      missing == \E n \in DOMAIN found : n < 3 /\ found[n] = NoId
  IN thread' = [thread EXCEPT ![t] =
       IF h.op = "getattr" \/ (missing /\ (h.op = "rename" => Len(found) > 1))
         THEN Idle
       ELSE IF Len(h.goals) > 1
         THEN [h EXCEPT !.at = "up", !.goals = Tail(@), !.cur = Head(Tail(h.goals)),
                        !.found = found]
       ELSE [h EXCEPT !.at = IF h.op = "readdir" THEN "load" ELSE "act",
                      !.found = found, !.id = id, !.cur = Goal(t)]]

(* Up: the path, or else its parent, from the cache                        *)
Up(t) ==
  LET h == thread[t]
      id == IF h.cur = Root THEN RootId ELSE ResolvePath(h.cur)
  IN /\ h.at = "up"
     /\ IF id # NoId /\ h.cur = Goal(t) THEN Resolved(t, id)
        ELSE thread' = [thread EXCEPT ![t] =
               IF id = NoId THEN [h EXCEPT !.cur = Front(@)]
                            ELSE [h EXCEPT !.at = "check", !.id = id]]
     /\ UNCHANGED <<cache, nodes, calls, dropped>>

(* Down: a loaded directory has no child but those in the cache.           *)
Check(t) ==
  /\ thread[t].at = "check"
  /\ IF IsLoaded(thread[t].id) THEN Resolved(t, NoId) ELSE Goto(t, "load")
  /\ UNCHANGED <<cache, nodes, calls, dropped>>

Again(t) ==
  LET h == thread[t]
      id == ResolvePath(Next1(t))
  IN /\ h.at = "again"
     /\ IF id = NoId \/ Next1(t) = Goal(t) THEN Resolved(t, id)
        ELSE thread' = [thread EXCEPT ![t].at = "check", ![t].cur = Next1(t),
                                      ![t].id = id]
     /\ UNCHANGED <<cache, nodes, calls, dropped>>

-----------------------------------------------------------------------------
(* _load_children; the last one of a readdir ends the call.                *)

AfterLoad(t) == IF thread[t].cur = Goal(t) THEN Return(t) ELSE Goto(t, "again")

LoadedAlready(t) ==
  /\ thread[t].at = "load" /\ IsLoaded(thread[t].id)
  /\ AfterLoad(t)
  /\ UNCHANGED <<cache, nodes, calls, dropped>>

(* Drive answers, with nothing for an id that is gone; or the call fails   *)
List(t) ==
  /\ thread[t].at = "load" /\ ~IsLoaded(thread[t].id)
  /\ \/ thread' = [thread EXCEPT ![t].at = "map",
                                 ![t].items = Listing(thread[t].id)]
     \/ Return(t)
  /\ UNCHANGED <<cache, nodes, calls, dropped>>

(* Each item is mapped, and in a second step described.                    *)
MapItem(t) ==
  /\ thread[t].at = "map"
  /\ \E item \in thread[t].items :
       /\ MapPath(Append(thread[t].cur, item.name), item.id)
       /\ thread' = [thread EXCEPT ![t].at = "set", ![t].item = item.id,
                                   ![t].items = @ \ {item}]
  /\ UNCHANGED <<metadata, loaded, nodes, calls, dropped>>

SetItem(t) ==
  /\ thread[t].at = "set"
  /\ SetMetadata(thread[t].item)
  /\ thread' = [thread EXCEPT ![t].at = "map", ![t].item = NoId]
  /\ UNCHANGED <<paths, loaded, children, nodes, calls, dropped>>

Mark(t) ==
  /\ thread[t].at = "map" /\ thread[t].items = {}
  /\ thread[t].goals # <<>>
  /\ MarkLoaded(thread[t].id)
  /\ AfterLoad(t)
  /\ UNCHANGED <<paths, metadata, children, nodes, calls, dropped>>

-----------------------------------------------------------------------------
(* What each call does once its paths are resolved                         *)

(* create: a local_ id, and mkdir: what Drive made; mapped like an item of *)
(* a listing                                                               *)
Make(t) ==
  LET h == thread[t]
      at == IF h.op = "create" THEN "local" ELSE "drive"
  IN /\ h.at = "act" /\ h.op \in {"create", "mkdir"}
     /\ h.op = "mkdir" => OnDrive(h.id)
     /\ \E i \in Fresh :
          /\ Becomes([node EXCEPT ![i] = Node(at, h.id, Last(h.path))])
          /\ thread' = [thread EXCEPT ![t].at = "map",
               ![t].cur = Front(h.path), ![t].goals = <<>>,
               ![t].items = {[name |-> Last(h.path), id |-> i]}]
     /\ UNCHANGED <<cache, calls, dropped>>

Made(t) ==
  /\ thread[t].at = "map" /\ thread[t].items = {} /\ thread[t].goals = <<>>
  /\ Return(t)
  /\ UNCHANGED <<cache, nodes, calls, dropped>>

(* A directory goes with what is in it.                                    *)
Without(i) == [j \in Ids |-> IF j # RootId /\ (j = i \/ node[j].parent = i)
                                /\ node[j].at = "drive"
                               THEN [node[j] EXCEPT !.at = "none"] ELSE node[j]]

Delete(t) ==
  LET h == thread[t]
  IN /\ h.at = "act" /\ h.op = "unlink" /\ OnDrive(h.id)
     /\ Becomes(Without(h.id))
     /\ thread' = [thread EXCEPT ![t].at = "forget"]
     /\ UNCHANGED <<cache, calls, dropped>>

Move(t) ==
  LET h == thread[t]
  IN /\ h.at = "act" /\ h.op = "rename"
     /\ OnDrive(h.found[1]) /\ OnDrive(h.found[2])
     /\ Becomes([node EXCEPT ![h.found[1]] = Node("drive", h.found[2], Last(h.to))])
     /\ thread' = [thread EXCEPT ![t].at = "forget"]
     /\ UNCHANGED <<cache, calls, dropped>>

(* Drive refuses, or does not know the id: nothing is invalidated.         *)
CallFails(t) ==
  /\ thread[t].at = "act" /\ thread[t].op \in {"mkdir", "unlink", "rename"}
  /\ Return(t)
  /\ UNCHANGED <<cache, nodes, calls, dropped>>

(* The content of a swap file is queued for q, whose metadata are updated. *)
Describe(t) ==
  /\ thread[t].at = "act" /\ thread[t].op = "swap"
  /\ IF HasMetadata(thread[t].id) THEN SetMetadata(thread[t].id)
                                  ELSE UNCHANGED metadata
  /\ Goto(t, "forget")
  /\ UNCHANGED <<paths, loaded, children, nodes, calls, dropped>>

Invalidate(p) ==
  /\ InvalidatePath(p)
  /\ touched' = [touched EXCEPT ![p] = 0]
  /\ dropped' = [i \in Ids |-> IF i = ResolvePath(p) THEN 0 ELSE dropped[i]]
  /\ UNCHANGED <<loaded, node, calls>>

Forget(t) ==
  /\ thread[t].at = "forget"
  /\ Invalidate(thread[t].path)
  /\ IF thread[t].op = "rename" THEN Goto(t, "forgetTarget") ELSE Return(t)

(* rename invalidates the directory of the new path, not the new path      *)
ForgetTarget(t) ==
  /\ thread[t].at = "forgetTarget"
  /\ Invalidate(Front(thread[t].to))
  /\ Return(t)

-----------------------------------------------------------------------------
(* Others change Drive; an upload gives a local file its real id.          *)

Upload(i) ==
  /\ node[i].at = "local" /\ OnDrive(node[i].parent)
  /\ \E j \in Fresh :
       Becomes([node EXCEPT ![j] = [node[i] EXCEPT !.at = "drive"], ![i].at = "none"])
  /\ UNCHANGED <<cache, thread, calls, dropped>>

RemoteAdd(p) ==
  /\ calls < MaxCalls /\ calls' = calls + 1
  /\ \E d \in Held(Front(p)), i \in Fresh :
       OnDrive(d) /\ Becomes([node EXCEPT ![i] = Node("drive", d, Last(p))])
  /\ UNCHANGED <<cache, thread, dropped>>

RemoteDelete(i) ==
  /\ calls < MaxCalls /\ calls' = calls + 1
  /\ i # RootId /\ OnDrive(i)
  /\ Becomes(Without(i))
  /\ UNCHANGED <<cache, thread, dropped>>

(* No call takes longer than Slow.                                         *)
Tick ==
  LET Older(age, most) == IF age = most THEN age ELSE age + 1
  IN /\ \A t \in Threads : thread[t].age < Slow
     /\ thread' = [t \in Threads |-> IF thread[t].at = "idle" THEN Idle
                                     ELSE [thread[t] EXCEPT !.age = @ + 1]]
     /\ touched' = [p \in Paths |-> Older(touched[p], LongAgo)]
     /\ dropped' = [i \in Ids |-> Older(dropped[i], TTL)]
     /\ Pass
     /\ UNCHANGED <<node, calls>>

-----------------------------------------------------------------------------
UseFile(t, p) ==
  Getattr(t, p) \/ Create(t, p) \/ Unlink(t, p) \/ RenameSwap(t, p)
UseDirectory(t, p) ==
  Getattr(t, p) \/ Readdir(t, p) \/ Mkdir(t, p) \/ Unlink(t, p)
Use(t) ==
  \/ \E p \in Paths \ Directories : UseFile(t, p)
  \/ \E p \in Directories \ {Root} : UseDirectory(t, p)
  \/ \E p, q \in Paths \ {Root} :
       p # q /\ (p \in Directories <=> q \in Directories) /\ Rename(t, p, q)

Step(t) ==
  \/ Up(t) \/ Check(t) \/ Again(t)
  \/ LoadedAlready(t) \/ List(t) \/ MapItem(t) \/ SetItem(t) \/ Mark(t)
  \/ Make(t) \/ Made(t) \/ Delete(t) \/ Move(t) \/ CallFails(t) \/ Describe(t)
  \/ Forget(t) \/ ForgetTarget(t)

Next ==
  \/ \E t \in Threads : Use(t) \/ Step(t)
  \/ \E i \in Ids : Upload(i) \/ RemoteDelete(i)
  \/ \E p \in Paths \ {Root} : RemoteAdd(p)
  \/ Tick

Spec == Init /\ [][Next]_vars

-----------------------------------------------------------------------------
(* Properties                                                              *)

TypeOK ==
  LET Items == [name : STRING, id : Ids]
  IN /\ TypeOKCache
     /\ node \in [Ids -> [at : {"none", "local", "drive"}, parent : Ids, name : STRING]
                            \union {NoNode}]
     /\ \A t \in Threads :
          /\ thread[t].at \in {"idle", "up", "check", "again", "load", "map", "set",
                               "act", "forget", "forgetTarget"}
          /\ thread[t].cur \in Paths /\ thread[t].id \in Ids \union {NoId}
          /\ thread[t].items \subseteq Items /\ thread[t].item \in Ids \union {NoId}
          /\ thread[t].at \in {"check", "load", "map", "set"} => thread[t].id \in Ids
          /\ thread[t].at = "set" => thread[t].item \in Ids
     /\ calls <= MaxCalls

(* What a change or an invalidation of a path, or of a directory on the    *)
(* way to it, leaves behind lasts for an entry's life and a call, once for *)
(* each name of the path: a directory found through an old entry is listed *)
(* as if it were still there.                                              *)
Recent(p) == \E n \in 1..Len(p) : touched[SubSeq(p, 1, n)] < Settled(p)

(* A cached path that does not lead where Drive would lead is a recent one.*)
StaleBounded ==
  \A p \in Paths : ResolvePath(p) \notin {NoId} \union Held(p) => Recent(p)

(* A file on Drive whose directory calls as loaded, so that nobody asks   *)
(* Drive, is in the cache, unless the file is recent; or its entry expired *)
(* a little before that of the directory.                                  *)
HiddenBounded ==
  \A p \in Paths \ {Root} : \A i \in Held(p) :
    LET d == node[i].parent
    IN OnDrive(i) /\ IsLoaded(d) /\ ResolvePath(p) = NoId
         => Recent(p) \/ loaded[d] <= Slow

(* A path that is found can be described (getattr says ENOENT if the       *)
(* metadata are missing, since get_file_metadata does not exist): but for  *)
(* the moment between mapping and describing it, and TTL after another     *)
(* path of the same file was invalidated.                                  *)
FoundIsDescribed ==
  \A p \in Paths \ {Root} :
    LET i == ResolvePath(p)
    IN i # NoId /\ ~HasMetadata(i) =>
         \/ \E t \in Threads : thread[t].at = "set" /\ thread[t].item = i
         \/ dropped[i] < TTL

(* readdir lists every path that getattr finds.                            *)
FoundIsListed ==
  \A p \in Paths \ {Root} : ResolvePath(p) # NoId => p \in children[Front(p)]
============================================================================
