-------------------------- MODULE WorkspaceFiles --------------------------
(***************************************************************************)
(* The file operations of the tree (fs-operations.ts) and the cached       *)
(* levels they invalidate (fs-tree.ts): create, make a directory, rename,  *)
(* move, copy, upload, remove.  Each awaits between its checks, its effect *)
(* on the file system and the invalidation of the levels it changed; other *)
(* operations and listings run meanwhile.  A directory is removed entry by *)
(* entry, and may fail half way.                                           *)
(*                                                                         *)
(* Paths have one or two names; the root is <<>>.  A file's content is a   *)
(* number.  Left out: the checks of names and of the workspace root,       *)
(* symlinks, an upload's temporary sibling, slow listings (DirectoryCache  *)
(* has them), the directory watcher, which invalidates too, and moves of   *)
(* directories into directories.                                           *)
(***************************************************************************)
EXTENDS Naturals, FiniteSets, Sequences, SequencesExt

CONSTANTS
  Names,
  Callers,     \* route calls under way at once
  Overlap,     \* whether calls run between another's check and its effect
  Careless,    \* whether an upload makes its directory, a directory's name is
               \* used again while its level is cached, and a removal fails half way
  Browsed,     \* bound: the levels that are listed
  MaxOps,      \* bound: calls
  Dir, Nothing

ConstantsAssumption ==
  /\ Overlap \in BOOLEAN /\ Careless \in BOOLEAN /\ MaxOps \in Nat
  /\ Dir \notin Nat /\ Nothing \notin Nat /\ Dir # Nothing

Root == <<>>
Paths == {<<n>> : n \in Names} \cup {<<n, m>> : n, m \in Names}
Levels == {Root} \cup {<<n>> : n \in Names}
Contents == 1 .. MaxOps

VARIABLES
  tree,    \* path -> Nothing, Dir or a file's content
  cache,   \* level -> its cached listing, or Nothing
  call,    \* caller -> its operation
  ops

vars == <<tree, cache, call, ops>>

Idle == [kind |-> "none", from |-> Root, to |-> Root, stage |-> "idle", changed |-> {}]
Kinds == {"file", "dir", "rename", "move", "copy", "upload", "remove"}

Parent(p) == Front(p)
IsDir(p) == p # Root => tree[p] = Dir
IsFile(p) == tree[p] \in Contents
Children(l) == {p \in Paths : Parent(p) = l /\ tree[p] # Nothing}
Level(l) == {<<Last(p), tree[p] = Dir>> : p \in Children(l)}

TypeOK ==
  /\ tree \in [Paths -> Contents \cup {Dir, Nothing}]
  /\ \A p \in Paths : tree[p] # Nothing => IsDir(Parent(p))
  /\ \A l \in Levels : cache[l] = Nothing \/ cache[l] \subseteq Names \X BOOLEAN
  /\ \A l \in Levels \ Browsed : cache[l] = Nothing
  /\ \A c \in Callers :
       /\ call[c].kind \in Kinds \cup {"none"}
       /\ call[c].stage \in {"idle", "asked", "checked", "removing", "done"}
       /\ (call[c].stage = "idle") = (call[c] = Idle)
       /\ call[c].changed # {} => call[c].stage # "asked"
  /\ ops \in 0 .. MaxOps

Init ==
  /\ tree = [p \in Paths |-> Nothing]
  /\ cache = [l \in Levels |-> Nothing]
  /\ call = [c \in Callers |-> Idle]
  /\ ops = 0

-----------------------------------------------------------------------------
(* What each operation asks for                                             *)

Asks(kind, from, to) ==
  CASE kind \in {"file", "upload"} -> from = Root /\ to \in Paths
    [] kind = "dir" -> from = Root /\ to \in Paths /\ Len(to) = 1
    [] kind = "remove" -> from \in Paths /\ to = Root
    [] kind = "rename" -> from \in Paths /\ to \in Paths /\ from # to
                            /\ Parent(from) = Parent(to)
    [] kind \in {"move", "copy"} ->
         from \in Paths /\ to \in Paths /\ Last(from) = Last(to)
           /\ Parent(from) # Parent(to) /\ ~IsPrefix(from, to) /\ tree[from] # Dir

Ask(c, kind, from, to) ==
  /\ call[c] = Idle /\ ops < MaxOps /\ Asks(kind, from, to)
  /\ from # Root => tree[from] # Nothing
  /\ ops' = ops + 1
  /\ call' = [call EXCEPT ![c] = [kind |-> kind, from |-> from, to |-> to, stage |-> "asked",
                                  changed |-> {}]]
  /\ UNCHANGED <<tree, cache>>

-----------------------------------------------------------------------------
(* The steps of an operation                                                *)

MayRun(c) == Overlap \/ \A d \in Callers \ {c} : call[d].stage \in {"idle", "asked", "done"}

\* All but an upload and a removal refuse a name that is taken.
Refused_Never(o) == FALSE
Refused(o) == o.kind \notin {"upload", "remove"} /\ tree[o.to] # Nothing

Ended(c) == call' = [call EXCEPT ![c] = Idle]

\* The check.  An upload checks nothing, but makes the directory it goes to.
Check(c) ==
  LET o == call[c] IN
  /\ o.stage = "asked" /\ MayRun(c)
  /\ o.kind = "upload" /\ ~Careless => IsDir(Parent(o.to))
  /\ IF Refused(o) THEN Ended(c) /\ UNCHANGED tree
     ELSE /\ call' = [call EXCEPT ![c].stage = "checked"]
          /\ IF o.kind = "upload" /\ Len(o.to) = 2 /\ tree[Parent(o.to)] = Nothing
             THEN tree' = [tree EXCEPT ![Parent(o.to)] = Dir]
             ELSE UNCHANGED tree
  /\ UNCHANGED <<cache, ops>>

\* The levels an operation invalidates.
Invalidates_Target(o) == {Parent(o.to)}
Invalidates(o) ==
  CASE o.kind \in {"move", "copy"} -> {Parent(o.from), Parent(o.to)}
    [] o.kind = "remove" -> {Parent(o.from)}
    [] OTHER -> {Parent(o.to)}

Promised == INSTANCE NameSpace WITH entries <- tree

\* rename(2): the subtree takes the name, and what the name held is gone.
Renamable(p, q) ==
  /\ tree[p] # Nothing /\ IsDir(Parent(q))
  /\ CASE tree[q] = Nothing -> TRUE
       [] tree[q] = Dir -> tree[p] = Dir /\ Children(q) = {}
       [] OTHER -> tree[p] # Dir

\* Whether the file system takes the change, and the change.
Takes(o) ==
  CASE o.kind \in {"file", "dir"} -> tree[o.to] = Nothing /\ IsDir(Parent(o.to))
    [] o.kind = "copy" -> IsFile(o.from) /\ tree[o.to] = Nothing /\ IsDir(Parent(o.to))
    [] o.kind \in {"rename", "move"} -> Renamable(o.from, o.to)
    [] o.kind = "upload" -> IsDir(Parent(o.to)) /\ tree[o.to] # Dir
    [] o.kind = "remove" -> IsFile(o.from)

After(o) ==
  CASE o.kind = "dir" -> [tree EXCEPT ![o.to] = Dir]
    [] o.kind \in {"file", "upload"} -> [tree EXCEPT ![o.to] = ops]
    [] o.kind = "copy" -> [tree EXCEPT ![o.to] = tree[o.from]]
    [] o.kind \in {"rename", "move"} -> Promised!Relocated(o.from, o.to)
    [] o.kind = "remove" -> [tree EXCEPT ![o.from] = Nothing]

\* Directory names that are used again while the level they had is cached.
Reused(o) ==
  \/ o.kind = "dir" /\ cache[o.to] # Nothing
  \/ o.kind = "rename" /\ tree[o.from] = Dir /\ cache[o.to] # Nothing

\* A directory's move that would not fit the depth of the paths.
Deeper(o) == o.kind = "move" /\ tree[o.from] = Dir /\ Len(o.to) > Len(o.from)

Effect(c) ==
  LET o == call[c] IN
  /\ o.stage = "checked" /\ (Careless \/ ~Reused(o)) /\ ~Deeper(o)
  /\ IF Takes(o)
     THEN /\ tree' = After(o)
          /\ call' = [call EXCEPT ![c].stage = "done", ![c].changed = Invalidates(o)]
     ELSE IF o.kind = "remove" /\ tree[o.from] = Dir
     THEN call' = [call EXCEPT ![c].stage = "removing"] /\ UNCHANGED tree
     ELSE Ended(c) /\ UNCHANGED tree
  /\ UNCHANGED <<cache, ops>>

\* A directory goes entry by entry, and last itself.
RemoveStep(c) ==
  LET o == call[c] IN
  /\ o.stage = "removing"
  /\ \/ \E p \in Children(o.from) :
          tree' = [tree EXCEPT ![p] = Nothing] /\ UNCHANGED call
     \/ /\ Children(o.from) = {} /\ tree[o.from] = Dir
        /\ tree' = [tree EXCEPT ![o.from] = Nothing]
        /\ call' = [call EXCEPT ![c].stage = "done", ![c].changed = Invalidates(o)]
     \/ /\ Careless \/ tree[o.from] # Dir
        /\ Ended(c) /\ UNCHANGED tree
  /\ UNCHANGED <<cache, ops>>

Invalidate(c) ==
  /\ call[c].stage = "done"
  /\ cache' = [l \in Levels |-> IF l \in call[c].changed THEN Nothing ELSE cache[l]]
  /\ Ended(c)
  /\ UNCHANGED <<tree, ops>>

\* A level is listed; what is cached expires.
List(l) ==
  /\ l \in Browsed /\ IsDir(l) /\ cache[l] = Nothing
  /\ cache' = [cache EXCEPT ![l] = Level(l)]
  /\ UNCHANGED <<tree, call, ops>>

Expire(l) ==
  /\ cache[l] # Nothing
  /\ cache' = [cache EXCEPT ![l] = Nothing]
  /\ UNCHANGED <<tree, call, ops>>

Next ==
  \/ \E c \in Callers :
       \/ \E k \in Kinds, p, q \in Paths \cup {Root} : Ask(c, k, p, q)
       \/ Check(c) \/ Effect(c) \/ RemoveStep(c) \/ Invalidate(c)
  \/ \E l \in Levels : List(l) \/ Expire(l)

Spec == Init /\ [][Next]_vars

-----------------------------------------------------------------------------
(* Properties                                                               *)

\* "A stale level is never served past the write that changed it": a cached level
\* is the level, unless an operation that changed it has yet to invalidate it.
ListedIsCurrent ==
  \A l \in Levels :
    (IsDir(l) /\ cache[l] # Nothing
      /\ \A c \in Callers : l \notin call[c].changed /\ ~(call[c].stage = "removing" /\ call[c].from = l))
    => cache[l] = Level(l)

\* What a file holds is lost only while a removal or an upload is at work.
Held(v) == \E p \in Paths : tree[p] = v
LosesOnlyAsked ==
  [][\A v \in Contents : Held(v) /\ ~Held(v)' =>
       \E c \in Callers : /\ call[c].kind \in {"upload", "remove"}
                          /\ call[c].stage \in {"checked", "removing"}]_vars

\* Where no operation runs between another's check and its effect, the steps
\* amount to the promise: no name that is taken is taken over, and nobody but an
\* upload or a removal loses a file.
KeepsPromise == Promised!Spec /\ LosesOnlyAsked
=============================================================================
