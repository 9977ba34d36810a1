--------------------------- MODULE TreeHistory ---------------------------
(***************************************************************************)
(* Undo and redo in the file tree (undo.ts, and the executors in           *)
(* FileTree.tsx) and the editor tabs that follow a file (tree-mutations.ts)*)
(* An undo moves its entry to the other stack before the host is asked,    *)
(* and moves it back if the host refuses.  The host is NameSpace: what the *)
(* file operations promise, one at a time.                                 *)
(*                                                                         *)
(* The tree holds one file, Original, and its copies.  Left out: the       *)
(* levels the tree re-lists, the draft question at a removal (EditorDraft  *)
(* has it), copies of directories, and the announcement of a move that     *)
(* keeps the editor's document (EditorDocument).                           *)
(***************************************************************************)
EXTENDS Naturals, Sequences, SequencesExt

CONSTANTS
  Names, Tabs,
  Limit,        \* UNDO_LIMIT
  Slots,        \* requests under way at once
  LostAnswers,  \* whether the host's answer gets lost after it did what was asked
  TabsOnCopies, \* whether a copy is opened
  MaxOps, MaxFailures,  \* bounds
  Dir, Nothing

Paths == {<<n>> : n \in Names} \cup {<<n, m>> : n, m \in Names}
Original == 1
Contents == 1 .. MaxOps + 1

\* TreeMutationOp, with the tree it was performed on; and what is under way.
Ops == [kind : {"rename", "move", "copy", "remove"}, from : Paths, to : Paths,
        before : [Paths -> Contents \cup {Dir, Nothing}]]
Requests == [mode : {"do", "undo", "redo"}, op : Ops, stage : {"asked", "done", "failed"}]

ConstantsAssumption ==
  /\ Limit \in Nat \ {0} /\ MaxOps \in Nat /\ MaxFailures \in Nat
  /\ LostAnswers \in BOOLEAN /\ TabsOnCopies \in BOOLEAN
  /\ Dir \notin Nat /\ Nothing \notin Nat /\ Dir # Nothing /\ Nothing \notin Requests

VARIABLES
  entries,     \* the host's tree, as in NameSpace
  undo, redo,  \* the stacks of a session and workspace
  request,     \* slot -> a request, or Nothing
  tab,         \* tab -> [path, file], or Nothing when it is closed
  ops, failures, removals

vars == <<entries, undo, redo, request, tab, ops, failures, removals>>

Host == INSTANCE NameSpace

\* An operation; before is a ghost, the tree it was performed on.
Op(kind, from, to) == [kind |-> kind, from |-> from, to |-> to, before |-> entries]

TypeOK ==
  /\ entries \in [Paths -> Contents \cup {Dir, Nothing}]
  /\ \A p \in Paths : entries[p] # Nothing => Host!HasRoom(p)
  /\ Len(undo) <= Limit
  /\ \A o \in ToSet(undo) \cup ToSet(redo) : o \in Ops /\ o.kind # "remove"
  /\ request \in [Slots -> Requests \cup {Nothing}]
  /\ \A t \in Tabs : tab[t] # Nothing => tab[t].path \in Paths /\ tab[t].file \in Contents
  /\ ops \in 0 .. MaxOps /\ failures \in 0 .. MaxFailures /\ removals \in 0 .. ops

\* A file and a directory, side by side.
Init ==
  /\ \E file, dir \in Names :
       /\ file # dir
       /\ entries = [p \in Paths |->
            IF p = <<file>> THEN Original ELSE IF p = <<dir>> THEN Dir ELSE Nothing]
  /\ undo = <<>> /\ redo = <<>>
  /\ request = [s \in Slots |-> Nothing] /\ tab = [t \in Tabs |-> Nothing]
  /\ ops = 0 /\ failures = 0 /\ removals = 0

-----------------------------------------------------------------------------
(* What the host is asked                                                   *)

\* What a request asks of the host: the inverse of its operation, for an undo.
Wanted(r) ==
  IF r.mode # "undo" THEN r.op
  ELSE IF r.op.kind = "copy" THEN [r.op EXCEPT !.kind = "remove", !.from = r.op.to]
  ELSE [r.op EXCEPT !.from = r.op.to, !.to = r.op.from]

Can(o) ==
  /\ entries[o.from] # Nothing
  /\ o.kind # "remove" => Host!Free(o.to) /\ Host!HasRoom(o.to)

Result(o) ==
  CASE o.kind \in {"rename", "move"} -> Host!Relocated(o.from, o.to)
    [] o.kind = "copy" -> [entries EXCEPT ![o.to] =
                             CHOOSE n \in Contents \ {Original} : n \notin {entries[p] : p \in Paths}]
    [] o.kind = "remove" -> [p \in Paths |-> IF IsPrefix(o.from, p) THEN Nothing ELSE entries[p]]

-----------------------------------------------------------------------------
(* The stacks                                                               *)

Capped(stack) == IF Len(stack) > Limit THEN Tail(stack) ELSE stack

\* lastIndexOf and splice.
Without(stack, o) ==
  IF o \notin ToSet(stack) THEN stack
  ELSE RemoveAt(stack, SelectLastInSeq(stack, LAMBDA e : e = o))

Ask(s, r) == request' = [request EXCEPT ![s] = r]

\* The user renames, moves, copies or removes a row.
Perform(s, o) ==
  /\ request[s] = Nothing /\ ops < MaxOps /\ Can(o)
  /\ ops' = ops + 1
  /\ removals' = removals + (IF o.kind = "remove" THEN 1 ELSE 0)
  /\ Ask(s, [mode |-> "do", op |-> o, stage |-> "asked"])
  /\ UNCHANGED <<entries, undo, redo, tab, failures>>

Rename(s) == \E p, q \in Paths : Front(p) = Front(q) /\ p # q /\ Perform(s, Op("rename", p, q))
Move(s) ==
  \E p, q \in Paths : Front(p) # Front(q) /\ Last(p) = Last(q) /\ ~IsPrefix(p, q)
                        /\ entries[p] # Dir /\ Perform(s, Op("move", p, q))
Copy(s) ==
  \E p, q \in Paths : Front(p) # Front(q) /\ Last(p) = Last(q)
                        /\ entries[p] \in Contents /\ Perform(s, Op("copy", p, q))
Delete(s) == \E p \in Paths : Perform(s, Op("remove", p, p))

Undo(s) ==
  /\ request[s] = Nothing /\ undo # <<>>
  /\ undo' = Front(undo) /\ redo' = Append(redo, Last(undo))
  /\ Ask(s, [mode |-> "undo", op |-> Last(undo), stage |-> "asked"])
  /\ UNCHANGED <<entries, tab, ops, failures, removals>>

Redo(s) ==
  /\ request[s] = Nothing /\ redo # <<>>
  /\ redo' = Front(redo) /\ undo' = Append(undo, Last(redo))
  /\ Ask(s, [mode |-> "redo", op |-> Last(redo), stage |-> "asked"])
  /\ UNCHANGED <<entries, tab, ops, failures, removals>>

\* The host does what it is asked, or refuses; or the call fails.
Serve(s) ==
  /\ request[s] # Nothing /\ request[s].stage = "asked"
  /\ LET o == Wanted(request[s]) IN
     \/ /\ Can(o)
        /\ entries' = Result(o)
        /\ Ask(s, [request[s] EXCEPT !.stage = "done"])
        /\ UNCHANGED failures
     \/ /\ ~Can(o) \/ failures < MaxFailures
        /\ failures' = IF Can(o) THEN failures + 1 ELSE failures
        /\ Ask(s, [request[s] EXCEPT !.stage = "failed"])
        /\ entries' = entries \/ (LostAnswers /\ Can(o) /\ entries' = Result(o))
  /\ UNCHANGED <<undo, redo, tab, ops, removals>>

\* Mutant: only the file itself, not what is under a directory.
Moved_Shallow(p, from, to) == IF p = from THEN to ELSE p

\* movedPath: where a path goes when from becomes to.
Moved(p, from, to) == IF IsPrefix(from, p) THEN to \o SubSeq(p, Len(from) + 1, Len(p)) ELSE p

\* retargetPathTabs and closePathTabs.
Followed(o) ==
  [t \in Tabs |->
     IF tab[t] = Nothing \/ o.kind = "copy" THEN tab[t]
     ELSE IF o.kind = "remove" THEN IF IsPrefix(o.from, tab[t].path) THEN Nothing ELSE tab[t]
     ELSE [tab[t] EXCEPT !.path = Moved(tab[t].path, o.from, o.to)]]

\* Mutant: an undo retargets no tab.
Succeeded_Undo(s) ==
  LET r == request[s] IN
  /\ r # Nothing /\ r.stage = "done"
  /\ tab' = IF r.mode = "undo" THEN tab ELSE Followed(Wanted(r))
  /\ IF r.mode = "do" /\ r.op.kind # "remove"
     THEN undo' = Capped(Append(undo, r.op)) /\ redo' = <<>>
     ELSE UNCHANGED <<undo, redo>>
  /\ Ask(s, Nothing)
  /\ UNCHANGED <<entries, ops, failures, removals>>

\* Mutant: a fresh operation keeps what could be redone.
Succeeded_KeepsRedo(s) ==
  LET r == request[s] IN
  /\ r # Nothing /\ r.stage = "done"
  /\ tab' = IF r.mode = "undo" /\ r.op.kind = "copy" THEN tab ELSE Followed(Wanted(r))
  /\ undo' = IF r.mode = "do" /\ r.op.kind # "remove" THEN Capped(Append(undo, r.op)) ELSE undo
  /\ Ask(s, Nothing)
  /\ UNCHANGED <<entries, redo, ops, failures, removals>>

\* The answer: what was performed is remembered, and the tabs follow; but the
\* removal that undoes a copy closes none.
Succeeded(s) ==
  LET r == request[s] IN
  /\ r # Nothing /\ r.stage = "done"
  /\ tab' = IF r.mode = "undo" /\ r.op.kind = "copy" THEN tab ELSE Followed(Wanted(r))
  /\ IF r.mode = "do" /\ r.op.kind # "remove"
     THEN undo' = Capped(Append(undo, r.op)) /\ redo' = <<>>
     ELSE UNCHANGED <<undo, redo>>
  /\ Ask(s, Nothing)
  /\ UNCHANGED <<entries, ops, failures, removals>>

\* Mutant: the entry stays where the attempt put it.
Failed_Stays(s) ==
  /\ request[s] # Nothing /\ request[s].stage = "failed"
  /\ Ask(s, Nothing)
  /\ UNCHANGED <<entries, undo, redo, tab, ops, failures, removals>>

\* returnTreeOp: the entry of a failed attempt goes back where it came from.
Failed(s) ==
  LET r == request[s] IN
  /\ r # Nothing /\ r.stage = "failed"
  /\ CASE r.mode = "undo" -> undo' = Append(undo, r.op) /\ redo' = Without(redo, r.op)
       [] r.mode = "redo" -> redo' = Append(redo, r.op) /\ undo' = Without(undo, r.op)
       [] OTHER -> UNCHANGED <<undo, redo>>
  /\ Ask(s, Nothing)
  /\ UNCHANGED <<entries, tab, ops, failures, removals>>

\* A file is opened, or its tab closed.
OpenFile(t, p) ==
  /\ tab[t] = Nothing /\ entries[p] \in (IF TabsOnCopies THEN Contents ELSE {Original})
  /\ tab' = [tab EXCEPT ![t] = [path |-> p, file |-> entries[p]]]
  /\ UNCHANGED <<entries, undo, redo, request, ops, failures, removals>>

CloseTab(t) ==
  /\ tab[t] # Nothing
  /\ tab' = [tab EXCEPT ![t] = Nothing]
  /\ UNCHANGED <<entries, undo, redo, request, ops, failures, removals>>

Next ==
  \/ \E s \in Slots :
       \/ Rename(s) \/ Move(s) \/ Copy(s) \/ Delete(s)
       \/ Undo(s) \/ Redo(s) \/ Serve(s) \/ Succeeded(s) \/ Failed(s)
  \/ \E t \in Tabs : CloseTab(t) \/ \E p \in Paths : OpenFile(t, p)

Spec == Init /\ [][Next]_vars

-----------------------------------------------------------------------------
(* Properties                                                               *)

Quiet == \A s \in Slots : request[s] = Nothing

\* The entry on top of undo can be undone, which gives the tree it was performed
\* on, and the entry on top of redo can be redone on that very tree; whatever
\* failed in between.  (What was removed for good cannot be brought back.)
HistoryHolds ==
  Quiet /\ removals = 0 =>
    /\ undo # <<>> =>
         LET o == Wanted([mode |-> "undo", op |-> Last(undo)])
         IN  Can(o) /\ Result(o) = Last(undo).before
    /\ redo # <<>> => Can(Last(redo)) /\ entries = Last(redo).before

\* An open tab is at its file's path, whatever was renamed, moved, undone or redone,
\* also above it; and what is removed has no tab.
TabsFollow ==
  Quiet => \A t \in Tabs : tab[t] # Nothing => entries[tab[t].path] = tab[t].file
=============================================================================
