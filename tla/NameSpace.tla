----------------------------- MODULE NameSpace -----------------------------
(***************************************************************************)
(* What the file operations of the tree promise (the doc comments of       *)
(* fs-operations.ts): every change is one step, a new name is a free name, *)
(* only an upload replaces what a name holds, and only a removal loses it. *)
(***************************************************************************)
EXTENDS Naturals, Sequences, SequencesExt

CONSTANTS Paths, Contents, Dir, Nothing

VARIABLE entries  \* path -> Nothing, Dir or the content of a file

Parent(p) == Front(p)
HasRoom(p) == Len(p) > 1 => entries[Parent(p)] = Dir
Under(p) == {q \in Paths : IsStrictPrefix(p, q)}
Free(p) == \A q \in Under(p) \cup {p} : entries[q] = Nothing

Init == entries = [p \in Paths |-> Nothing]

Add(p, v) ==
  /\ Free(p) /\ HasRoom(p)
  /\ entries' = [entries EXCEPT ![p] = v]

Replace(p, v) ==
  /\ entries[p] \in Contents
  /\ entries' = [entries EXCEPT ![p] = v]

Erase(p) ==
  /\ entries[p] # Nothing /\ \A q \in Under(p) : entries[q] = Nothing
  /\ entries' = [entries EXCEPT ![p] = Nothing]

\* What was at p, with everything under it, is at q.
Relocated(p, q) ==
  [r \in Paths |->
     IF IsPrefix(q, r) THEN LET s == p \o SubSeq(r, Len(q) + 1, Len(r))
                            IN  IF s \in Paths THEN entries[s] ELSE Nothing
     ELSE IF IsPrefix(p, r) THEN Nothing ELSE entries[r]]

\* Nothing goes into itself; and directories stay within the depth of the paths.
Relocate(p, q) ==
  /\ entries[p] # Nothing /\ Free(q) /\ HasRoom(q)
  /\ ~IsPrefix(p, q) /\ (entries[p] = Dir => Len(q) <= Len(p))
  /\ entries' = Relocated(p, q)

Change ==
  \/ \E p \in Paths : Erase(p) \/ \E v \in Contents \cup {Dir} : Add(p, v)
  \/ \E p \in Paths, v \in Contents : Replace(p, v)
  \/ \E p, q \in Paths : Relocate(p, q)

\* Nothing is promised of what changes no name.
Next == entries' # entries /\ Change

Spec == Init /\ [][Next]_entries
=============================================================================
