----------------------- MODULE WorkspaceFiles_proofs -----------------------
(***************************************************************************)
(* Proofs about WorkspaceFiles, for any names, callers and number of calls:*)
(* the types, whatever overlaps; where no operation runs between another's *)
(* check and its effect, that the module implements NameSpace; and where   *)
(* directories' names are not used again, that what is cached is current.  *)
(*                                                                         *)
(* First what a path of one or two names, its prefixes and counterparts    *)
(* are; then that each of the promise's four steps keeps what exists in a  *)
(* directory (TreeOK), so that nothing is in what is free or a file        *)
(* (Barren); then that each step of a call is one of the four.  What makes *)
(* it one is Alone: at most one call is between its check and its end, so  *)
(* the name that its check found free is free when it takes it.  And a     *)
(* call names what its kind needs (Fits), a move never a path in its own.  *)
(*                                                                         *)
(* What is cached is current by itself (CacheInv): a call that changed a   *)
(* level has it pending until it is dropped, and a directory that goes or  *)
(* comes takes its level along, which needs that there are no directories  *)
(* in directories (Shallow) and that nothing is cached under a name that a *)
(* directory gets.                                                         *)
(*                                                                         *)
(* After that come the archives packed from these files (Archive, an       *)
(* instance of ArchiveTasks).  A build's place in the table, its child and *)
(* its file follow its phase (BuildStages); with the download's side of it *)
(* (BuildOffers) that is inductive, and carries the types, which need that *)
(* only files on disk are removed.                                         *)
(*                                                                         *)
(* Then the tree's undo and redo (History, an instance of TreeHistory).    *)
(***************************************************************************)
EXTENDS WorkspaceFiles, FiniteSetTheorems, TLAPS

-----------------------------------------------------------------------------
(* Paths of one and two names. *)

\* A sequence is told by its length and its elements.
LEMMA ShortSequence ==
  ASSUME NEW S, NEW s \in Seq(S), NEW a \in S, NEW b \in S
  PROVE  /\ Len(s) = 0 => s = << >>
         /\ Len(s) = 1 /\ s[1] = a => s = <<a>>
         /\ Len(s) = 2 /\ s[1] = a /\ s[2] = b => s = <<a, b>>
  OBVIOUS

\* What is cut off a path of two names, or of one, and what is put before it.
LEMMA Cuts ==
  ASSUME NEW S, NEW a \in S, NEW b \in S, NEW c \in S
  PROVE  /\ SubSeq(<<a, b>>, 1, 2) = <<a, b>> /\ SubSeq(<<a, b>>, 1, 1) = <<a>>
         /\ SubSeq(<<a>>, 1, 1) = <<a>> /\ SubSeq(<<a>>, 1, 0) = << >>
         /\ SubSeq(<<a>>, 2, 1) = << >> /\ SubSeq(<<a, b>>, 3, 2) = << >>
         /\ SubSeq(<<a, b>>, 2, 2) = <<b>>
         /\ <<a>> \o << >> = <<a>> /\ <<a, b>> \o << >> = <<a, b>>
         /\ <<a>> \o <<b>> = <<a, b>> /\ Len(<<a, b>> \o <<c>>) = 3
<1>1. /\ SubSeq(<<a, b>>, 1, 2) \in Seq(S) /\ Len(SubSeq(<<a, b>>, 1, 2)) = 2
      /\ SubSeq(<<a, b>>, 1, 2)[1] = a /\ SubSeq(<<a, b>>, 1, 2)[2] = b
  OBVIOUS
<1>2. /\ SubSeq(<<a, b>>, 1, 1) \in Seq(S) /\ Len(SubSeq(<<a, b>>, 1, 1)) = 1
      /\ SubSeq(<<a, b>>, 1, 1)[1] = a
  OBVIOUS
<1>3. /\ SubSeq(<<a>>, 1, 1) \in Seq(S) /\ Len(SubSeq(<<a>>, 1, 1)) = 1
      /\ SubSeq(<<a>>, 1, 1)[1] = a
  OBVIOUS
<1>4. /\ SubSeq(<<a>>, 1, 0) \in Seq(S) /\ Len(SubSeq(<<a>>, 1, 0)) = 0
      /\ SubSeq(<<a>>, 2, 1) \in Seq(S) /\ Len(SubSeq(<<a>>, 2, 1)) = 0
      /\ SubSeq(<<a, b>>, 3, 2) \in Seq(S) /\ Len(SubSeq(<<a, b>>, 3, 2)) = 0
  OBVIOUS
<1>5. /\ SubSeq(<<a, b>>, 2, 2) \in Seq(S) /\ Len(SubSeq(<<a, b>>, 2, 2)) = 1
      /\ SubSeq(<<a, b>>, 2, 2)[1] = b
  OBVIOUS
<1>6. /\ <<a>> \o << >> \in Seq(S) /\ Len(<<a>> \o << >>) = 1 /\ (<<a>> \o << >>)[1] = a
  OBVIOUS
<1>7. /\ <<a, b>> \o << >> \in Seq(S) /\ Len(<<a, b>> \o << >>) = 2
      /\ (<<a, b>> \o << >>)[1] = a /\ (<<a, b>> \o << >>)[2] = b
  OBVIOUS
<1>8. /\ <<a>> \o <<b>> \in Seq(S) /\ Len(<<a>> \o <<b>>) = 2
      /\ (<<a>> \o <<b>>)[1] = a /\ (<<a>> \o <<b>>)[2] = b
  OBVIOUS
<1>9. Len(<<a, b>> \o <<c>>) = 3
  OBVIOUS
<1>10. /\ \A s \in Seq(S) : Len(s) = 0 => s = << >>
       /\ \A s \in Seq(S), x \in S : Len(s) = 1 /\ s[1] = x => s = <<x>>
       /\ \A s \in Seq(S), x, y \in S : Len(s) = 2 /\ s[1] = x /\ s[2] = y => s = <<x, y>>
  BY ShortSequence
<1>11. SubSeq(<<a, b>>, 1, 2) = <<a, b>>
  BY <1>1, <1>10
<1>12. SubSeq(<<a, b>>, 1, 1) = <<a>> /\ SubSeq(<<a>>, 1, 1) = <<a>>
  BY <1>2, <1>3, <1>10
<1>13. SubSeq(<<a>>, 1, 0) = << >> /\ SubSeq(<<a>>, 2, 1) = << >> /\ SubSeq(<<a, b>>, 3, 2) = << >>
  BY <1>4, <1>10
<1>14. SubSeq(<<a, b>>, 2, 2) = <<b>> /\ <<a>> \o << >> = <<a>>
  BY <1>5, <1>6, <1>10
<1>15. <<a, b>> \o << >> = <<a, b>> /\ <<a>> \o <<b>> = <<a, b>>
  BY <1>7, <1>8, <1>10
<1> QED
  BY <1>9, <1>11, <1>12, <1>13, <1>14, <1>15, Zenon

\* The parents of a path of one name and of one of two.
LEMMA ParentOf ==
  /\ \A n \in Names : Parent(<<n>>) = Root /\ Root # <<n>>
  /\ \A n, m \in Names : Parent(<<n, m>>) = <<n>> /\ Root # <<n, m>>
<1>1. ASSUME NEW n \in Names  PROVE Parent(<<n>>) = Root /\ Root # <<n>>
  <2>1. Parent(<<n>>) = SubSeq(<<n>>, 1, 0)
    BY DEF Parent, Front
  <2> QED
    BY <2>1, Cuts DEF Root
<1>2. ASSUME NEW n \in Names, NEW m \in Names
      PROVE  Parent(<<n, m>>) = <<n>> /\ Root # <<n, m>>
  <2>1. Parent(<<n, m>>) = SubSeq(<<n, m>>, 1, 1)
    BY DEF Parent, Front
  <2> QED
    BY <2>1, Cuts DEF Root
<1> QED
  BY <1>1, <1>2

\* A path has one name, and is in the root, or two, and is in the path of the first.
LEMMA PathFacts ==
  ASSUME NEW p \in Paths
  PROVE  /\ Len(p) \in {1, 2} /\ p # Root /\ Last(p) \in Names
         /\ Len(p) = 1 => Parent(p) = Root
         /\ Len(p) = 2 => Parent(p) \in Paths /\ Len(Parent(p)) = 1
         /\ Parent(p) \in Levels
<1>1. CASE \E n \in Names : p = <<n>>
  <2>1. PICK n \in Names : p = <<n>>
    BY <1>1
  <2>2. Len(p) = 1 /\ p # Root /\ Last(p) = n
    BY <2>1 DEF Root, Last
  <2> QED
    BY <2>1, <2>2, ParentOf DEF Levels
<1>2. CASE \E n, m \in Names : p = <<n, m>>
  <2>1. PICK n \in Names, m \in Names : p = <<n, m>>
    BY <1>2
  <2>2. Len(p) = 2 /\ p # Root /\ Last(p) = m
    BY <2>1 DEF Root, Last
  <2>3. Parent(p) = <<n>>
    BY <2>1, ParentOf
  <2>4. <<n>> \in Paths /\ Len(<<n>>) = 1 /\ <<n>> \in Levels
    BY DEF Paths, Levels
  <2> QED
    BY <2>2, <2>3, <2>4
<1> QED
  BY <1>1, <1>2 DEF Paths

\* A path is a prefix of itself and of the paths in it, and of nothing else.
LEMMA PrefixFacts ==
  ASSUME NEW p \in Paths, NEW q \in Paths
  PROVE  IsPrefix(p, q) <=> p = q \/ Parent(q) = p
<1>1. /\ \/ \E n \in Names : p = <<n>>
         \/ \E n, m \in Names : p = <<n, m>>
      /\ \/ \E n \in Names : q = <<n>>
         \/ \E n, m \in Names : q = <<n, m>>
  BY DEF Paths
<1>2. ASSUME NEW n \in Names, p = <<n>>, NEW k \in Names, q = <<k>>
      PROVE  IsPrefix(p, q) <=> p = q \/ Parent(q) = p
  <2>1. IsPrefix(p, q) <=> SubSeq(<<n>>, 1, 1) = SubSeq(<<k>>, 1, 1)
    BY <1>2 DEF IsPrefix
  <2>2. IsPrefix(p, q) <=> p = q
    BY <1>2, <2>1, Cuts
  <2>3. Parent(q) # p
    BY <1>2, ParentOf
  <2> QED
    BY <2>2, <2>3
<1>3. ASSUME NEW n \in Names, p = <<n>>, NEW k \in Names, NEW l \in Names, q = <<k, l>>
      PROVE  IsPrefix(p, q) <=> p = q \/ Parent(q) = p
  <2>1. IsPrefix(p, q) <=> SubSeq(<<n>>, 1, 1) = SubSeq(<<k, l>>, 1, 1)
    BY <1>3 DEF IsPrefix
  <2>2. IsPrefix(p, q) <=> <<n>> = <<k>>
    BY <2>1, Cuts
  <2>3. p # q /\ Parent(q) = <<k>>
    BY <1>3, ParentOf
  <2> QED
    BY <1>3, <2>2, <2>3
<1>4. ASSUME NEW n \in Names, NEW m \in Names, p = <<n, m>>, NEW k \in Names, q = <<k>>
      PROVE  IsPrefix(p, q) <=> p = q \/ Parent(q) = p
  <2>1. ~IsPrefix(p, q) /\ p # q
    BY <1>4 DEF IsPrefix
  <2>2. Parent(q) # p
    BY <1>4, ParentOf
  <2> QED
    BY <2>1, <2>2
<1>5. ASSUME NEW n \in Names, NEW m \in Names, p = <<n, m>>, NEW k \in Names, NEW l \in Names,
             q = <<k, l>>
      PROVE  IsPrefix(p, q) <=> p = q \/ Parent(q) = p
  <2>1. IsPrefix(p, q) <=> SubSeq(<<n, m>>, 1, 2) = SubSeq(<<k, l>>, 1, 2)
    BY <1>5 DEF IsPrefix
  <2>2. IsPrefix(p, q) <=> p = q
    BY <1>5, <2>1, Cuts
  <2>3. Parent(q) = <<k>> /\ <<k>> # <<n, m>>
    BY <1>5, ParentOf
  <2> QED
    BY <1>5, <2>2, <2>3
<1> QED
  BY <1>1, <1>2, <1>3, <1>4, <1>5

\* Where a path is in a path, the outer one is in the root.
LEMMA InnerFacts ==
  ASSUME NEW p \in Paths, NEW q \in Paths, Parent(q) = p
  PROVE  Len(p) = 1 /\ Len(q) = 2 /\ Parent(p) = Root /\ p # q
  BY PathFacts

\* What takes the place of q in the place of p: p for q itself, and for a path in q
\* the path of the same name in p.
Counterpart(p, q, r) == p \o SubSeq(r, Len(q) + 1, Len(r))
\* The counterpart of q is p, and that of a path in q, if it is a path, is in p.
LEMMA CounterpartFacts ==
  ASSUME NEW p \in Paths, NEW q \in Paths
  PROVE  /\ Counterpart(p, q, q) = p
         /\ \A r \in Paths : Parent(r) = q /\ Counterpart(p, q, r) \in Paths =>
              Parent(Counterpart(p, q, r)) = p
<1>1. Counterpart(p, q, q) = p
  <2>1. SubSeq(q, Len(q) + 1, Len(q)) = << >>
    <3>1. CASE \E n \in Names : q = <<n>>
      <4>1. PICK n \in Names : q = <<n>>
        BY <3>1
      <4>2. Len(q) = 1 /\ Len(q) + 1 = 2
        BY <4>1
      <4> QED
        BY <4>1, <4>2, Cuts
    <3>2. CASE \E n, m \in Names : q = <<n, m>>
      <4>1. PICK n \in Names, m \in Names : q = <<n, m>>
        BY <3>2
      <4>2. Len(q) = 2 /\ Len(q) + 1 = 3
        BY <4>1
      <4> QED
        BY <4>1, <4>2, Cuts
    <3> QED
      BY <3>1, <3>2 DEF Paths
  <2>2. p \o << >> = p
    BY Cuts DEF Paths
  <2> QED
    BY <2>1, <2>2 DEF Counterpart
<1>2. ASSUME NEW r \in Paths, Parent(r) = q, Counterpart(p, q, r) \in Paths
      PROVE  Parent(Counterpart(p, q, r)) = p
  <2>1. Len(q) = 1 /\ Len(r) = 2
    BY <1>2, InnerFacts
  <2>2. PICK k \in Names, m \in Names : r = <<k, m>>
    BY <2>1 DEF Paths
  <2>3. Counterpart(p, q, r) = p \o <<m>>
    <3>1. Len(q) + 1 = 2
      BY <2>1
    <3>2. SubSeq(r, 2, 2) = <<m>>
      BY <2>2, Cuts
    <3> QED
      BY <2>1, <3>1, <3>2 DEF Counterpart
  <2>4. CASE \E n \in Names : p = <<n>>
    <3>1. PICK n \in Names : p = <<n>>
      BY <2>4
    <3>2. Counterpart(p, q, r) = <<n, m>>
      BY <2>3, <3>1, Cuts
    <3> QED
      BY <3>1, <3>2, ParentOf
  <2>5. CASE \E n, l \in Names : p = <<n, l>>
    <3>1. Len(Counterpart(p, q, r)) = 3
      BY <2>3, <2>5, Cuts
    <3> QED
      BY <1>2, <3>1, PathFacts
  <2> QED
    BY <2>4, <2>5 DEF Paths
<1> QED
  BY <1>1, <1>2

-----------------------------------------------------------------------------
(* The tree. *)

\* What exists is in a directory.
TreeOK ==
  /\ tree \in [Paths -> Contents \cup {Dir, Nothing}]
  /\ \A p \in Paths : tree[p] # Nothing => IsDir(Parent(p))

\* The promise's paths are the module's.
LEMMA SamePaths ==
  /\ \A p, q : Promised!IsPrefix(p, q) <=> IsPrefix(p, q)
  /\ \A p, q : Promised!IsStrictPrefix(p, q) <=> IsPrefix(p, q) /\ p # q
  /\ \A p : Promised!Parent(p) = Parent(p)
  BY DEF Promised!IsPrefix, IsPrefix, Promised!IsStrictPrefix, Promised!Parent, Parent,
         Promised!Front, Front

\* The promise's words, in the module's: what is under a path is what is in it, and
\* there is room for a path where its parent is a directory.
LEMMA PromiseWords ==
  ASSUME NEW p \in Paths
  PROVE  /\ \A q : q \in Promised!Under(p) <=> q \in Paths /\ Parent(q) = p
         /\ Promised!HasRoom(p) <=> IsDir(Parent(p))
<1>1. \A q : q \in Promised!Under(p) <=> q \in Paths /\ Parent(q) = p
  <2>1. \A q \in Paths : Promised!IsStrictPrefix(p, q) <=> Parent(q) = p
    BY SamePaths, PrefixFacts, InnerFacts
  <2> QED
    BY <2>1 DEF Promised!Under
<1>2. Promised!HasRoom(p) <=> IsDir(Parent(p))
  <2>1. CASE Len(p) = 1
    BY <2>1, PathFacts DEF Promised!HasRoom, IsDir
  <2>2. CASE Len(p) = 2
    <3>1. Parent(p) \in Paths /\ Parent(p) # Root
      BY <2>2, PathFacts
    <3> QED
      BY <2>2, <3>1, SamePaths DEF Promised!HasRoom, IsDir
  <2> QED
    BY <2>1, <2>2, PathFacts
<1> QED
  BY <1>1, <1>2

\* Nothing is in what is no directory.
LEMMA Barren ==
  ASSUME ConstantsAssumption, TreeOK, NEW p \in Paths, tree[p] # Dir,
         NEW q \in Paths, Parent(q) = p
  PROVE  tree[q] = Nothing
  BY PathFacts DEF TreeOK, IsDir

\* A new name is in a directory, and was free.
LEMMA AddKeeps ==
  ASSUME ConstantsAssumption, TreeOK, NEW p \in Paths, NEW v \in Contents \cup {Dir},
         tree[p] = Nothing, IsDir(Parent(p)), tree' = [tree EXCEPT ![p] = v]
  PROVE  TreeOK' /\ Promised!Add(p, v)
<1>1. tree[p] # Dir /\ tree \in [Paths -> Contents \cup {Dir, Nothing}]
  BY DEF ConstantsAssumption, TreeOK
<1>2. Promised!Add(p, v)
  <2>1. \A q \in Promised!Under(p) : tree[q] = Nothing
    BY <1>1, Barren, PromiseWords
  <2> QED
    BY <2>1, PromiseWords DEF Promised!Add, Promised!Free
<1>3. ASSUME NEW r \in Paths, tree'[r] # Nothing  PROVE IsDir(Parent(r))'
  <2>1. IsDir(Parent(r))
    BY <1>1, <1>3 DEF TreeOK
  <2>2. Parent(r) # p
    BY <1>1, <2>1, PathFacts DEF IsDir
  <2>3. Parent(r) = Root \/ Parent(r) \in Paths
    BY PathFacts
  <2> QED
    BY <1>1, <2>1, <2>2, <2>3 DEF IsDir
<1> QED
  BY <1>1, <1>2, <1>3 DEF TreeOK

\* A file replaced is a file still.
LEMMA ReplaceKeeps ==
  ASSUME ConstantsAssumption, TreeOK, NEW p \in Paths, NEW v \in Contents, tree[p] \in Contents,
         tree' = [tree EXCEPT ![p] = v]
  PROVE  TreeOK' /\ Promised!Replace(p, v)
<1>1. tree[p] # Dir /\ tree[p] # Nothing /\ tree \in [Paths -> Contents \cup {Dir, Nothing}]
  BY DEF ConstantsAssumption, TreeOK, Contents
<1>2. ASSUME NEW r \in Paths, tree'[r] # Nothing  PROVE IsDir(Parent(r))'
  <2>1. IsDir(Parent(r))
    BY <1>1, <1>2 DEF TreeOK
  <2>2. Parent(r) # p
    BY <1>1, <2>1, PathFacts DEF IsDir
  <2>3. Parent(r) = Root \/ Parent(r) \in Paths
    BY PathFacts
  <2> QED
    BY <1>1, <2>1, <2>2, <2>3 DEF IsDir
<1> QED
  BY <1>1, <1>2 DEF TreeOK, Promised!Replace

\* What is erased has nothing in it.
LEMMA EraseKeeps ==
  ASSUME ConstantsAssumption, TreeOK, NEW p \in Paths, tree[p] # Nothing, Children(p) = {},
         tree' = [tree EXCEPT ![p] = Nothing]
  PROVE  TreeOK' /\ Promised!Erase(p)
<1>1. tree \in [Paths -> Contents \cup {Dir, Nothing}]
  BY DEF TreeOK
<1>2. \A q \in Paths : Parent(q) = p => tree[q] = Nothing
  BY DEF Children
<1>3. ASSUME NEW r \in Paths, tree'[r] # Nothing  PROVE IsDir(Parent(r))'
  <2>1. tree[r] # Nothing /\ IsDir(Parent(r))
    BY <1>1, <1>3 DEF TreeOK
  <2>2. Parent(r) # p
    BY <1>2, <2>1
  <2>3. Parent(r) = Root \/ Parent(r) \in Paths
    BY PathFacts
  <2> QED
    BY <1>1, <2>1, <2>2, <2>3 DEF IsDir
<1>4. \A q \in Promised!Under(p) : tree[q] = Nothing
  BY <1>2, PromiseWords
<1> QED
  BY <1>1, <1>3, <1>4 DEF TreeOK, Promised!Erase

\* What takes another name takes along what is in it.
LEMMA RelocateKeeps ==
  ASSUME ConstantsAssumption, TreeOK, NEW p \in Paths, NEW q \in Paths,
         ~IsPrefix(p, q), IsDir(Parent(q)), tree' = Promised!Relocated(p, q)
  PROVE  TreeOK'
<1>1. /\ tree \in [Paths -> Contents \cup {Dir, Nothing}]
      /\ p # q /\ Parent(q) # p
  BY PrefixFacts DEF TreeOK
<1>2. tree' = [r \in Paths |->
                 IF IsPrefix(q, r)
                 THEN IF Counterpart(p, q, r) \in Paths THEN tree[Counterpart(p, q, r)] ELSE Nothing
                 ELSE IF IsPrefix(p, r) THEN Nothing ELSE tree[r]]
  BY SamePaths DEF Promised!Relocated, Counterpart
<1>3. tree'[q] = tree[p]
  BY <1>2, CounterpartFacts, PrefixFacts
<1>4. ASSUME NEW r \in Paths, r # q, Parent(r) # q  PROVE tree'[r] \in {Nothing, tree[r]}
  BY <1>2, <1>4, PrefixFacts
<1>5. ASSUME NEW r \in Paths, r # q, Parent(r) # q, r # p, Parent(r) # p
      PROVE  tree'[r] = tree[r]
  BY <1>2, <1>5, PrefixFacts
<1>6. ASSUME NEW r \in Paths, tree'[r] # Nothing  PROVE IsDir(Parent(r))'
  <2>1. CASE r = q
    <3>1. CASE Parent(q) = Root
      BY <2>1, <3>1 DEF IsDir
    <3>2. CASE Parent(q) # Root
      <4>1. Parent(q) \in Paths /\ Parent(Parent(q)) = Root /\ Parent(q) # q
        BY <3>2, PathFacts
      <4>2. tree'[Parent(q)] = tree[Parent(q)]
        BY <1>1, <4>1, <1>5, PathFacts
      <4> QED
        BY <2>1, <3>2, <4>2 DEF IsDir
    <3> QED
      BY <3>1, <3>2
  <2>2. CASE Parent(r) = q
    <3>1. r # q
      BY <2>2, InnerFacts
    <3>2. Counterpart(p, q, r) \in Paths /\ tree[Counterpart(p, q, r)] # Nothing
      BY <1>2, <1>6, <2>2, PrefixFacts
    <3>3. Parent(Counterpart(p, q, r)) = p
      BY <2>2, <3>2, CounterpartFacts
    <3>4. tree[p] = Dir
      BY <3>2, <3>3, PathFacts DEF TreeOK, IsDir
    <3> QED
      BY <1>3, <2>2, <3>4 DEF IsDir
  <2>3. CASE r # q /\ Parent(r) # q
    <3>1. tree'[r] = tree[r] /\ ~IsPrefix(p, r)
      BY <1>2, <1>6, <2>3, PrefixFacts
    <3>2. IsDir(Parent(r)) /\ Parent(r) # p /\ r # p
      BY <1>6, <3>1, PrefixFacts DEF TreeOK
    <3>3. CASE Parent(r) = Root
      BY <3>3 DEF IsDir
    <3>4. CASE Parent(r) # Root
      <4>1. Parent(r) \in Paths /\ Parent(Parent(r)) = Root
        BY <3>4, PathFacts
      <4>2. tree'[Parent(r)] = tree[Parent(r)]
        BY <2>3, <3>2, <4>1, <1>5, PathFacts
      <4> QED
        BY <3>2, <3>4, <4>2 DEF IsDir
    <3> QED
      BY <3>3, <3>4
  <2> QED
    BY <2>1, <2>2, <2>3
<1>7. tree' \in [Paths -> Contents \cup {Dir, Nothing}]
  BY <1>1, <1>2
<1> QED
  BY <1>6, <1>7 DEF TreeOK

\* If the name it takes is free, that is what is promised.
LEMMA RelocateIsPromised ==
  ASSUME ConstantsAssumption, TreeOK, NEW p \in Paths, NEW q \in Paths,
         ~IsPrefix(p, q), IsDir(Parent(q)), tree' = Promised!Relocated(p, q),
         tree[p] # Nothing, tree[q] = Nothing, tree[p] = Dir => Len(q) <= Len(p)
  PROVE  Promised!Relocate(p, q)
<1>1. tree[q] # Dir
  BY DEF ConstantsAssumption
<1>2. \A r \in Promised!Under(q) : tree[r] = Nothing
  BY <1>1, Barren, PromiseWords
<1> QED
  BY <1>2, PromiseWords, SamePaths DEF Promised!Relocate, Promised!Free

\* No file is lost.
Keeps == \A v \in Contents : Held(v) => Held(v)'

\* A new name takes no file's place.
LEMMA AddLosesNothing ==
  ASSUME ConstantsAssumption, TreeOK, NEW p \in Paths, NEW v, tree[p] = Nothing,
         tree' = [tree EXCEPT ![p] = v]
  PROVE  Keeps
<1>1. Nothing \notin Contents /\ tree \in [Paths -> Contents \cup {Dir, Nothing}]
  BY DEF Contents, ConstantsAssumption, TreeOK
<1>2. \A q \in Paths : tree[q] \in Contents => tree'[q] = tree[q]
  BY <1>1
<1> QED
  BY <1>2 DEF Keeps, Held

\* Nor does what takes another name, if that is free: what was in it has its
\* counterpart, because a directory stays within the depth of the paths.
LEMMA RelocateLosesNothing ==
  ASSUME ConstantsAssumption, TreeOK, NEW p \in Paths, NEW q \in Paths, Promised!Relocate(p, q)
  PROVE  Keeps
<1>1. /\ tree \in [Paths -> Contents \cup {Dir, Nothing}] /\ tree[q] = Nothing
      /\ Nothing \notin Contents /\ Dir \notin Contents /\ ~IsPrefix(p, q)
      /\ tree[p] = Dir => Len(q) <= Len(p)
  BY SamePaths DEF TreeOK, Promised!Relocate, Promised!Free, Contents, ConstantsAssumption
<1>2. tree' = [r \in Paths |->
                 IF IsPrefix(q, r)
                 THEN IF Counterpart(p, q, r) \in Paths THEN tree[Counterpart(p, q, r)] ELSE Nothing
                 ELSE IF IsPrefix(p, r) THEN Nothing ELSE tree[r]]
  BY SamePaths DEF Promised!Relocate, Promised!Relocated, Counterpart
<1>3. ASSUME NEW r \in Paths, tree[r] \in Contents  PROVE \E s \in Paths : tree'[s] = tree[r]
  <2>1. CASE r = p
    <3>1. tree'[q] = tree[p]
      BY <1>2, CounterpartFacts, PrefixFacts
    <3> QED
      BY <2>1, <3>1
  <2>2. CASE Parent(r) = p
    <3>1. tree[p] = Dir /\ Len(p) = 1
      BY <1>1, <1>3, <2>2, InnerFacts, PathFacts DEF TreeOK, IsDir
    <3>2. Len(q) = 1
      BY SMTT(40), <1>1, <3>1, PathFacts
    <3>3. PICK n \in Names, k \in Names, m \in Names : p = <<n>> /\ q = <<k>> /\ r = <<n, m>>
      <4>1. Len(r) = 2
        BY <2>2, InnerFacts
      <4>2. PICK n, m \in Names : r = <<n, m>>
        BY <4>1 DEF Paths
      <4>3. p = <<n>>
        BY <2>2, <4>2, ParentOf
      <4>4. PICK k \in Names : q = <<k>>
        BY <3>2 DEF Paths
      <4> QED
        BY <4>2, <4>3, <4>4
    <3>4. <<k, m>> \in Paths /\ Parent(<<k, m>>) = q
      BY <3>3, ParentOf DEF Paths
    <3>5. Counterpart(p, q, <<k, m>>) = r
      <4>1. Len(q) + 1 = 2 /\ Len(<<k, m>>) = 2
        BY <3>2
      <4>2. Counterpart(p, q, <<k, m>>) = <<n>> \o SubSeq(<<k, m>>, 2, 2)
        BY <3>3, <4>1 DEF Counterpart
      <4>3. SubSeq(<<k, m>>, 2, 2) = <<m>> /\ <<n>> \o <<m>> = <<n, m>>
        BY Cuts
      <4> QED
        BY <3>3, <4>2, <4>3
    <3>6. tree'[<<k, m>>] = tree[r]
      BY <1>2, <3>4, <3>5, PrefixFacts
    <3> QED
      BY <3>4, <3>6
  <2>3. CASE r # p /\ Parent(r) # p
    <3>1. r # q
      BY <1>1, <1>3
    <3>2. Parent(r) # q
      <4>1. tree[q] # Dir /\ tree[r] # Nothing
        BY <1>1, <1>3 DEF ConstantsAssumption
      <4> QED
        BY <4>1, PathFacts DEF TreeOK, IsDir
    <3>3. tree'[r] = tree[r]
      BY <1>2, <2>3, <3>1, <3>2, PrefixFacts
    <3> QED
      BY <3>3
  <2> QED
    BY <2>1, <2>2, <2>3
<1> QED
  BY <1>3 DEF Keeps, Held

-----------------------------------------------------------------------------
(* The calls. *)

Ops == [kind : Kinds \cup {"none"}, from : Paths \cup {Root}, to : Paths \cup {Root},
        stage : {"idle", "asked", "checked", "removing", "done"}, changed : SUBSET Levels]

\* What a call that was asked for names: paths that its kind needs, and of two
\* neither is in the other.
Fits(o) ==
  /\ o.kind # "none"
  /\ o.kind # "remove" => o.to \in Paths
  /\ o.kind \in {"rename", "move", "copy", "remove"} => o.from \in Paths
  /\ o.kind \in {"rename", "move", "copy"} => ~IsPrefix(o.from, o.to)
  /\ o.kind = "rename" => Parent(o.from) = Parent(o.to) /\ Len(o.from) = Len(o.to)
  /\ o.kind = "move" => Parent(o.from) # Parent(o.to)
  /\ o.kind = "dir" => Len(o.to) = 1
  /\ o.stage = "removing" => o.kind = "remove"

CallsFit ==
  /\ call \in [Callers -> Ops]
  /\ \A c \in Callers :
       /\ call[c] # Idle => Fits(call[c]) /\ call[c].stage # "idle" /\ ops >= 1
       /\ call[c].changed # {} => call[c].stage = "done"

Entries == Names \X BOOLEAN
CacheOK ==
  /\ cache \in [Levels -> (SUBSET Entries) \cup {Nothing}]
  /\ \A l \in Levels \ Browsed : cache[l] = Nothing

TypeInv == TreeOK /\ CallsFit /\ CacheOK /\ ops \in 0 .. MaxOps

\* Where no operation runs between another's check and its effect: at most one is
\* there, and the name it found free is free.
Midway(c) == call[c].stage \in {"checked", "removing"}
Alone ==
  /\ \A c, d \in Callers : Midway(c) /\ Midway(d) => c = d
  /\ \A c \in Callers :
       call[c].stage = "checked" /\ call[c].kind \notin {"upload", "remove"}
         => tree[call[c].to] = Nothing

\* What the rest of the module says of the types follows.
LEMMA TypesFollow == ASSUME ConstantsAssumption, TypeInv PROVE TypeOK
<1>1. ASSUME NEW c \in Callers
      PROVE  /\ call[c].kind \in Kinds \cup {"none"}
             /\ call[c].stage \in {"idle", "asked", "checked", "removing", "done"}
             /\ (call[c].stage = "idle") = (call[c] = Idle)
             /\ call[c].changed # {} => call[c].stage # "asked"
  BY DEF TypeInv, CallsFit, Ops, Idle
<1>2. \A l \in Levels : cache[l] = Nothing \/ cache[l] \subseteq Names \X BOOLEAN
  <2>1. \A l \in Levels : cache[l] = Nothing \/ cache[l] \subseteq Entries
    BY DEF TypeInv, CacheOK
  <2> QED
    BY <2>1, Zenon DEF Entries
<1> QED
  BY <1>1, <1>2 DEF TypeOK, TypeInv, TreeOK, CacheOK

\* At the start nothing exists, is cached or asked.
LEMMA InitInv == ASSUME ConstantsAssumption, Init PROVE TypeInv /\ Alone /\ Promised!Init
<1>1. TreeOK
  BY DEF Init, TreeOK
<1>2. Idle \in Ops /\ Idle.stage = "idle" /\ Idle.changed = {}
  BY DEF Idle, Ops
<1>3. CallsFit
  BY <1>2 DEF Init, CallsFit
<1>4. CacheOK
  BY DEF Init, CacheOK
<1>5. Alone
  BY <1>2 DEF Init, Alone, Midway
<1> QED
  BY <1>1, <1>3, <1>4, <1>5 DEF Init, TypeInv, ConstantsAssumption, Promised!Init

\* A call that is asked for fits.
LEMMA AskStep ==
  ASSUME ConstantsAssumption, TypeInv, NEW c \in Callers, NEW k \in Kinds,
         NEW p \in Paths \cup {Root}, NEW q \in Paths \cup {Root}, Ask(c, k, p, q)
  PROVE  TypeInv' /\ (Alone => Alone')
<1> DEFINE o == [kind |-> k, from |-> p, to |-> q, stage |-> "asked", changed |-> {}]
<1>1. Fits(o)
  <2>1. CASE k \in {"file", "upload"}
    BY <2>1 DEF Ask, Asks, Fits, Kinds
  <2>2. CASE k = "dir"
    BY <2>2 DEF Ask, Asks, Fits, Kinds
  <2>3. CASE k = "remove"
    BY <2>3 DEF Ask, Asks, Fits, Kinds
  <2>4. CASE k = "rename"
    <3>1. p \in Paths /\ q \in Paths /\ p # q /\ Parent(p) = Parent(q)
      BY <2>4 DEF Ask, Asks
    <3>2. Parent(q) # p
      BY <3>1, InnerFacts, PathFacts
    <3>3. Len(p) = Len(q)
      BY <3>1, PathFacts
    <3> QED
      BY <2>4, <3>1, <3>2, <3>3, PrefixFacts DEF Fits
  <2>5. CASE k \in {"move", "copy"}
    <3>1. p \in Paths /\ q \in Paths /\ ~IsPrefix(p, q) /\ Parent(p) # Parent(q)
      BY <2>5 DEF Ask, Asks
    <3> QED
      BY <2>5, <3>1 DEF Fits
  <2> QED
    BY <2>1, <2>2, <2>3, <2>4, <2>5 DEF Kinds
<1>2. o \in Ops /\ o.stage = "asked" /\ o.changed = {}
  BY DEF Ops
<1>3. /\ ops' = ops + 1 /\ ops' \in 0 .. MaxOps /\ ops' >= 1 /\ UNCHANGED <<tree, cache>>
      /\ call' = [call EXCEPT ![c] = o]
  BY DEF Ask, TypeInv, ConstantsAssumption
<1> HIDE DEF o
<1>4. \A d \in Callers : call'[d] = o \/ call'[d] = call[d]
  BY <1>3 DEF TypeInv, CallsFit
<1>5. CallsFit'
  <2>1. call' \in [Callers -> Ops]
    BY <1>2, <1>3 DEF TypeInv, CallsFit
  <2> QED
    BY <1>1, <1>2, <1>3, <1>4, <2>1 DEF TypeInv, CallsFit, Fits, Idle
<1>6. Alone => Alone'
  BY <1>2, <1>3, <1>4 DEF Alone, Midway
<1> QED
  BY <1>3, <1>5, <1>6 DEF TypeInv, TreeOK, CacheOK, IsDir

\* A call that goes on fits as before; one that ends is none.
LEMMA CallGoesOn ==
  ASSUME CallsFit, NEW c \in Callers, call[c] # Idle, ops' = ops,
         NEW o \in Ops, call' = [call EXCEPT ![c] = o], o.changed # {} => o.stage = "done",
         \/ o = Idle
         \/ /\ o.kind = call[c].kind /\ o.from = call[c].from /\ o.to = call[c].to
            /\ o.stage \notin {"idle", "asked"} /\ (o.stage = "removing" => o.kind = "remove")
  PROVE  CallsFit'
<1>1. Idle.changed = {} /\ Idle.stage = "idle"
  BY DEF Idle
<1>2. o # Idle => Fits(o)
  BY DEF CallsFit, Fits
<1>3. ASSUME NEW d \in Callers
      PROVE  /\ call'[d] # Idle => Fits(call'[d]) /\ call'[d].stage # "idle" /\ ops' >= 1
             /\ call'[d].changed # {} => call'[d].stage = "done"
  <2>1. CASE d = c
    BY <1>1, <1>2, <2>1 DEF CallsFit
  <2>2. CASE d # c
    BY <2>2 DEF CallsFit
  <2> QED
    BY <2>1, <2>2
<1>4. call' \in [Callers -> Ops]
  BY DEF CallsFit
<1> QED
  BY <1>3, <1>4 DEF CallsFit, Fits, Idle

\* One step of call c: nobody else's is there, where nobody's overlaps it.
LEMMA StaysAlone ==
  ASSUME CallsFit, Alone, NEW c \in Callers, NEW o \in Ops, call' = [call EXCEPT ![c] = o],
         \A d \in Callers \ {c} : ~Midway(d),
         o.stage = "checked" /\ o.kind \notin {"upload", "remove"} => tree'[o.to] = Nothing
  PROVE  Alone'
<1>1. \A d \in Callers : (d = c => call'[d] = o) /\ (d # c => call'[d] = call[d])
  BY DEF CallsFit
<1>2. \A d \in Callers : Midway(d)' => d = c
  BY <1>1 DEF Midway
<1>3. ASSUME NEW d \in Callers, call'[d].stage = "checked", call'[d].kind \notin {"upload", "remove"}
      PROVE  tree'[call'[d].to] = Nothing
  <2>1. d = c
    BY <1>2, <1>3 DEF Midway
  <2> QED
    BY <1>1, <1>3, <2>1
<1> QED
  BY <1>2, <1>3 DEF Alone

\* The check takes no name, but for the directory an upload makes, which is new.
LEMMA CheckStep ==
  ASSUME ConstantsAssumption, TypeInv, NEW c \in Callers, Check(c)
  PROVE  /\ TypeInv'
         /\ Overlap = FALSE /\ Alone => Alone' /\ [Promised!Change]_tree /\ Keeps
<1> DEFINE o == call[c]
<1>1. /\ o \in Ops /\ o.stage = "asked" /\ o # Idle /\ Fits(o) /\ o.changed = {}
      /\ ops' = ops /\ cache' = cache
  BY DEF Check, TypeInv, CallsFit, Idle
<1>2. PICK n : n = IF Refused(o) THEN Idle ELSE [o EXCEPT !.stage = "checked"]
  OBVIOUS
<1>3. /\ n \in Ops /\ call' = [call EXCEPT ![c] = n] /\ n.changed = {}
      /\ \/ n = Idle
         \/ /\ n.kind = o.kind /\ n.from = o.from /\ n.to = o.to /\ n.stage = "checked"
            /\ ~Refused(o)
  <2>1. CASE Refused(o)
    <3>1. n = Idle /\ Idle \in Ops /\ Idle.changed = {}
      BY <1>2, <2>1 DEF Idle, Ops
    <3> QED
      BY <2>1, <3>1 DEF Check, Ended
  <2>2. CASE ~Refused(o)
    <3>1. n = [o EXCEPT !.stage = "checked"]
      BY <1>2, <2>2
    <3>2. /\ n \in Ops /\ n.kind = o.kind /\ n.from = o.from /\ n.to = o.to /\ n.stage = "checked"
          /\ n.changed = {}
      BY <1>1, <3>1 DEF Ops
    <3>3. call' = [call EXCEPT ![c] = n]
      BY <2>2, <3>1 DEF Check, TypeInv, CallsFit
    <3> QED
      BY <2>2, <3>2, <3>3
  <2> QED
    BY <2>1, <2>2
<1>4. CallsFit'
  BY <1>1, <1>3, CallGoesOn DEF TypeInv
<1>5. \/ tree' = tree
      \/ /\ o.kind = "upload" /\ Parent(o.to) \in Paths /\ TreeOK'
         /\ Promised!Add(Parent(o.to), Dir) /\ Keeps
  <2>1. CASE ~Refused(o) /\ o.kind = "upload" /\ Len(o.to) = 2 /\ tree[Parent(o.to)] = Nothing
    <3>1. o.to \in Paths
      BY <1>1, <2>1 DEF Fits
    <3>2. Parent(o.to) \in Paths /\ Parent(Parent(o.to)) = Root
      BY <2>1, <3>1, PathFacts
    <3>3. tree' = [tree EXCEPT ![Parent(o.to)] = Dir]
      BY <2>1 DEF Check
    <3>4. IsDir(Parent(Parent(o.to)))
      BY <3>2 DEF IsDir
    <3> QED
      BY <2>1, <3>2, <3>3, <3>4, AddKeeps, AddLosesNothing DEF TypeInv
  <2>2. CASE ~(~Refused(o) /\ o.kind = "upload" /\ Len(o.to) = 2 /\ tree[Parent(o.to)] = Nothing)
    BY <2>2 DEF Check
  <2> QED
    BY <2>1, <2>2
<1>6. TypeInv'
  BY <1>1, <1>4, <1>5 DEF TypeInv, TreeOK, CacheOK, IsDir
<1>7. ASSUME Overlap = FALSE, Alone  PROVE Alone' /\ [Promised!Change]_tree /\ Keeps
  <2>1. \A d \in Callers \ {c} : ~Midway(d)
    BY <1>7 DEF Check, MayRun, Midway
  <2>2. n.stage = "checked" /\ n.kind \notin {"upload", "remove"} => tree'[n.to] = Nothing
    BY <1>3, <1>5 DEF Refused, Idle
  <2>3. Alone'
    BY <1>3, <1>7, <2>1, <2>2, StaysAlone DEF TypeInv
  <2>4. [Promised!Change]_tree /\ Keeps
    BY <1>5 DEF Promised!Change, Keeps, Held
  <2> QED
    BY <2>3, <2>4
<1> QED
  BY <1>6, <1>7

\* What the file system takes is what was promised of it, if the name was found free.
LEMMA TakenIsPromised ==
  ASSUME ConstantsAssumption, TreeOK, ops \in 1 .. MaxOps, NEW o \in Ops, Fits(o), ~Deeper(o),
         Takes(o), tree' = After(o)
  PROVE  /\ TreeOK'
         /\ (o.kind \notin {"upload", "remove"} => tree[o.to] = Nothing) =>
              Promised!Change /\ (o.kind \notin {"upload", "remove"} => Keeps)
<1>1. ops \in Contents /\ Nothing \notin Contents /\ Dir \notin Contents /\ Dir # Nothing
  BY DEF Contents, ConstantsAssumption
<1>2. CASE o.kind \in {"file", "dir", "copy"}
  <2>1. o.to \in Paths /\ tree[o.to] = Nothing /\ IsDir(Parent(o.to))
    BY <1>2 DEF Fits, Takes
  <2>2. PICK v \in Contents \cup {Dir} : tree' = [tree EXCEPT ![o.to] = v]
    <3>1. o.kind = "copy" => tree[o.from] \in Contents
      BY DEF Takes, IsFile
    <3> QED
      BY <1>1, <1>2, <3>1 DEF After
  <2>3. TreeOK' /\ Promised!Add(o.to, v) /\ Keeps
    BY <2>1, <2>2, AddKeeps, AddLosesNothing
  <2> QED
    BY <2>1, <2>3 DEF Promised!Change
<1>3. CASE o.kind = "upload"
  <2>1. o.to \in Paths /\ tree[o.to] # Dir /\ IsDir(Parent(o.to)) /\ tree' = [tree EXCEPT ![o.to] = ops]
    BY <1>3 DEF Fits, Takes, After
  <2>2. CASE tree[o.to] = Nothing
    <3>1. TreeOK' /\ Promised!Add(o.to, ops)
      BY <1>1, <2>1, <2>2, AddKeeps
    <3> QED
      BY <1>1, <1>3, <2>1, <3>1 DEF Promised!Change
  <2>3. CASE tree[o.to] # Nothing
    <3>1. tree[o.to] \in Contents
      BY <2>1, <2>3 DEF TreeOK
    <3>2. TreeOK' /\ Promised!Replace(o.to, ops)
      BY <1>1, <2>1, <3>1, ReplaceKeeps
    <3> QED
      BY <1>1, <1>3, <2>1, <3>2 DEF Promised!Change
  <2> QED
    BY <2>2, <2>3
<1>4. CASE o.kind \in {"rename", "move"}
  <2>1. /\ o.from \in Paths /\ o.to \in Paths /\ ~IsPrefix(o.from, o.to)
        /\ tree' = Promised!Relocated(o.from, o.to)
        /\ tree[o.from] # Nothing /\ IsDir(Parent(o.to))
    BY <1>4 DEF Fits, Takes, After, Renamable
  <2>2. tree[o.from] = Dir => Len(o.to) <= Len(o.from)
    <3>1. Len(o.to) \in Nat /\ Len(o.from) \in Nat
      BY <2>1, PathFacts
    <3> QED
      BY <1>4, <3>1 DEF Fits, Deeper
  <2>3. TreeOK'
    BY <2>1, RelocateKeeps
  <2>4. tree[o.to] = Nothing => Promised!Relocate(o.from, o.to) /\ Keeps
    BY <2>1, <2>2, RelocateIsPromised, RelocateLosesNothing
  <2> QED
    BY <1>4, <2>1, <2>3, <2>4 DEF Promised!Change
<1>5. CASE o.kind = "remove"
  <2>1. o.from \in Paths /\ tree[o.from] \in Contents /\ tree' = [tree EXCEPT ![o.from] = Nothing]
    BY <1>5 DEF Fits, Takes, IsFile, After
  <2>2. Children(o.from) = {}
    BY <1>1, <2>1, Barren DEF Children
  <2>3. TreeOK' /\ Promised!Erase(o.from)
    BY <1>1, <2>1, <2>2, EraseKeeps
  <2> QED
    BY <1>5, <2>1, <2>3 DEF Promised!Change
<1> QED
  BY <1>2, <1>3, <1>4, <1>5 DEF Fits, Ops, Kinds

\* The effect of an operation.
LEMMA EffectStep ==
  ASSUME ConstantsAssumption, TypeInv, NEW c \in Callers, Effect(c)
  PROVE  /\ TypeInv'
         /\ Alone => Alone' /\ [Promised!Change]_tree
         /\ Alone /\ call[c].kind \notin {"upload", "remove"} => Keeps
<1> DEFINE o == call[c]
<1>1. /\ o \in Ops /\ o.stage = "checked" /\ o # Idle /\ Fits(o) /\ ~Deeper(o) /\ o.changed = {}
      /\ ops' = ops /\ ops \in 1 .. MaxOps /\ cache' = cache
  BY DEF Effect, TypeInv, CallsFit, Idle, ConstantsAssumption
<1>2. PICK n : n = IF Takes(o) THEN [o EXCEPT !.stage = "done", !.changed = Invalidates(o)]
                   ELSE IF o.kind = "remove" /\ tree[o.from] = Dir
                   THEN [o EXCEPT !.stage = "removing"] ELSE Idle
  OBVIOUS
<1>3. Invalidates(o) \in SUBSET Levels
  BY <1>1, PathFacts DEF Invalidates, Fits
<1>4. /\ n \in Ops /\ n.stage # "checked" /\ call' = [call EXCEPT ![c] = n]
      /\ n.changed # {} => n.stage = "done"
      /\ \/ n = Idle
         \/ /\ n.kind = o.kind /\ n.from = o.from /\ n.to = o.to /\ n.stage \notin {"idle", "asked"}
            /\ n.stage = "removing" => n.kind = "remove"
  <2>1. CASE Takes(o)
    <3>1. n = [o EXCEPT !.stage = "done", !.changed = Invalidates(o)]
      BY <1>2, <2>1
    <3>2. n \in Ops /\ n.kind = o.kind /\ n.from = o.from /\ n.to = o.to /\ n.stage = "done"
      BY <1>1, <1>3, <3>1 DEF Ops
    <3>3. call' = [call EXCEPT ![c] = n]
      BY <2>1, <3>1 DEF Effect, TypeInv, CallsFit
    <3> QED
      BY <3>2, <3>3
  <2>2. CASE ~Takes(o) /\ o.kind = "remove" /\ tree[o.from] = Dir
    <3>1. n = [o EXCEPT !.stage = "removing"]
      BY <1>2, <2>2
    <3>2. /\ n \in Ops /\ n.kind = o.kind /\ n.from = o.from /\ n.to = o.to
          /\ n.stage = "removing" /\ n.changed = {}
      BY <1>1, <3>1 DEF Ops
    <3>3. call' = [call EXCEPT ![c] = n]
      BY <2>2, <3>1 DEF Effect, TypeInv, CallsFit
    <3> QED
      BY <2>2, <3>2, <3>3
  <2>3. CASE ~Takes(o) /\ ~(o.kind = "remove" /\ tree[o.from] = Dir)
    <3>1. n = Idle /\ Idle \in Ops /\ Idle.stage = "idle" /\ Idle.changed = {}
      BY <1>2, <2>3 DEF Idle, Ops
    <3>2. call' = [call EXCEPT ![c] = n]
      BY <2>3, <3>1 DEF Effect, Ended
    <3> QED
      BY <3>1, <3>2
  <2> QED
    BY <2>1, <2>2, <2>3
<1>5. CallsFit'
  BY <1>1, <1>4, CallGoesOn DEF TypeInv
<1>6. \/ tree' = tree
      \/ /\ TreeOK'
         /\ (o.kind \notin {"upload", "remove"} => tree[o.to] = Nothing) =>
              Promised!Change /\ (o.kind \notin {"upload", "remove"} => Keeps)
  <2>1. CASE Takes(o)
    <3>1. tree' = After(o)
      BY <2>1 DEF Effect
    <3> QED
      BY <1>1, <2>1, <3>1, TakenIsPromised DEF TypeInv
  <2>2. CASE ~Takes(o)
    BY <2>2 DEF Effect
  <2> QED
    BY <2>1, <2>2
<1>7. TypeInv'
  BY <1>1, <1>5, <1>6 DEF TypeInv, TreeOK, CacheOK, IsDir
<1>8. ASSUME Alone
      PROVE  /\ Alone' /\ [Promised!Change]_tree
             /\ o.kind \notin {"upload", "remove"} => Keeps
  <2>1. \A d \in Callers \ {c} : ~Midway(d)
    BY <1>1, <1>8 DEF Alone, Midway
  <2>2. Alone'
    BY <1>4, <1>8, <2>1, StaysAlone DEF TypeInv
  <2>3. o.kind \notin {"upload", "remove"} => tree[o.to] = Nothing
    BY <1>1, <1>8 DEF Alone
  <2> QED
    BY <1>6, <2>2, <2>3 DEF Keeps, Held
<1> QED
  BY <1>7, <1>8

\* A removal goes on: entry by entry, and last the directory, which is empty.
LEMMA RemoveStepStep ==
  ASSUME ConstantsAssumption, TypeInv, NEW c \in Callers, RemoveStep(c)
  PROVE  /\ TypeInv' /\ Fits(call[c]) /\ call[c].kind = "remove"
         /\ Alone => Alone' /\ [Promised!Change]_tree
<1> DEFINE o == call[c]
<1>1. /\ o \in Ops /\ o.stage = "removing" /\ o # Idle /\ Fits(o) /\ o.kind = "remove"
      /\ o.changed = {} /\ o.from \in Paths /\ ops' = ops /\ cache' = cache
  BY DEF RemoveStep, TypeInv, CallsFit, Fits, Idle
<1>3. Invalidates(o) \in SUBSET Levels
  BY <1>1, PathFacts DEF Invalidates
<1>4. [o EXCEPT !.stage = "done", !.changed = Invalidates(o)] \in Ops /\ Idle \in Ops
  BY <1>1, <1>3 DEF Ops, Idle
<1>5. \/ /\ \E p \in Children(o.from) : tree' = [tree EXCEPT ![p] = Nothing]
         /\ call' = call
      \/ /\ Children(o.from) = {} /\ tree[o.from] = Dir
         /\ tree' = [tree EXCEPT ![o.from] = Nothing]
         /\ call' = [call EXCEPT ![c] = [o EXCEPT !.stage = "done", !.changed = Invalidates(o)]]
      \/ tree' = tree /\ call' = [call EXCEPT ![c] = Idle]
  BY DEF RemoveStep, Ended, TypeInv, CallsFit
<1>6. PICK m \in Ops :
        /\ call' = [call EXCEPT ![c] = m] /\ m.stage # "checked"
        /\ m.changed # {} => m.stage = "done"
        /\ \/ m = Idle
           \/ /\ m.kind = o.kind /\ m.from = o.from /\ m.to = o.to
              /\ m.stage \notin {"idle", "asked"} /\ (m.stage = "removing" => m.kind = "remove")
  <2>1. CASE call' = call
    <3>1. call' = [call EXCEPT ![c] = o]
      BY <2>1 DEF TypeInv, CallsFit
    <3> QED
      BY <1>1, <3>1
  <2>2. CASE call' = [call EXCEPT ![c] = [o EXCEPT !.stage = "done", !.changed = Invalidates(o)]]
    <3>1. PICK m : m = [o EXCEPT !.stage = "done", !.changed = Invalidates(o)]
      OBVIOUS
    <3>2. m.kind = o.kind /\ m.from = o.from /\ m.to = o.to /\ m.stage = "done"
      BY <1>1, <3>1 DEF Ops
    <3> QED
      BY <1>4, <2>2, <3>1, <3>2
  <2>3. CASE call' = [call EXCEPT ![c] = Idle]
    <3>1. Idle.stage # "checked" /\ Idle.changed = {}
      BY DEF Idle
    <3> QED
      BY <1>4, <2>3, <3>1
  <2> QED
    BY <1>5, <2>1, <2>2, <2>3
<1>7. CallsFit'
  BY <1>1, <1>6, CallGoesOn DEF TypeInv
<1>8. tree' = tree \/ (TreeOK' /\ Promised!Change)
  <2>1. ASSUME NEW p \in Children(o.from), tree' = [tree EXCEPT ![p] = Nothing]
        PROVE  TreeOK' /\ Promised!Change
    <3>1. p \in Paths /\ tree[p] # Nothing /\ Parent(p) = o.from
      BY <2>1 DEF Children
    <3>2. Children(p) = {}
      BY <1>1, <3>1, InnerFacts, PathFacts DEF Children
    <3>3. TreeOK' /\ Promised!Erase(p)
      BY <2>1, <3>1, <3>2, EraseKeeps DEF TypeInv
    <3> QED
      BY <3>1, <3>3 DEF Promised!Change
  <2>2. ASSUME Children(o.from) = {}, tree[o.from] = Dir, tree' = [tree EXCEPT ![o.from] = Nothing]
        PROVE  TreeOK' /\ Promised!Change
    <3>1. tree[o.from] # Nothing
      BY <2>2 DEF ConstantsAssumption
    <3>2. TreeOK' /\ Promised!Erase(o.from)
      BY <1>1, <2>2, <3>1, EraseKeeps DEF TypeInv
    <3> QED
      BY <1>1, <3>2 DEF Promised!Change
  <2>3. \/ \E p \in Children(o.from) : tree' = [tree EXCEPT ![p] = Nothing]
        \/ Children(o.from) = {} /\ tree[o.from] = Dir /\ tree' = [tree EXCEPT ![o.from] = Nothing]
        \/ tree' = tree
    BY <1>5, Zenon
  <2> QED
    BY <2>1, <2>2, <2>3
<1>9. TypeInv'
  BY <1>1, <1>7, <1>8 DEF TypeInv, TreeOK, CacheOK, IsDir
<1>10. ASSUME Alone  PROVE Alone' /\ [Promised!Change]_tree
  <2>1. \A d \in Callers \ {c} : ~Midway(d)
    BY <1>1, <1>10 DEF Alone, Midway
  <2>2. Alone'
    BY <1>6, <1>10, <2>1, StaysAlone DEF TypeInv
  <2> QED
    BY <1>8, <2>2
<1> QED
  BY <1>1, <1>9, <1>10

\* What is cached is a level's entries.
LEMMA LevelIsEntries == ASSUME NEW l PROVE Level(l) \subseteq Entries
<1>1. ASSUME NEW p \in Children(l)  PROVE <<Last(p), tree[p] = Dir>> \in Entries
  <2>1. Last(p) \in Names /\ (tree[p] = Dir) \in BOOLEAN
    BY PathFacts DEF Children
  <2> QED
    BY <2>1 DEF Entries
<1> QED
  BY <1>1 DEF Level

\* The cache's steps leave the tree and the calls, but for the one that ends.
LEMMA CacheStep ==
  ASSUME ConstantsAssumption, TypeInv,
         \/ \E c \in Callers : Invalidate(c)
         \/ \E l \in Levels : List(l) \/ Expire(l)
  PROVE  TypeInv' /\ tree' = tree /\ (Alone => Alone')
<1>1. tree' = tree /\ ops' = ops
  BY DEF Invalidate, List, Expire
<1>2. ASSUME NEW c \in Callers, Invalidate(c)  PROVE TypeInv' /\ (Alone => Alone')
  <2>1. Idle \in Ops /\ Idle.stage = "idle" /\ Idle.changed = {}
    BY DEF Idle, Ops
  <2>2. call[c] # Idle /\ call[c].stage = "done" /\ call' = [call EXCEPT ![c] = Idle]
    BY <1>2, <2>1 DEF Invalidate, Ended
  <2>3. CallsFit'
    BY <1>1, <2>1, <2>2, CallGoesOn DEF TypeInv
  <2>4. CacheOK'
    <3>1. cache' = [l \in Levels |-> IF l \in call[c].changed THEN Nothing ELSE cache[l]]
      BY <1>2 DEF Invalidate
    <3> QED
      BY <3>1 DEF TypeInv, CacheOK
  <2>5. \A d \in Callers : call'[d] = call[d] \/ call'[d] = Idle
    BY <2>2 DEF TypeInv, CallsFit
  <2>6. Alone => Alone'
    BY <1>1, <2>1, <2>5 DEF Alone, Midway
  <2> QED
    BY <1>1, <2>3, <2>4, <2>6 DEF TypeInv, TreeOK, IsDir
<1>3. ASSUME NEW l \in Levels, List(l) \/ Expire(l)  PROVE TypeInv' /\ (Alone => Alone')
  <2>1. call' = call
    BY <1>3 DEF List, Expire
  <2>2. CacheOK'
    <3>1. CASE List(l)
      BY <3>1, LevelIsEntries DEF List, TypeInv, CacheOK
    <3>2. CASE Expire(l)
      BY <3>2 DEF Expire, TypeInv, CacheOK
    <3> QED
      BY <1>3, <3>1, <3>2
  <2> QED
    BY <1>1, <2>1, <2>2 DEF TypeInv, TreeOK, IsDir, CallsFit, Fits, Alone, Midway
<1> QED
  BY <1>1, <1>2, <1>3

-----------------------------------------------------------------------------
(* Every step. *)

\* The types are kept, whatever overlaps.
LEMMA StepTypes == ASSUME ConstantsAssumption, TypeInv, [Next]_vars PROVE TypeInv'
<1>1. ASSUME NEW c \in Callers, Check(c) \/ Effect(c) \/ RemoveStep(c)  PROVE TypeInv'
  BY <1>1, CheckStep, EffectStep, RemoveStepStep
<1>2. ASSUME NEW c \in Callers,
             \E k \in Kinds, p, q \in Paths \cup {Root} : Ask(c, k, p, q)
      PROVE  TypeInv'
  BY <1>2, AskStep
<1>3. ASSUME \/ \E c \in Callers : Invalidate(c)
             \/ \E l \in Levels : List(l) \/ Expire(l)
      PROVE  TypeInv'
  BY <1>3, CacheStep
<1>4. CASE UNCHANGED vars
  BY <1>4 DEF vars, TypeInv, TreeOK, IsDir, CallsFit, Fits, CacheOK
<1> QED
  BY <1>1, <1>2, <1>3, <1>4 DEF Next

\* A file that a step loses is one a removal or an upload was at work for.
Asked(v) == Held(v) /\ ~Held(v)' =>
  \E c \in Callers : /\ call[c].kind \in {"upload", "remove"}
                     /\ call[c].stage \in {"checked", "removing"}

\* Where no operation overlaps another's check and effect, every step is a promised
\* one or none, and only a removal's or an upload's loses a file.
LEMMA StepPromised ==
  ASSUME ConstantsAssumption, Overlap = FALSE, TypeInv, Alone, [Next]_vars
  PROVE  Alone' /\ [Promised!Change]_tree /\ \A v \in Contents : Asked(v)
<1>1. ASSUME NEW c \in Callers, Check(c)
      PROVE  Alone' /\ [Promised!Change]_tree /\ \A v \in Contents : Asked(v)
  BY <1>1, CheckStep DEF Asked, Keeps
<1>2. ASSUME NEW c \in Callers, Effect(c)
      PROVE  Alone' /\ [Promised!Change]_tree /\ \A v \in Contents : Asked(v)
  <2>1. call[c].stage = "checked"
    BY <1>2 DEF Effect
  <2> QED
    BY <1>2, <2>1, EffectStep DEF Asked, Keeps
<1>3. ASSUME NEW c \in Callers, RemoveStep(c)
      PROVE  Alone' /\ [Promised!Change]_tree /\ \A v \in Contents : Asked(v)
  <2>1. call[c].stage = "removing"
    BY <1>3 DEF RemoveStep
  <2> QED
    BY <1>3, <2>1, RemoveStepStep DEF Asked
<1>4. ASSUME tree' = tree  PROVE [Promised!Change]_tree /\ \A v \in Contents : Asked(v)
  BY <1>4 DEF Asked, Held
<1>5. ASSUME NEW c \in Callers,
             \E k \in Kinds, p, q \in Paths \cup {Root} : Ask(c, k, p, q)
      PROVE  Alone' /\ tree' = tree
  <2>1. tree' = tree
    BY <1>5 DEF Ask
  <2> QED
    BY <1>5, <2>1, AskStep
<1>6. ASSUME \/ \E c \in Callers : Invalidate(c)
             \/ \E l \in Levels : List(l) \/ Expire(l)
      PROVE  Alone' /\ tree' = tree
  BY <1>6, CacheStep
<1>7. CASE UNCHANGED vars
  BY <1>4, <1>7 DEF vars, Alone, Midway
<1> QED
  BY <1>1, <1>2, <1>3, <1>4, <1>5, <1>6, <1>7 DEF Next

\* The types hold of every behaviour.
LEMMA TypesHold == ASSUME ConstantsAssumption PROVE Spec => []TypeInv
<1>1. Init => TypeInv
  BY InitInv
<1>2. TypeInv /\ [Next]_vars => TypeInv'
  BY StepTypes
<1> QED
  BY <1>1, <1>2, PTL DEF Spec

-----------------------------------------------------------------------------
(* What is cached. *)

\* Directories are in the root; of the names in them none is a directory.
Shallow == \A p \in Paths : tree[p] = Dir => Len(p) = 1

\* An operation that changed a level has yet to invalidate it, or empties it.
Pending(l) == \E c \in Callers : \/ l \in call[c].changed
                                 \/ call[c].stage = "removing" /\ call[c].from = l
Current(l) == IsDir(l) /\ cache[l] # Nothing /\ ~Pending(l) => cache[l] = Level(l)

\* A level that is not the root is a path in the root.
LEMMA LevelFacts ==
  ASSUME NEW l \in Levels
  PROVE  l = Root \/ (l \in Paths /\ l # Root /\ Len(l) = 1 /\ Parent(l) = Root)
<1>1. ASSUME NEW n \in Names, l = <<n>>
      PROVE  l \in Paths /\ l # Root /\ Len(l) = 1 /\ Parent(l) = Root
  BY <1>1, ParentOf DEF Paths, Root
<1> QED
  BY <1>1 DEF Levels

\* Where a level's names keep what they stand for, the level is the same.
LEMMA LevelStays ==
  ASSUME NEW l, \A p \in Paths : Parent(p) = l => tree'[p] = tree[p]
  PROVE  Level(l)' = Level(l)
<1>1. Children(l)' = Children(l)
  BY DEF Children
<1>2. \A p \in Children(l) : <<Last(p), tree'[p] = Dir>> = <<Last(p), tree[p] = Dir>>
  BY DEF Children
<1> QED
  BY <1>1, <1>2 DEF Level

\* One name changes: the levels it is not in, and is not, stay.
LEMMA OneNameChanges ==
  ASSUME TreeOK, NEW p \in Paths, NEW v, tree' = [tree EXCEPT ![p] = v],
         NEW l \in Levels, l # Parent(p)
  PROVE  /\ Level(l)' = Level(l)
         /\ l # p => IsDir(l)' = IsDir(l)
<1>1. \A q \in Paths : q # p => tree'[q] = tree[q]
  BY DEF TreeOK
<1>2. \A q \in Paths : Parent(q) = l => tree'[q] = tree[q]
  BY <1>1
<1>3. l # p => IsDir(l)' = IsDir(l)
  BY <1>1, LevelFacts DEF IsDir
<1> QED
  BY <1>2, <1>3, LevelStays

\* What the file system takes shows in the levels that are invalidated.  A directory
\* takes its level along, to a name under which nothing is cached.
LEMMA TakenShows ==
  ASSUME ConstantsAssumption, TreeOK, Shallow, ops \in 1 .. MaxOps, NEW o \in Ops, Fits(o),
         ~Deeper(o), ~Reused(o), Takes(o), tree' = After(o)
  PROVE  /\ Shallow'
         /\ \A l \in Levels \ Invalidates(o) :
              cache[l] = Nothing \/ ~IsDir(l)' \/ (IsDir(l) /\ Level(l)' = Level(l))
<1>1. /\ ops \in Contents /\ Nothing \notin Contents /\ Dir \notin Contents /\ Dir # Nothing
      /\ tree \in [Paths -> Contents \cup {Dir, Nothing}]
  BY DEF Contents, ConstantsAssumption, TreeOK
<1>2. CASE o.kind \in {"file", "dir", "copy", "upload"}
  <2>1. o.to \in Paths /\ Parent(o.to) \in Invalidates(o)
    BY <1>2 DEF Fits, Invalidates
  <2>2. PICK v \in Contents \cup {Dir} :
          tree' = [tree EXCEPT ![o.to] = v] /\ (v = Dir => o.kind = "dir")
    <3>1. CASE o.kind = "dir"
      BY <3>1 DEF After
    <3>2. CASE o.kind \in {"file", "upload"}
      <4>1. tree' = [tree EXCEPT ![o.to] = ops]
        BY <3>2 DEF After
      <4> QED
        BY <1>1, <4>1
    <3>3. CASE o.kind = "copy"
      <4>1. tree[o.from] \in Contents /\ tree' = [tree EXCEPT ![o.to] = tree[o.from]]
        BY <3>3 DEF Takes, IsFile, After
      <4> QED
        BY <1>1, <4>1
    <3> QED
      BY <1>2, <3>1, <3>2, <3>3
  <2>3. tree'[o.to] = v /\ \A q \in Paths : q # o.to => tree'[q] = tree[q]
    BY <1>1, <2>1, <2>2
  <2>4. Shallow'
    BY <2>1, <2>2, <2>3 DEF Shallow, Fits
  <2>5. ASSUME NEW l \in Levels \ Invalidates(o)
        PROVE  cache[l] = Nothing \/ ~IsDir(l)' \/ (IsDir(l) /\ Level(l)' = Level(l))
    <3>1. CASE l = o.to
      <4>1. v = Dir => cache[l] = Nothing
        BY <2>2, <3>1 DEF Reused
      <4>2. l # Root
        BY <2>1, <3>1, PathFacts
      <4> QED
        BY <2>3, <3>1, <4>1, <4>2 DEF IsDir
    <3>2. CASE l # o.to
      <4>1. Level(l)' = Level(l) /\ IsDir(l)' = IsDir(l)
        BY <2>1, <2>2, <2>5, <3>2, OneNameChanges
      <4> QED
        BY <4>1
    <3> QED
      BY <3>1, <3>2
  <2> QED
    BY <2>4, <2>5
<1>3. CASE o.kind = "remove"
  <2>1. o.from \in Paths /\ tree' = [tree EXCEPT ![o.from] = Nothing] /\ Parent(o.from) \in Invalidates(o)
    BY <1>3 DEF Fits, After, Invalidates
  <2>2. Shallow'
    BY <1>1, <2>1 DEF Shallow
  <2>3. ASSUME NEW l \in Levels \ Invalidates(o)
        PROVE  ~IsDir(l)' \/ (IsDir(l) /\ Level(l)' = Level(l))
    <3>1. CASE l = o.from
      <4>1. l # Root /\ tree'[l] = Nothing
        BY <1>1, <2>1, <3>1, PathFacts
      <4> QED
        BY <1>1, <4>1 DEF IsDir
    <3>2. CASE l # o.from
      <4>1. Level(l)' = Level(l) /\ IsDir(l)' = IsDir(l)
        BY <2>1, <2>3, <3>2, OneNameChanges
      <4> QED
        BY <4>1
    <3> QED
      BY <3>1, <3>2
  <2> QED
    BY <2>2, <2>3
<1>4. CASE o.kind \in {"rename", "move"}
  <2> DEFINE p == o.from
             q == o.to
  <2>1. /\ p \in Paths /\ q \in Paths /\ p # q /\ tree' = Promised!Relocated(p, q)
        /\ Parent(q) # p /\ tree[p] # Nothing
    BY <1>4, PrefixFacts DEF Fits, Takes, After, Renamable
  <2>2. tree' = [r \in Paths |->
                   IF IsPrefix(q, r)
                   THEN IF Counterpart(p, q, r) \in Paths THEN tree[Counterpart(p, q, r)] ELSE Nothing
                   ELSE IF IsPrefix(p, r) THEN Nothing ELSE tree[r]]
    BY <2>1, SamePaths DEF Promised!Relocated, Counterpart
  <2>3. Parent(p) \in Invalidates(o) /\ Parent(q) \in Invalidates(o)
    BY <1>4 DEF Invalidates, Fits
  <2>4. tree[p] = Dir => o.kind = "rename" /\ Len(p) = 1 /\ Len(q) = 1
    <3>1. /\ tree[p] = Dir => Len(p) = 1
          /\ Len(q) \in {1, 2} /\ (Len(q) = 1 => Parent(q) = Root) /\ (Len(p) = 1 => Parent(p) = Root)
      BY <2>1, PathFacts DEF Shallow
    <3>2. CASE o.kind = "rename"
      BY <3>1, <3>2 DEF Fits
    <3>3. ASSUME o.kind = "move", tree[p] = Dir  PROVE FALSE
      <4>1. Parent(p) # Parent(q)
        BY <3>3 DEF Fits
      <4>2. Len(p) = 1 /\ ~(Len(q) > Len(p))
        BY <3>1, <3>3 DEF Deeper
      <4>3. Len(q) = 1
        BY SMTT(40), <3>1, <4>2
      <4> QED
        BY <3>1, <4>1, <4>2, <4>3
    <3> QED
      BY <1>4, <3>2, <3>3
  <2> HIDE DEF p, q
  <2>5. tree'[q] = tree[p]
    BY <2>1, <2>2, CounterpartFacts, PrefixFacts
  <2>6. ASSUME NEW r \in Paths, r # q, Parent(r) # q, r # p, Parent(r) # p
        PROVE  tree'[r] = tree[r]
    BY <2>1, <2>2, <2>6, PrefixFacts
  <2>7. ASSUME NEW r \in Paths, tree'[r] = Dir  PROVE Len(r) = 1
    <3>1. CASE r = q
      BY <2>4, <2>5, <2>7, <3>1
    <3>2. CASE Parent(r) = q
      <4>1. /\ Counterpart(p, q, r) \in Paths /\ tree[Counterpart(p, q, r)] = Dir
        BY <1>1, <2>1, <2>2, <2>7, <3>2, PrefixFacts
      <4>2. Parent(Counterpart(p, q, r)) = p
        BY <2>1, <3>2, <4>1, CounterpartFacts
      <4>3. Len(Counterpart(p, q, r)) = 2
        BY <2>1, <4>1, <4>2, InnerFacts
      <4> QED
        BY <4>1, <4>3 DEF Shallow
    <3>3. CASE r # q /\ Parent(r) # q
      <4>1. tree'[r] \in {Nothing, tree[r]}
        BY <2>1, <2>2, <3>3, PrefixFacts
      <4> QED
        BY <1>1, <2>7, <4>1 DEF Shallow
    <3> QED
      BY <3>1, <3>2, <3>3
  <2>8. ASSUME NEW l \in Levels \ Invalidates(o)
        PROVE  cache[l] = Nothing \/ ~IsDir(l)' \/ (IsDir(l) /\ Level(l)' = Level(l))
    <3>1. l # Parent(p) /\ l # Parent(q)
      BY <2>3, <2>8
    <3>2. CASE l = q
      <4>1. tree[p] = Dir => cache[l] = Nothing
        BY <2>4, <3>2 DEF Reused, p, q
      <4>2. l # Root
        BY <2>1, <3>2, PathFacts
      <4> QED
        BY <2>5, <3>2, <4>1, <4>2 DEF IsDir
    <3>3. CASE l = p
      <4>1. l # Root /\ Parent(p) = Root
        BY <2>1, <3>3, LevelFacts, PathFacts
      <4>2. Parent(p) # q
        BY <2>1, <4>1, PathFacts
      <4>3. tree'[p] = Nothing
        BY <2>1, <2>2, <4>2, PrefixFacts
      <4> QED
        BY <1>1, <3>3, <4>1, <4>3 DEF IsDir
    <3>4. CASE l # p /\ l # q
      <4>1. \A r \in Paths : Parent(r) = l => tree'[r] = tree[r]
        BY <2>6, <3>1, <3>4
      <4>2. Level(l)' = Level(l)
        BY <4>1, LevelStays
      <4>3. l = Root \/ tree'[l] = tree[l]
        <5>1. Root # p /\ Root # q
          BY <2>1, PathFacts
        <5> QED
          BY <2>6, <3>4, <5>1, LevelFacts
      <4> QED
        BY <4>2, <4>3 DEF IsDir
    <3> QED
      BY <3>2, <3>3, <3>4
  <2> QED
    BY <2>7, <2>8 DEF Shallow
<1> QED
  BY <1>2, <1>3, <1>4 DEF Fits, Ops, Kinds

\* A call's step leaves what the others have pending, and what it has itself.
LEMMA PendingStays ==
  ASSUME CallsFit, NEW c \in Callers, NEW o, call' = [call EXCEPT ![c] = o], NEW l,
         l \in call[c].changed => l \in o.changed,
         call[c].stage = "removing" /\ call[c].from = l => o.stage = "removing" /\ o.from = l,
         Pending(l)
  PROVE  Pending(l)'
<1>1. call'[c] = o /\ \A d \in Callers \ {c} : call'[d] = call[d]
  BY DEF CallsFit
<1>2. PICK d \in Callers : l \in call[d].changed \/ (call[d].stage = "removing" /\ call[d].from = l)
  BY DEF Pending
<1>3. CASE d = c
  BY <1>1, <1>2, <1>3 DEF Pending
<1>4. CASE d # c
  BY <1>1, <1>2, <1>4 DEF Pending
<1> QED
  BY <1>3, <1>4

\* A level stays current: emptied, no directory any more, or as it was.
LEMMA StaysCurrent ==
  ASSUME NEW l, Current(l),
         \/ cache'[l] = Nothing \/ ~IsDir(l)' \/ Pending(l)'
         \/ /\ cache'[l] = cache[l] /\ IsDir(l) /\ Level(l)' = Level(l)
            /\ Pending(l) => Pending(l)'
  PROVE  Current(l)'
  BY DEF Current

\* Where the tree stays, so do the levels.
LEMMA TreeStays ==
  ASSUME tree' = tree, NEW l
  PROVE  Level(l)' = Level(l) /\ IsDir(l)' = IsDir(l)
  BY DEF Level, Children, IsDir

CacheInv == Shallow /\ \A l \in Levels : Current(l)

\* An operation's effect leaves the levels current that it does not invalidate.
LEMMA EffectCurrent ==
  ASSUME ConstantsAssumption, Careless = FALSE, TypeInv, CacheInv, NEW c \in Callers, Effect(c)
  PROVE  CacheInv'
<1> DEFINE o == call[c]
<1>1. /\ o \in Ops /\ o.stage = "checked" /\ Fits(o) /\ ~Deeper(o) /\ ~Reused(o) /\ o.changed = {}
      /\ ops \in 1 .. MaxOps /\ cache' = cache /\ TreeOK /\ Shallow
  BY DEF Effect, TypeInv, CallsFit, Idle, ConstantsAssumption, CacheInv
<1>2. CASE Takes(o)
  <2>1. tree' = After(o)
    BY <1>2 DEF Effect
  <2>2. PICK n : n = [o EXCEPT !.stage = "done", !.changed = Invalidates(o)]
    OBVIOUS
  <2>3. call' = [call EXCEPT ![c] = n] /\ n.changed = Invalidates(o)
    BY <1>1, <1>2, <2>2 DEF Effect, TypeInv, CallsFit, Ops
  <2>4. /\ Shallow'
        /\ \A l \in Levels \ Invalidates(o) :
             cache[l] = Nothing \/ ~IsDir(l)' \/ (IsDir(l) /\ Level(l)' = Level(l))
    BY <1>1, <1>2, <2>1, TakenShows
  <2>5. ASSUME NEW l \in Levels  PROVE Current(l)'
    <3>1. CASE l \in Invalidates(o)
      <4>1. call'[c].changed = Invalidates(o)
        BY <2>3 DEF TypeInv, CallsFit
      <4>2. Pending(l)'
        BY <3>1, <4>1 DEF Pending
      <4> QED
        BY <4>2, StaysCurrent DEF CacheInv
    <3>2. CASE l \notin Invalidates(o)
      <4>1. Pending(l) => Pending(l)'
        BY <1>1, <2>3, PendingStays DEF TypeInv
      <4> QED
        BY <1>1, <2>4, <3>2, <4>1, StaysCurrent DEF CacheInv
    <3> QED
      BY <3>1, <3>2
  <2> QED
    BY <2>4, <2>5 DEF CacheInv
<1>3. CASE ~Takes(o)
  <2>1. tree' = tree
    BY <1>3 DEF Effect
  <2>2. PICK n : call' = [call EXCEPT ![c] = n]
    BY <1>3 DEF Effect, Ended
  <2>3. ASSUME NEW l \in Levels  PROVE Current(l)'
    <3>1. Pending(l) => Pending(l)'
      BY <1>1, <2>2, PendingStays DEF TypeInv
    <3>2. Level(l)' = Level(l) /\ IsDir(l)' = IsDir(l)
      BY <2>1, TreeStays
    <3> QED
      BY <1>1, <3>1, <3>2, StaysCurrent DEF CacheInv
  <2> QED
    BY <1>1, <2>1, <2>3 DEF CacheInv, Shallow
<1> QED
  BY <1>2, <1>3

\* A removal of a directory has its level pending until it is gone.
LEMMA RemoveCurrent ==
  ASSUME ConstantsAssumption, Careless = FALSE, TypeInv, CacheInv, NEW c \in Callers, RemoveStep(c)
  PROVE  CacheInv'
<1> DEFINE o == call[c]
<1>1. /\ o \in Ops /\ o.stage = "removing" /\ o.from \in Paths /\ o.changed = {} /\ o.kind = "remove"
      /\ cache' = cache /\ TreeOK /\ Shallow /\ Dir # Nothing
      /\ tree \in [Paths -> Contents \cup {Dir, Nothing}]
  BY DEF RemoveStep, TypeInv, TreeOK, CallsFit, Fits, Idle, CacheInv, ConstantsAssumption
<1>2. ASSUME NEW p \in Children(o.from), tree' = [tree EXCEPT ![p] = Nothing], call' = call
      PROVE  CacheInv'
  <2>1. p \in Paths /\ Parent(p) = o.from
    BY <1>2 DEF Children
  <2>2. ASSUME NEW l \in Levels  PROVE Current(l)'
    <3>1. Pending(l)' <=> Pending(l)
      BY <1>2 DEF Pending
    <3>2. CASE l = o.from
      <4>1. Pending(l)
        BY <1>1, <3>2 DEF Pending
      <4> QED
        BY <3>1, <4>1, StaysCurrent DEF CacheInv
    <3>3. CASE l # o.from
      <4>1. l # p
        BY <1>1, <2>1, InnerFacts, LevelFacts, PathFacts
      <4>2. Level(l)' = Level(l) /\ IsDir(l)' = IsDir(l)
        BY <1>1, <1>2, <2>1, <3>3, <4>1, OneNameChanges
      <4> QED
        BY <1>1, <3>1, <4>2, StaysCurrent DEF CacheInv
    <3> QED
      BY <3>2, <3>3
  <2>3. Shallow'
    BY <1>1, <1>2, <2>1 DEF Shallow
  <2> QED
    BY <2>2, <2>3 DEF CacheInv
<1>3. ASSUME tree' = [tree EXCEPT ![o.from] = Nothing],
             call' = [call EXCEPT ![c].stage = "done", ![c].changed = Invalidates(o)]
      PROVE  CacheInv'
  <2>1. PICK n : n = [o EXCEPT !.stage = "done", !.changed = Invalidates(o)]
    OBVIOUS
  <2>2. call' = [call EXCEPT ![c] = n] /\ n.changed = {Parent(o.from)}
    BY <1>1, <1>3, <2>1 DEF TypeInv, CallsFit, Ops, Invalidates
  <2>3. call'[c] = n
    BY <2>2 DEF TypeInv, CallsFit
  <2>4. ASSUME NEW l \in Levels  PROVE Current(l)'
    <3>1. CASE l = Parent(o.from)
      <4>1. Pending(l)'
        BY <2>2, <2>3, <3>1 DEF Pending
      <4> QED
        BY <4>1, StaysCurrent DEF CacheInv
    <3>2. CASE l = o.from
      <4>1. l # Root /\ tree'[l] = Nothing
        BY <1>1, <1>3, <3>2, PathFacts
      <4>2. ~IsDir(l)'
        BY <1>1, <4>1 DEF IsDir
      <4> QED
        BY <4>2, StaysCurrent DEF CacheInv
    <3>3. CASE l # Parent(o.from) /\ l # o.from
      <4>1. Pending(l) => Pending(l)'
        BY <1>1, <2>2, <3>3, PendingStays DEF TypeInv
      <4>2. Level(l)' = Level(l) /\ IsDir(l)' = IsDir(l)
        BY <1>1, <1>3, <3>3, OneNameChanges
      <4> QED
        BY <1>1, <4>1, <4>2, StaysCurrent DEF CacheInv
    <3> QED
      BY <3>1, <3>2, <3>3
  <2>5. Shallow'
    BY <1>1, <1>3 DEF Shallow
  <2> QED
    BY <2>4, <2>5 DEF CacheInv
<1>4. ASSUME tree[o.from] # Dir, tree' = tree, Ended(c)  PROVE CacheInv'
  <2>1. call' = [call EXCEPT ![c] = Idle]
    BY <1>4 DEF Ended
  <2>2. ASSUME NEW l \in Levels  PROVE Current(l)'
    <3>1. Level(l)' = Level(l) /\ IsDir(l)' = IsDir(l)
      BY <1>4, TreeStays
    <3>2. CASE l = o.from
      <4>1. ~IsDir(l)
        BY <1>1, <1>4, <3>2, PathFacts DEF IsDir
      <4> QED
        BY <3>1, <4>1, StaysCurrent DEF CacheInv
    <3>3. CASE l # o.from
      <4>1. Pending(l) => Pending(l)'
        BY <1>1, <2>1, <3>3, PendingStays DEF TypeInv
      <4> QED
        BY <1>1, <3>1, <4>1, StaysCurrent DEF CacheInv
    <3> QED
      BY <3>2, <3>3
  <2> QED
    BY <1>1, <1>4, <2>2 DEF CacheInv, Shallow
<1> QED
  BY <1>2, <1>3, <1>4 DEF RemoveStep

\* Every step keeps what is cached current.
LEMMA StepCurrent ==
  ASSUME ConstantsAssumption, Careless = FALSE, TypeInv, CacheInv, [Next]_vars
  PROVE  CacheInv'
<1>1. ASSUME tree' = tree, cache' = cache, \A l \in Levels : Pending(l) => Pending(l)'
      PROVE  CacheInv'
  <2>1. ASSUME NEW l \in Levels  PROVE Current(l)'
    <3>1. Level(l)' = Level(l) /\ IsDir(l)' = IsDir(l)
      BY <1>1, TreeStays
    <3> QED
      BY <1>1, <3>1, StaysCurrent DEF CacheInv
  <2> QED
    BY <1>1, <2>1 DEF CacheInv, Shallow
<1>2. ASSUME NEW c \in Callers, NEW k \in Kinds, NEW p \in Paths \cup {Root},
             NEW q \in Paths \cup {Root}, Ask(c, k, p, q)
      PROVE  CacheInv'
  <2>1. Idle.changed = {} /\ Idle.stage = "idle"
    BY DEF Idle
  <2>2. PICK n : call' = [call EXCEPT ![c] = n]
    BY <1>2 DEF Ask
  <2>3. \A l \in Levels : Pending(l) => Pending(l)'
    BY <1>2, <2>1, <2>2, PendingStays DEF Ask, TypeInv
  <2> QED
    BY <1>1, <1>2, <2>3 DEF Ask
<1>3. ASSUME NEW c \in Callers, Check(c)  PROVE CacheInv'
  <2>1. call[c].stage = "asked" /\ call[c].changed = {} /\ Fits(call[c])
    BY <1>3 DEF Check, TypeInv, CallsFit, Idle
  <2>2. PICK n : call' = [call EXCEPT ![c] = n]
    <3>1. CASE Refused(call[c])
      BY <1>3, <3>1 DEF Check, Ended
    <3>2. CASE ~Refused(call[c])
      BY <1>3, <3>2 DEF Check
    <3> QED
      BY <3>1, <3>2
  <2>3. \A l \in Levels : Pending(l) => Pending(l)'
    BY <2>1, <2>2, PendingStays DEF TypeInv
  <2>4. tree' = tree
    <3>1. ASSUME call[c].kind = "upload", Len(call[c].to) = 2  PROVE tree[Parent(call[c].to)] # Nothing
      <4>1. Parent(call[c].to) # Root
        BY <2>1, <3>1, PathFacts DEF Fits
      <4>2. IsDir(Parent(call[c].to))
        BY <1>3, <3>1 DEF Check
      <4> QED
        BY <4>1, <4>2 DEF IsDir, ConstantsAssumption
    <3> QED
      BY <1>3, <3>1 DEF Check
  <2> QED
    BY <1>1, <1>3, <2>3, <2>4 DEF Check
<1>4. ASSUME NEW c \in Callers, Invalidate(c)  PROVE CacheInv'
  <2>1. call[c].stage = "done" /\ tree' = tree /\ call' = [call EXCEPT ![c] = Idle]
    BY <1>4 DEF Invalidate, Ended
  <2>2. ASSUME NEW l \in Levels  PROVE Current(l)'
    <3>1. cache'[l] = IF l \in call[c].changed THEN Nothing ELSE cache[l]
      BY <1>4 DEF Invalidate
    <3>2. CASE l \in call[c].changed
      BY <3>1, <3>2, StaysCurrent DEF CacheInv
    <3>3. CASE l \notin call[c].changed
      <4>1. Pending(l) => Pending(l)'
        BY <2>1, <3>3, PendingStays DEF TypeInv
      <4>2. Level(l)' = Level(l) /\ IsDir(l)' = IsDir(l)
        BY <2>1, TreeStays
      <4> QED
        BY <3>1, <3>3, <4>1, <4>2, StaysCurrent DEF CacheInv
    <3> QED
      BY <3>2, <3>3
  <2> QED
    BY <2>1, <2>2 DEF CacheInv, Shallow
<1>5. ASSUME NEW m \in Levels, List(m) \/ Expire(m)  PROVE CacheInv'
  <2>1. tree' = tree /\ call' = call /\ cache \in [Levels -> (SUBSET Entries) \cup {Nothing}]
    BY <1>5 DEF List, Expire, TypeInv, CacheOK
  <2>2. PICK x : cache' = [cache EXCEPT ![m] = x] /\ (x = Nothing \/ x = Level(m))
    BY <1>5 DEF List, Expire
  <2>3. ASSUME NEW l \in Levels  PROVE Current(l)'
    <3>1. Level(l)' = Level(l) /\ IsDir(l)' = IsDir(l) /\ (Pending(l)' <=> Pending(l))
      BY <2>1, TreeStays DEF Pending
    <3>2. cache'[l] = IF l = m THEN x ELSE cache[l]
      BY <2>1, <2>2
    <3> QED
      BY <2>2, <3>1, <3>2 DEF CacheInv, Current
  <2> QED
    BY <2>1, <2>3 DEF CacheInv, Shallow
<1>6. CASE UNCHANGED vars
  <2>1. tree' = tree /\ cache' = cache /\ call' = call
    BY <1>6 DEF vars
  <2> QED
    BY <1>1, <2>1 DEF Pending
<1> QED
  BY <1>2, <1>3, <1>4, <1>5, <1>6, EffectCurrent, RemoveCurrent DEF Next

-----------------------------------------------------------------------------
(* The theorems. *)

\* Whatever operations overlap: what exists is in a directory, also while another
\* directory is removed or takes its name, and a cached level lists names.
THEOREM TypeCorrect == ASSUME ConstantsAssumption PROVE Spec => []TypeOK
<1>1. TypeInv => TypeOK
  BY TypesFollow
<1> QED
  BY <1>1, TypesHold, PTL

\* The operations implement the promise of their doc comments, step by step, if no
\* operation runs between another's check and its effect: a name is new or free
\* when it is taken, a directory goes as a whole or entry by entry, and a file is
\* lost only while an upload or a removal is at work.
THEOREM KeepsPromiseHolds ==
  ASSUME ConstantsAssumption, Overlap = FALSE
  PROVE  Spec => KeepsPromise
<1>1. Init => Alone /\ Promised!Init
  BY InitInv
<1>2. TypeInv /\ Alone /\ [Next]_vars => Alone'
  BY StepPromised
<1>3. TypeInv /\ Alone /\ [Next]_vars => [Promised!Next]_tree
  BY StepPromised DEF Promised!Next
<1>4. TypeInv /\ Alone /\ [Next]_vars =>
        [\A v \in Contents : Held(v) /\ ~Held(v)' =>
           \E c \in Callers : /\ call[c].kind \in {"upload", "remove"}
                              /\ call[c].stage \in {"checked", "removing"}]_vars
  BY StepPromised DEF Asked
<1> QED
  BY <1>1, <1>2, <1>3, <1>4, TypesHold, PTL
     DEF Spec, KeepsPromise, LosesOnlyAsked, Promised!Spec

\* A cached level is the level, whatever operations overlap, unless one that changed
\* it has yet to invalidate it: "a stale level is never served past the write that
\* changed it" (fs-tree.ts).  Not so of an upload that makes its directory, of a removal
\* that fails half way and of a directory's name that is used again (Careless).
THEOREM ListedIsCurrentHolds ==
  ASSUME ConstantsAssumption, Careless = FALSE
  PROVE  Spec => []ListedIsCurrent
<1>1. Init => CacheInv
  BY DEF Init, CacheInv, Shallow, Current, ConstantsAssumption
<1>2. TypeInv /\ CacheInv /\ [Next]_vars => CacheInv'
  BY StepCurrent
<1>3. CacheInv => ListedIsCurrent
  BY DEF CacheInv, Current, Pending, ListedIsCurrent
<1> QED
  BY <1>1, <1>2, <1>3, TypesHold, PTL DEF Spec

-----------------------------------------------------------------------------
(* The archive builds of ArchiveTasks, for any number of builds. *)

CONSTANTS Builds, MaxBuilding, FirstUse, LateTeardown
VARIABLES tool, phase, waited, tasks, old, temp, doomed, child, children, job, get, disposed

Archive == INSTANCE ArchiveTasks

\* What holds of a build in each of its phases.
BuildStages ==
  \A b \in Builds :
    /\ phase[b] \in {"idle", "probing"} =>
         tasks[b] = "none" /\ child[b] = "none" /\ b \notin temp /\ job[b] = "none"
    /\ phase[b] = "opening" =>
         tasks[b] \in {"none", "building"} /\ child[b] = "none" /\ b \notin temp
    /\ phase[b] = "packing" => tasks[b] \in {"none", "building"} /\ b \in temp \ doomed
    /\ phase[b] = "done" => tasks[b] # "building" /\ child[b] # "running"
    /\ tasks[b] = "ready" => b \in temp \ doomed
    /\ phase[b] = "probing" => b \in waited /\ tool = "unknown"
    /\ tasks[b] = "building" => tool = "found"

\* What was handed to a download is on offer, or was swept, or torn down.
BuildOffers ==
  \A b \in Builds :
    /\ job[b] = "saving" => phase[b] = "done" /\ get[b] = "none"
    /\ get[b] # "none" => phase[b] = "done" /\ job[b] = "over"
    /\ job[b] = "saving" \/ get[b] = "opening" => tasks[b] = "ready" \/ b \in old \/ disposed
    /\ get[b] = "refused" => b \in old \/ disposed

ArchiveInv == Archive!TypeOK /\ BuildStages /\ BuildOffers

LEMMA ArchiveInit == Archive!Init => ArchiveInv
BY DEF Archive!Init, ArchiveInv, Archive!TypeOK, BuildStages, BuildOffers

LEMMA ArchiveNext == ArchiveInv /\ [Archive!Next]_(Archive!vars) => ArchiveInv'
<1> SUFFICES ASSUME ArchiveInv,
    [Archive!Next]_(Archive!vars) PROVE Archive!TypeOK' /\ BuildStages' /\ BuildOffers'
  BY DEF ArchiveInv
<1> USE DEF ArchiveInv, Archive!Settled, Archive!client
<1>1. ASSUME NEW b \in Builds,
    Archive!Start(b) PROVE Archive!TypeOK' /\ BuildStages' /\ BuildOffers'
  <2>1. /\ phase[b] = "idle" /\ ~disposed /\ doomed' = doomed \cup Archive!FilesOf(Archive!Swept)
        /\ UNCHANGED <<tool, old, temp, child, children, get, disposed>>
    BY <1>1 DEF Archive!Start
  <2>2. CASE (Archive!LimitReached \/ tool = "missing") /\ Archive!Refuses({b}) /\ tasks' = Archive!Without(Archive!Swept) /\ UNCHANGED waited
    <3>1. Archive!TypeOK'
      BY <2>1, <2>2 DEF Archive!TypeOK, BuildStages, Archive!Without, Archive!FilesOf,
         Archive!Swept, Archive!Refuses
    <3>2. BuildStages'
      BY <2>1, <2>2 DEF Archive!TypeOK, BuildStages, Archive!Without, Archive!FilesOf,
         Archive!Swept, Archive!Refuses
    <3>3. BuildOffers'
      BY <2>1, <2>2 DEF Archive!TypeOK, BuildStages, BuildOffers, Archive!Without,
         Archive!FilesOf, Archive!Swept, Archive!Refuses
    <3> QED BY <3>1, <3>2, <3>3
  <2>3. CASE ~Archive!LimitReached /\ tool = "unknown" /\ tasks' = Archive!Without(Archive!Swept)
             /\ phase' = [phase EXCEPT ![b] = "probing"] /\ waited' = waited \cup {b} /\ UNCHANGED job
    <3>1. Archive!TypeOK'
      BY <2>1, <2>3 DEF Archive!TypeOK, BuildStages, Archive!Without, Archive!FilesOf, Archive!Swept
    <3>2. BuildStages'
      BY <2>1, <2>3 DEF Archive!TypeOK, BuildStages, Archive!Without, Archive!FilesOf, Archive!Swept
    <3>3. BuildOffers'
      BY <2>1, <2>3 DEF Archive!TypeOK, BuildStages, BuildOffers, Archive!Without,
         Archive!FilesOf, Archive!Swept
    <3> QED BY <3>1, <3>2, <3>3
  <2>4. CASE ~Archive!LimitReached /\ tool = "found" /\ Archive!Added({b})
             /\ tasks' = [Archive!Without(Archive!Swept) EXCEPT ![b] = "building"] /\ UNCHANGED waited
    <3>1. Archive!TypeOK'
      BY <2>1, <2>4 DEF Archive!TypeOK, BuildStages, Archive!Without, Archive!FilesOf,
         Archive!Swept, Archive!Added
    <3>2. BuildStages'
      BY <2>1, <2>4 DEF Archive!TypeOK, BuildStages, Archive!Without, Archive!FilesOf,
         Archive!Swept, Archive!Added
    <3>3. BuildOffers'
      BY <2>1, <2>4 DEF Archive!TypeOK, BuildStages, BuildOffers, Archive!Without,
         Archive!FilesOf, Archive!Swept, Archive!Added
    <3> QED BY <3>1, <3>2, <3>3
  <2> QED BY <1>1, <2>2, <2>3, <2>4 DEF Archive!Start
<1>2. ASSUME NEW b \in Builds,
    Archive!Spawn(b) PROVE Archive!TypeOK' /\ BuildStages' /\ BuildOffers'
  <2>1. Archive!TypeOK'
    BY <1>2 DEF Archive!TypeOK, BuildStages, Archive!Spawn
  <2>2. BuildStages'
    BY <1>2 DEF Archive!TypeOK, BuildStages, Archive!Spawn
  <2>3. BuildOffers'
    BY <1>2 DEF Archive!TypeOK, BuildStages, BuildOffers, Archive!Spawn
  <2> QED BY <2>1, <2>2, <2>3
<1>3. ASSUME NEW b \in Builds,
    Archive!Finish(b) PROVE Archive!TypeOK' /\ BuildStages' /\ BuildOffers'
  <2>1. Archive!TypeOK'
    BY <1>3 DEF Archive!TypeOK, BuildStages, Archive!Finish, Archive!Settle, Archive!Discarded
  <2>2. BuildStages'
    BY <1>3 DEF Archive!TypeOK, BuildStages, Archive!Finish, Archive!Settle, Archive!Discarded
  <2>3. BuildOffers'
    BY <1>3 DEF Archive!TypeOK, BuildStages, BuildOffers, Archive!Finish, Archive!Settle,
       Archive!Discarded
  <2> QED BY <2>1, <2>2, <2>3
<1>4. ASSUME NEW b \in Builds,
    Archive!Expire(b) PROVE Archive!TypeOK' /\ BuildStages' /\ BuildOffers'
  <2>1. Archive!TypeOK'
    BY <1>4 DEF Archive!TypeOK, BuildStages, Archive!Expire
  <2>2. BuildStages'
    BY <1>4 DEF Archive!TypeOK, BuildStages, Archive!Expire
  <2>3. BuildOffers'
    BY <1>4 DEF Archive!TypeOK, BuildStages, BuildOffers, Archive!Expire
  <2> QED BY <2>1, <2>2, <2>3
<1>5. ASSUME NEW b \in Builds,
    Archive!Unlink(b) PROVE Archive!TypeOK' /\ BuildStages' /\ BuildOffers'
  <2>1. Archive!TypeOK'
    BY <1>5 DEF Archive!TypeOK, BuildStages, Archive!Unlink
  <2>2. BuildStages'
    BY <1>5 DEF Archive!TypeOK, BuildStages, Archive!Unlink
  <2>3. BuildOffers'
    BY <1>5 DEF Archive!TypeOK, BuildStages, BuildOffers, Archive!Unlink
  <2> QED BY <2>1, <2>2, <2>3
<1>6. ASSUME NEW b \in Builds, Archive!Poll(b) PROVE Archive!TypeOK' /\ BuildStages' /\ BuildOffers'
  <2>1. Archive!TypeOK'
    BY <1>6 DEF Archive!TypeOK, BuildStages, Archive!Poll, Archive!Removed, Archive!Without,
       Archive!FilesOf, Archive!Swept
  <2>2. BuildStages'
    BY <1>6 DEF Archive!TypeOK, BuildStages, Archive!Poll, Archive!Removed, Archive!Without,
       Archive!FilesOf, Archive!Swept
  <2>3. BuildOffers'
    BY <1>6 DEF Archive!TypeOK, BuildStages, BuildOffers, Archive!Poll, Archive!Removed,
       Archive!Without, Archive!FilesOf, Archive!Swept
  <2> QED BY <2>1, <2>2, <2>3
<1>7. ASSUME NEW b \in Builds,
    Archive!Abandon(b) PROVE Archive!TypeOK' /\ BuildStages' /\ BuildOffers'
  <2>1. Archive!TypeOK'
    BY <1>7 DEF Archive!TypeOK, BuildStages, Archive!Abandon, Archive!table
  <2>2. BuildStages'
    BY <1>7 DEF Archive!TypeOK, BuildStages, Archive!Abandon, Archive!table
  <2>3. BuildOffers'
    BY <1>7 DEF Archive!TypeOK, BuildStages, BuildOffers, Archive!Abandon, Archive!table
  <2> QED BY <2>1, <2>2, <2>3
<1>8. ASSUME NEW b \in Builds, Archive!Get(b) PROVE Archive!TypeOK' /\ BuildStages' /\ BuildOffers'
  <2>1. Archive!TypeOK'
    BY <1>8 DEF Archive!TypeOK, BuildStages, Archive!Get, Archive!Looked, Archive!Removed,
       Archive!Without, Archive!FilesOf, Archive!Swept, Archive!table
  <2>2. BuildStages'
    BY <1>8 DEF Archive!TypeOK, BuildStages, Archive!Get, Archive!Looked, Archive!Removed,
       Archive!Without, Archive!FilesOf, Archive!Swept, Archive!table
  <2>3. BuildOffers'
    BY <1>8 DEF Archive!TypeOK, BuildStages, BuildOffers, Archive!Get, Archive!Looked,
       Archive!Removed, Archive!Without, Archive!FilesOf, Archive!Swept, Archive!table
  <2> QED BY <2>1, <2>2, <2>3
<1>9. ASSUME NEW b \in Builds,
    Archive!OpenStream(b) PROVE Archive!TypeOK' /\ BuildStages' /\ BuildOffers'
  <2>1. Archive!TypeOK'
    BY <1>9 DEF Archive!TypeOK, BuildStages, Archive!OpenStream, Archive!Removed, Archive!Without,
       Archive!FilesOf, Archive!table
  <2>2. BuildStages'
    BY <1>9 DEF Archive!TypeOK, BuildStages, Archive!OpenStream, Archive!Removed, Archive!Without,
       Archive!FilesOf, Archive!table
  <2>3. BuildOffers'
    BY <1>9 DEF Archive!TypeOK, BuildStages, BuildOffers, Archive!OpenStream, Archive!Removed,
       Archive!Without, Archive!FilesOf, Archive!table
  <2> QED BY <2>1, <2>2, <2>3
<1>10. ASSUME NEW b \in Builds,
    Archive!Served(b) PROVE Archive!TypeOK' /\ BuildStages' /\ BuildOffers'
  <2>1. Archive!TypeOK'
    BY <1>10 DEF Archive!TypeOK, BuildStages, Archive!Served, Archive!Removed, Archive!Without,
       Archive!FilesOf
  <2>2. BuildStages'
    BY <1>10 DEF Archive!TypeOK, BuildStages, Archive!Served, Archive!Removed, Archive!Without,
       Archive!FilesOf
  <2>3. BuildOffers'
    BY <1>10 DEF Archive!TypeOK, BuildStages, BuildOffers, Archive!Served, Archive!Removed,
       Archive!Without, Archive!FilesOf
  <2> QED BY <2>1, <2>2, <2>3
<1>11. ASSUME NEW b \in Builds, NEW opened \in BOOLEAN, Archive!StartFails(b, opened)
      PROVE  Archive!TypeOK' /\ BuildStages' /\ BuildOffers'
  <2>1. Archive!TypeOK'
    BY <1>11 DEF Archive!TypeOK, BuildStages, Archive!StartFails, Archive!Caught, Archive!Settle
  <2>2. BuildStages'
    BY <1>11 DEF Archive!TypeOK, BuildStages, Archive!StartFails, Archive!Caught, Archive!Settle
  <2>3. BuildOffers'
    BY <1>11 DEF Archive!TypeOK, BuildStages, BuildOffers, Archive!StartFails, Archive!Caught,
       Archive!Settle
  <2> QED BY <2>1, <2>2, <2>3
<1>12. ASSUME NEW b \in Builds, NEW how \in {"ok", "failed"}, Archive!ToolEnds(b, how)
      PROVE  Archive!TypeOK' /\ BuildStages' /\ BuildOffers'
  <2>1. Archive!TypeOK'
    BY <1>12 DEF Archive!TypeOK, BuildStages, Archive!ToolEnds, Archive!table
  <2>2. BuildStages'
    BY <1>12 DEF Archive!TypeOK, BuildStages, Archive!ToolEnds, Archive!table
  <2>3. BuildOffers'
    BY <1>12 DEF Archive!TypeOK, BuildStages, BuildOffers, Archive!ToolEnds, Archive!table
  <2> QED BY <2>1, <2>2, <2>3
<1>13. ASSUME NEW found \in BOOLEAN,
    Archive!Probed(found) PROVE Archive!TypeOK' /\ BuildStages' /\ BuildOffers'
  <2>1. Archive!TypeOK'
    BY <1>13 DEF Archive!TypeOK, BuildStages, Archive!Probed, Archive!Added, Archive!Refuses
  <2>2. BuildStages'
    BY <1>13 DEF Archive!TypeOK, BuildStages, Archive!Probed, Archive!Added, Archive!Refuses
  <2>3. BuildOffers'
    BY <1>13 DEF Archive!TypeOK, BuildStages, BuildOffers, Archive!Probed, Archive!Added,
       Archive!Refuses
  <2> QED BY <2>1, <2>2, <2>3
<1>14. CASE Archive!Dispose
  <2>1. Archive!TypeOK'
    BY <1>14 DEF Archive!TypeOK, BuildStages, Archive!Dispose, Archive!Removed, Archive!Without,
       Archive!FilesOf, Archive!Killed
  <2>2. BuildStages'
    BY <1>14 DEF Archive!TypeOK, BuildStages, Archive!Dispose, Archive!Removed, Archive!Without,
       Archive!FilesOf, Archive!Killed
  <2>3. BuildOffers'
    BY <1>14 DEF Archive!TypeOK, BuildStages, BuildOffers, Archive!Dispose, Archive!Removed,
       Archive!Without, Archive!FilesOf, Archive!Killed
  <2> QED BY <2>1, <2>2, <2>3
<1>15. CASE UNCHANGED Archive!vars
  <2>1. Archive!TypeOK'
    BY <1>15 DEF Archive!TypeOK, BuildStages, Archive!vars, Archive!table
  <2>2. BuildStages'
    BY <1>15 DEF Archive!TypeOK, BuildStages, Archive!vars, Archive!table
  <2>3. BuildOffers'
    BY <1>15 DEF Archive!TypeOK, BuildStages, BuildOffers, Archive!vars, Archive!table
  <2> QED BY <2>1, <2>2, <2>3
<1> QED BY <1>1, <1>2, <1>3, <1>4, <1>5, <1>6, <1>7, <1>8, <1>9, <1>10, <1>11, <1>12, <1>13,
    <1>14, <1>15 DEF Archive!Next

\* The invariant of every reachable state.
THEOREM ArchiveInvHolds == Archive!Spec => []ArchiveInv
BY ArchiveInit, ArchiveNext, PTL DEF Archive!Spec

\* The table, its builds and their clients keep their types
\* (archive-route.ts:150).
THEOREM ArchiveTypeCorrect == Archive!Spec => []Archive!TypeOK
BY ArchiveInvHolds, PTL DEF ArchiveInv

\* What a finished task offers is on disk and nobody is removing it; a download
\* the tree was promised is refused only for a task past its time, or after
\* teardown (archive-route.ts:278-330).
THEOREM DownloadsWorkHolds == Archive!Spec => []Archive!DownloadsWork
<1>1. ArchiveInv => Archive!DownloadsWork
  BY DEF ArchiveInv, BuildStages, BuildOffers, Archive!DownloadsWork
<1> QED BY <1>1, ArchiveInvHolds, PTL

-----------------------------------------------------------------------------
(* What teardown leaves behind, when it comes at a time that kills builds. *)

\* A build past its start is in the table until its tool has failed, teardown
\* knows its child, and its file is offered, written or under removal.
BuildOwned ==
  \A b \in Builds :
    /\ phase[b] = "opening" => tasks[b] = "building"
    /\ child[b] = "running" => b \in children /\ tasks[b] = "building" /\ phase[b] = "packing"
    /\ phase[b] = "packing" /\ tasks[b] # "building" => child[b] = "failed"
    /\ phase[b] = "packing" => child[b] # "none"
    /\ b \in temp => b \in doomed \/ tasks[b] = "ready" \/ phase[b] = "packing"

LEMMA OwnedNext ==
  ASSUME LateTeardown = FALSE, ArchiveInv, BuildOwned, [Archive!Next]_(Archive!vars)
  PROVE  BuildOwned'
<1> USE DEF ArchiveInv, Archive!TypeOK, BuildStages, BuildOwned, Archive!client
<1>1. ASSUME NEW b \in Builds, Archive!Start(b) PROVE BuildOwned'
  <2>1. /\ phase[b] = "idle" /\ doomed' = doomed \cup Archive!FilesOf(Archive!Swept)
        /\ UNCHANGED <<temp, child, children>>
    BY <1>1 DEF Archive!Start
  <2>2. CASE Archive!Refuses({b}) /\ tasks' = Archive!Without(Archive!Swept)
    BY <2>1, <2>2 DEF Archive!Refuses, Archive!Without, Archive!FilesOf, Archive!Swept,
       Archive!Settled
  <2>3. CASE phase' = [phase EXCEPT ![b] = "probing"] /\ tasks' = Archive!Without(Archive!Swept)
    BY <2>1, <2>3 DEF Archive!Without, Archive!FilesOf, Archive!Swept, Archive!Settled
  <2>4. CASE Archive!Added({b}) /\ tasks' = [Archive!Without(Archive!Swept) EXCEPT ![b] = "building"]
    BY <2>1, <2>4 DEF Archive!Added, Archive!Without, Archive!FilesOf, Archive!Swept,
       Archive!Settled
  <2> QED BY <1>1, <2>2, <2>3, <2>4 DEF Archive!Start
<1>2. ASSUME NEW b \in Builds, Archive!Spawn(b) PROVE BuildOwned'
  BY <1>2 DEF Archive!Spawn
<1>3. ASSUME NEW b \in Builds, Archive!Finish(b) PROVE BuildOwned'
  BY <1>3 DEF Archive!Finish, Archive!Settle, Archive!Discarded
<1>4. ASSUME NEW b \in Builds, Archive!Expire(b) PROVE BuildOwned'
  BY <1>4 DEF Archive!Expire, Archive!Settled
<1>5. ASSUME NEW b \in Builds, Archive!Unlink(b) PROVE BuildOwned'
  BY <1>5 DEF Archive!Unlink
<1>6. ASSUME NEW b \in Builds, Archive!Poll(b) PROVE BuildOwned'
  BY <1>6 DEF Archive!Poll, Archive!Removed, Archive!Without, Archive!FilesOf, Archive!Swept,
     Archive!Settled
<1>7. ASSUME NEW b \in Builds, Archive!Abandon(b) PROVE BuildOwned'
  BY <1>7 DEF Archive!Abandon, Archive!table
<1>8. ASSUME NEW b \in Builds, Archive!Get(b) PROVE BuildOwned'
  BY <1>8 DEF Archive!Get, Archive!Looked, Archive!Removed, Archive!Without, Archive!FilesOf,
     Archive!Swept, Archive!Settled, Archive!table
<1>9. ASSUME NEW b \in Builds, Archive!OpenStream(b) PROVE BuildOwned'
  BY <1>9 DEF Archive!OpenStream, BuildOffers, Archive!Removed, Archive!Without, Archive!FilesOf,
     Archive!table
<1>10. ASSUME NEW b \in Builds, Archive!Served(b) PROVE BuildOwned'
  BY <1>10 DEF Archive!Served, BuildOffers, Archive!Removed, Archive!Without, Archive!FilesOf
<1>11. ASSUME NEW b \in Builds, NEW opened \in BOOLEAN, Archive!StartFails(b,
    opened) PROVE BuildOwned'
  BY <1>11 DEF Archive!StartFails, Archive!Caught, Archive!Settle
<1>12. ASSUME NEW b \in Builds, NEW how \in {"ok", "failed"}, Archive!ToolEnds(b,
    how) PROVE BuildOwned'
  BY <1>12 DEF Archive!ToolEnds, Archive!table
<1>13. ASSUME NEW found \in BOOLEAN, Archive!Probed(found) PROVE BuildOwned'
  BY <1>13 DEF Archive!Probed, Archive!Added, Archive!Refuses
<1>14. CASE Archive!Dispose
  BY <1>14 DEF Archive!Dispose, Archive!Removed, Archive!Without, Archive!FilesOf, Archive!Killed
<1>15. CASE UNCHANGED Archive!vars
  BY <1>15 DEF Archive!vars, Archive!table
<1> QED BY <1>1, <1>2, <1>3, <1>4, <1>5, <1>6, <1>7, <1>8, <1>9, <1>10, <1>11, <1>12, <1>13,
    <1>14, <1>15 DEF Archive!Next

\* No temp file is left that nobody offers, writes or removes, and every tool
\* that runs is one teardown would kill (archive-route.ts:30-32), as long as
\* teardown does not come while a build awaits the probe, its file or its stat.
THEOREM NothingLeftHolds == ASSUME LateTeardown = FALSE PROVE Archive!Spec => []Archive!NothingLeft
<1>1. Archive!Init => BuildOwned
  BY DEF Archive!Init, BuildOwned
<1>2. ArchiveInv /\ BuildOwned /\ [Archive!Next]_(Archive!vars) => BuildOwned'
  BY OwnedNext
<1>3. Archive!TypeOK /\ BuildOwned => Archive!NothingLeft
  BY DEF Archive!TypeOK, BuildOwned, Archive!NothingLeft
<1> QED BY <1>1, <1>2, <1>3, ArchiveInvHolds, ArchiveTypeCorrect, PTL DEF Archive!Spec

-----------------------------------------------------------------------------
(* The cap on builds at a time. *)

\* Builds that never waited for the probe are under the cap, or all did.
Capped == Archive!CapRespected /\ (tool = "unknown" => Archive!Building = {})

LEMMA CappedNext ==
  ASSUME Archive!ConstantsAssumption, IsFiniteSet(Builds), ArchiveInv, Capped,
  [Archive!Next]_(Archive!vars)
  PROVE  Capped'
<1>c. \A S : Archive!Cardinality(S) = Cardinality(S)
  BY DEF Archive!Cardinality, Cardinality
<1>0. /\ IsFiniteSet(Archive!Building) /\ Cardinality(Archive!Building) \in Nat
      /\ MaxBuilding \in Nat
  BY FS_Subset, FS_CardinalityType DEF Archive!Building, Archive!ConstantsAssumption
<1>1. ASSUME Archive!Building' \subseteq Archive!Building, tool' = tool, waited \subseteq waited'
      PROVE  Capped'
  <2>1. IsFiniteSet(Archive!Building') /\ Cardinality(Archive!Building') \in Nat
           /\ Cardinality(Archive!Building') <= Cardinality(Archive!Building)
    BY <1>0, <1>1, FS_Subset, FS_CardinalityType
  <2>2. Archive!CapRespected'
    BY <1>0, <1>1, <1>c, <2>1 DEF Capped, Archive!CapRespected
  <2> QED BY <1>1, <2>2 DEF Capped
<1>2. ASSUME NEW b \in Builds, Archive!Start(b) PROVE Capped'
  <2>1. CASE tasks' = Archive!Without(Archive!Swept)
    <3>1. Archive!Building' \subseteq Archive!Building
      BY <2>1 DEF Archive!Building, Archive!Without, Archive!Swept, Archive!Settled, ArchiveInv,
         Archive!TypeOK
    <3> QED BY <1>1, <1>2, <3>1 DEF Archive!Start
  <2>2. CASE ~Archive!LimitReached /\ tool = "found"
             /\ tasks' = [Archive!Without(Archive!Swept) EXCEPT ![b] = "building"]
    <3>1. Archive!Building' \subseteq Archive!Building \cup {b}
      BY <2>2 DEF Archive!Building, Archive!Without, Archive!Swept, Archive!Settled, ArchiveInv,
         Archive!TypeOK
    <3>2. IsFiniteSet(Archive!Building \cup {b}) /\ Cardinality(Archive!Building \cup {b}) <= Cardinality(Archive!Building) + 1
      BY <1>0, FS_AddElement
    <3>3. Cardinality(Archive!Building') <= Cardinality(Archive!Building) + 1 /\ Cardinality(Archive!Building') \in Nat
      BY <1>0, <3>1, <3>2, FS_Subset, FS_CardinalityType
    <3>4. ~(Cardinality(Archive!Building') > MaxBuilding)
      BY <1>0, <1>c, <2>2, <3>3 DEF Archive!LimitReached
    <3> QED BY <1>2, <1>c, <2>2, <3>4 DEF Archive!Start, Capped, Archive!CapRespected
  <2> QED BY <1>2, <2>1, <2>2 DEF Archive!Start
<1>3. ASSUME NEW found \in BOOLEAN, Archive!Probed(found) PROVE Capped'
  <2>1. Archive!Building = {} /\ tool' # "unknown" /\ waited' = waited
    BY <1>3 DEF Archive!Probed, Capped
  <2>2. Archive!Building' \subseteq waited
    BY <1>3, <2>1 DEF Archive!Probed, Archive!Building, ArchiveInv, BuildStages
  <2> QED BY <2>1, <2>2 DEF Capped, Archive!CapRespected
<1>4. ASSUME NEW b \in Builds,
             \/ Archive!Spawn(b) \/ Archive!Finish(b) \/ Archive!Expire(b) \/ Archive!Unlink(b) \/ Archive!Poll(b) \/ Archive!Abandon(b)
             \/ Archive!Get(b) \/ Archive!OpenStream(b) \/ Archive!Served(b)
             \/ \E opened \in BOOLEAN : Archive!StartFails(b, opened)
             \/ \E how \in {"ok", "failed"} : Archive!ToolEnds(b, how)
      PROVE  Capped'
  <2>1. tool' = tool /\ waited' = waited
    BY <1>4 DEF Archive!Spawn, Archive!Finish, Archive!Expire, Archive!Unlink, Archive!Poll,
       Archive!Abandon, Archive!Get, Archive!OpenStream, Archive!Served,
                Archive!StartFails, Archive!ToolEnds
  <2>2. tasks' = tasks \/ (\E gone \in SUBSET Builds : tasks' = Archive!Without(gone))
        \/ (\E state \in {"ready", "error"} : Archive!Settle(b, state))
    BY <1>4 DEF Archive!Spawn, Archive!Finish, Archive!Expire, Archive!Unlink, Archive!Poll,
       Archive!Abandon, Archive!Get, Archive!OpenStream, Archive!Served, Archive!Looked,
                Archive!StartFails, Archive!ToolEnds, Archive!Caught, Archive!Removed,
                Archive!Swept, Archive!Settled, Archive!table
  <2>3. Archive!Building' \subseteq Archive!Building
    BY <2>2 DEF Archive!Building, Archive!Without, Archive!Settle, ArchiveInv, Archive!TypeOK
  <2> QED BY <1>1, <2>1, <2>3
<1>5. CASE Archive!Dispose
  <2>1. Archive!Building' \subseteq Archive!Building
    BY <1>5 DEF Archive!Dispose, Archive!Removed, Archive!Building, Archive!Without
  <2> QED BY <1>1, <1>5, <2>1 DEF Archive!Dispose
<1>6. CASE UNCHANGED Archive!vars
  BY <1>1, <1>6 DEF Archive!vars, Archive!table, Archive!Building
<1> QED BY <1>2, <1>3, <1>4, <1>5, <1>6 DEF Archive!Next

\* More than ARCHIVE_MAX_BUILDING builds run at a time only if every one of them
\* asked before the tool was known (archive-route.ts:248): the number was looked
\* at before the probe's await.
THEOREM CapRespectedHolds ==
  ASSUME Archive!ConstantsAssumption, IsFiniteSet(Builds)
  PROVE  Archive!Spec => []Archive!CapRespected
<1>1. Archive!Init => Capped
  <2> SUFFICES ASSUME Archive!Init PROVE Capped
    OBVIOUS
  <2>1. Archive!Building = {}
    BY DEF Archive!Init, Archive!Building
  <2>2. Archive!Cardinality({}) = 0
    BY FS_EmptySet DEF Archive!Cardinality, Cardinality
  <2> QED BY <2>1, <2>2 DEF Capped, Archive!CapRespected, Archive!ConstantsAssumption
<1>2. ArchiveInv /\ Capped /\ [Archive!Next]_(Archive!vars) => Capped'
  BY CappedNext
<1>3. Capped => Archive!CapRespected
  BY DEF Capped
<1> QED BY <1>1, <1>2, <1>3, ArchiveInvHolds, PTL DEF Archive!Spec

\* As long as teardown does not come while a build awaits: every tool and temp
\* file has its task, what is offered is there, and the cap holds but for builds
\* that passed it before the tool was known.
THEOREM ArchiveNothingRunsUnownedHolds ==
  ASSUME Archive!ConstantsAssumption, IsFiniteSet(Builds), LateTeardown = FALSE
  PROVE  Archive!Spec => []Archive!NothingRunsUnowned
<1>1. Archive!NothingLeft /\ Archive!DownloadsWork /\ Archive!CapRespected
        => Archive!NothingRunsUnowned
  BY DEF Archive!NothingRunsUnowned
<1> QED BY <1>1, NothingLeftHolds, DownloadsWorkHolds, CapRespectedHolds, PTL

-----------------------------------------------------------------------------
(***************************************************************************)
(* The history of the tree (TreeHistory), over the same promise of the     *)
(* host.  Its invariant says where the stacks lead: an operation is        *)
(* recorded with the tree it was performed on, the last of undo left the   *)
(* tree that is there, each other one the tree that the next was recorded  *)
(* with, and redo goes on from there the same way; a request under way     *)
(* stands between the two.  The trees are told apart by their copies, each *)
(* a content of its own, so that an undone copy is removed and nothing else.*)
(***************************************************************************)
CONSTANTS Tabs, Limit, Slots, LostAnswers, TabsOnCopies, MaxFailures
VARIABLES entries, undo, redo, request, tab, failures, removals
History == INSTANCE TreeHistory

\* Where there is room for a path.
Roomy(T, p) == Parent(p) = Root \/ T[Parent(p)] = Dir

Copied(T) == {T[p] : p \in Paths} \cap (History!Contents \ {History!Original})

\* A tree in which what exists is in a directory, with at most n copies.
Tree(T, n) ==
  /\ T \in [Paths -> History!Contents \cup {Dir, Nothing}]
  /\ \A p \in Paths : T[p] # Nothing => Roomy(T, p)
  /\ IsFiniteSet(Copied(T)) /\ Cardinality(Copied(T)) <= n

\* Relocated, of any tree.
Moves(T, p, q) ==
  [r \in Paths |->
     IF r = q \/ Parent(r) = q
     THEN IF Counterpart(p, q, r) \in Paths THEN T[Counterpart(p, q, r)] ELSE Nothing
     ELSE IF r = p \/ Parent(r) = p THEN Nothing ELSE T[r]]

Fresh(T) == CHOOSE n \in History!Contents \ {History!Original} : n \notin {T[p] : p \in Paths}

\* An operation as it is recorded could be performed on the tree it is recorded with.
Recorded(o, n) ==
  /\ Tree(o.before, n - 1)
  /\ o.before[o.from] # Nothing /\ o.before[o.to] = Nothing /\ Roomy(o.before, o.to)
  /\ \/ /\ o.kind \in {"rename", "move"}
        /\ o.from # o.to /\ Parent(o.to) # o.from
        /\ o.before[o.from] = Dir => Len(o.from) = Len(o.to)
     \/ o.kind = "copy"

\* The tree an operation leaves.
Outcome(o) ==
  IF o.kind = "copy" THEN [o.before EXCEPT ![o.to] = Fresh(o.before)]
  ELSE Moves(o.before, o.from, o.to)

\* On "undo" the operations lead to the tree one after the other, on "redo" they
\* lead on from it, the last first.
Near(o, d) == IF d = "undo" THEN Outcome(o) ELSE o.before
Far(o, d) == IF d = "undo" THEN o.before ELSE Outcome(o)
Chain(q, T, n, d) ==
  /\ q \in Seq(History!Ops)
  /\ \A i \in 1..Len(q) : Recorded(q[i], n)
  /\ \A i \in 1..Len(q) : Near(q[i], d) = IF i = Len(q) THEN T ELSE Far(q[i + 1], d)

\* What is under way: an undo has put its operation on redo, a redo on undo, and the
\* tree is still, or already, the one before it or after it.
Asking(r) ==
  /\ r \in History!Requests /\ Recorded(r.op, ops)
  /\ IF r.mode = "redo"
     THEN /\ Chain(undo, Outcome(r.op), ops, "undo") /\ Chain(redo, Outcome(r.op), ops, "redo")
          /\ undo # <<>> /\ Last(undo) = r.op
     ELSE /\ Chain(undo, r.op.before, ops, "undo") /\ Chain(redo, r.op.before, ops, "redo")
          /\ r.mode = "undo" => redo # <<>> /\ Last(redo) = r.op
  /\ entries = IF (r.mode = "undo") <=> (r.stage = "done") THEN r.op.before ELSE Outcome(r.op)

HistoryInv ==
  /\ ops \in 0..MaxOps /\ removals \in Nat /\ request = [s \in Slots |-> request[s]]
  /\ removals = 0 =>
       /\ Tree(entries, ops)
       /\ \A s \in Slots :
            IF request[s] = Nothing
            THEN Chain(undo, entries, ops, "undo") /\ Chain(redo, entries, ops, "redo")
            ELSE Asking(request[s])

\* The words of the tree's module, and of the promise under it, are those above.
LEMMA HostPaths ==
  /\ History!Paths = Paths
  /\ \A p, q : History!IsPrefix(p, q) <=> IsPrefix(p, q)
  /\ \A p, q : History!Host!IsPrefix(p, q) <=> IsPrefix(p, q)
  /\ \A p, q : History!Host!IsStrictPrefix(p, q) <=> IsPrefix(p, q) /\ p # q
  /\ \A p : History!Host!Parent(p) = Parent(p)
  /\ \A p : History!Front(p) = Front(p) /\ History!Last(p) = Last(p)
  BY DEF History!Paths, Paths, History!IsPrefix, IsPrefix, History!Host!IsPrefix,
         History!Host!IsStrictPrefix, IsStrictPrefix, History!Host!Parent, Parent,
         History!Host!Front, Front, History!Front, History!Last, Last

\* The promise's move of a path is Moves, on the tree as it is.
LEMMA HostRelocates ==
  ASSUME NEW p \in Paths, NEW q \in Paths
  PROVE  History!Host!Relocated(p, q) = Moves(entries, p, q)
<1>1. \A r \in Paths : IsPrefix(q, r) <=> r = q \/ Parent(r) = q
  BY PrefixFacts
<1>2. \A r \in Paths : IsPrefix(p, r) <=> r = p \/ Parent(r) = p
  BY PrefixFacts
<1> QED BY <1>1, <1>2, HostPaths DEF History!Host!Relocated, Moves, Counterpart

\* The counterpart's counterpart.
LEMMA CounterpartBack ==
  ASSUME NEW p \in Paths, NEW q \in Paths, NEW r \in Paths, Parent(r) = p, Len(q) = 1
  PROVE  /\ Counterpart(q, p, r) \in Paths /\ Parent(Counterpart(q, p, r)) = q
         /\ Counterpart(p, q, Counterpart(q, p, r)) = r
<1>1. Len(p) = 1 /\ Len(r) = 2
  BY InnerFacts
<1>2. PICK k \in Names, m \in Names : r = <<k, m>>
  BY <1>1 DEF Paths
<1>3. PICK n \in Names : q = <<n>>
  BY DEF Paths
<1>4. p = <<k>>
  BY <1>2, ParentOf
<1>5. Counterpart(q, p, r) = <<n, m>>
  <2>1. Len(p) + 1 = 2 /\ Len(r) = 2
    BY <1>1
  <2>2. Counterpart(q, p, r) = <<n>> \o SubSeq(<<k, m>>, 2, 2)
    BY <1>2, <1>3, <2>1 DEF Counterpart
  <2>3. SubSeq(<<k, m>>, 2, 2) = <<m>>
    BY Cuts
  <2>4. <<n>> \o <<m>> = <<n, m>>
    BY Cuts
  <2> QED BY <2>2, <2>3, <2>4
<1>6. Counterpart(p, q, <<n, m>>) = <<k, m>>
  <2>1. Len(q) + 1 = 2 /\ Len(<<n, m>>) = 2
    BY <1>3
  <2>2. Counterpart(p, q, <<n, m>>) = <<k>> \o SubSeq(<<n, m>>, 2, 2)
    BY <1>4, <2>1 DEF Counterpart
  <2>3. SubSeq(<<n, m>>, 2, 2) = <<m>>
    BY Cuts
  <2>4. <<k>> \o <<m>> = <<k, m>>
    BY Cuts
  <2> QED BY <2>2, <2>3, <2>4
<1>7. <<n, m>> \in Paths /\ Parent(<<n, m>>) = <<n>>
  BY ParentOf DEF Paths
<1> QED BY <1>2, <1>3, <1>5, <1>6, <1>7

\* Nothing is in what is free or a file.
LEMMA TreeBarren ==
  ASSUME NEW T, NEW n, Tree(T, n), Dir # Nothing, NEW p \in Paths, T[p] # Dir,
         NEW r \in Paths, Parent(r) = p
  PROVE  T[r] = Nothing
  BY PathFacts DEF Tree, Roomy

\* A tree some of whose copies are the only ones left has no more of them.
LEMMA FewerCopies ==
  ASSUME NEW T, NEW M, NEW n \in Int, IsFiniteSet(Copied(T)), Cardinality(Copied(T)) <= n,
         \A r \in Paths : M[r] = Nothing \/ \E s \in Paths : M[r] = T[s], Nothing \notin Nat
  PROVE  IsFiniteSet(Copied(M)) /\ Cardinality(Copied(M)) <= n
<1>1. Copied(M) \subseteq Copied(T)
  BY DEF Copied, History!Contents
<1>2. IsFiniteSet(Copied(M)) /\ Cardinality(Copied(M)) <= Cardinality(Copied(T))
  BY <1>1, FS_Subset
<1> QED BY <1>2, FS_CardinalityType

\* A relocation is undone by the one back.
LEMMA MovesBack ==
  ASSUME NEW T, NEW n \in Int, Tree(T, n), Dir # Nothing, Nothing \notin Nat,
         NEW p \in Paths, NEW q \in Paths, p # q, Parent(q) # p,
         T[p] # Nothing, T[q] = Nothing, Roomy(T, q), T[p] = Dir => Len(p) = Len(q),
         NEW M, M = Moves(T, p, q)
  PROVE  /\ Tree(M, n) /\ M[q] = T[p] /\ M[q] # Nothing /\ M[p] = Nothing /\ Roomy(M, p)
         /\ \A r \in Paths : Parent(r) = p => M[r] = Nothing
         /\ p # q /\ Parent(p) # q
         /\ Moves(M, q, p) = T
<1>1. /\ T \in [Paths -> History!Contents \cup {Dir, Nothing}]
      /\ \A r \in Paths : T[r] # Nothing => Roomy(T, r)
  BY DEF Tree
<1>2. Parent(p) # q
  <2>1. T[q] # Dir
    OBVIOUS
  <2>2. Roomy(T, p) /\ q # Root
    BY <1>1, PathFacts
  <2> QED BY <2>1, <2>2 DEF Roomy
<1>3. \A r \in Paths : Parent(r) = q => T[r] = Nothing
  BY TreeBarren
<1>4. M[q] = T[p]
  BY CounterpartFacts DEF Moves
<1>5. \A r \in Paths : r # q /\ Parent(r) # q =>
        M[r] = IF r = p \/ Parent(r) = p THEN Nothing ELSE T[r]
  BY DEF Moves
<1>6. \A r \in Paths : Parent(r) = q =>
        M[r] = IF Counterpart(p, q, r) \in Paths THEN T[Counterpart(p, q, r)] ELSE Nothing
  BY DEF Moves
<1>7. M \in [Paths -> History!Contents \cup {Dir, Nothing}]
  BY <1>1 DEF Moves
<1>8. M[p] = Nothing /\ \A r \in Paths : Parent(r) = p => M[r] = Nothing
  <2>1. M[p] = Nothing
    BY <1>2, <1>5
  <2>2. ASSUME NEW r \in Paths, Parent(r) = p PROVE M[r] = Nothing
    <3>1. r # q
      BY <2>2
    <3> QED BY <1>5, <2>2, <3>1
  <2> QED BY <2>1, <2>2
<1>9. ASSUME NEW x \in Paths, Roomy(T, x), Parent(x) # p, Parent(x) # q
      PROVE  Roomy(M, x)
  <2>1. CASE Parent(x) = Root
    BY <2>1 DEF Roomy
  <2>2. CASE Parent(x) # Root
    <3>1. Parent(x) \in Paths /\ Parent(Parent(x)) = Root
      BY <2>2, PathFacts
    <3>2. Root \notin Paths
      BY PathFacts
    <3>3. M[Parent(x)] = T[Parent(x)]
      BY <1>5, <1>9, <3>1, <3>2
    <3> QED BY <1>9, <2>2, <3>3 DEF Roomy
  <2> QED BY <2>1, <2>2
<1>10. Roomy(M, p) /\ Roomy(M, q)
  <2>1. Roomy(T, p)
    BY <1>1
  <2>2. Parent(p) # p /\ Parent(q) # q
    BY InnerFacts
  <2> QED BY <1>2, <1>9, <2>1, <2>2
<1>11. ASSUME NEW r \in Paths, M[r] # Nothing PROVE Roomy(M, r)
  <2>1. CASE r = q
    BY <1>10, <2>1
  <2>2. CASE Parent(r) = q
    <3>1. Counterpart(p, q, r) \in Paths /\ T[Counterpart(p, q, r)] # Nothing
      BY <1>6, <1>11, <2>2
    <3>2. Parent(Counterpart(p, q, r)) = p
      BY <2>2, <3>1, CounterpartFacts
    <3>3. T[p] = Dir
      BY <3>1, <3>2, TreeBarren
    <3> QED BY <1>4, <2>2, <3>3 DEF Roomy
  <2>3. CASE r # q /\ Parent(r) # q
    <3>1. r # p /\ Parent(r) # p /\ T[r] # Nothing
      BY <1>5, <1>11, <2>3
    <3> QED BY <1>1, <1>9, <2>3, <3>1
  <2> QED BY <2>1, <2>2, <2>3
<1>12. \A r \in Paths : M[r] = Nothing \/ \E s \in Paths : M[r] = T[s]
  BY <1>4, <1>5, <1>6
<1>13. Tree(M, n)
  BY <1>7, <1>11, <1>12, FewerCopies DEF Tree
<1>14. ASSUME NEW r \in Paths
       PROVE  T[r] = IF r = p \/ Parent(r) = p
                     THEN IF Counterpart(q, p, r) \in Paths
                          THEN M[Counterpart(q, p, r)] ELSE Nothing
                     ELSE IF r = q \/ Parent(r) = q THEN Nothing ELSE M[r]
  <2>1. CASE r = p
    <3>1. Counterpart(q, p, p) = q
      BY CounterpartFacts
    <3> QED BY <1>4, <2>1, <3>1
  <2>2. CASE Parent(r) = p /\ T[p] = Dir
    <3>1. r # p /\ Len(p) = 1 /\ Len(q) = 1
      BY <2>2, InnerFacts
    <3>2. /\ Counterpart(q, p, r) \in Paths /\ Parent(Counterpart(q, p, r)) = q
          /\ Counterpart(p, q, Counterpart(q, p, r)) = r
      BY <2>2, <3>1, CounterpartBack
    <3>3. M[Counterpart(q, p, r)] = T[r]
      BY <1>6, <3>2
    <3> QED BY <2>2, <3>2, <3>3
  <2>3. CASE Parent(r) = p /\ T[p] # Dir
    <3>1. T[r] = Nothing
      BY <2>3, TreeBarren
    <3>2. ASSUME Counterpart(q, p, r) \in Paths PROVE M[Counterpart(q, p, r)] = Nothing
      <4>1. Parent(Counterpart(q, p, r)) = q
        BY <2>3, <3>2, CounterpartFacts
      <4>2. M[q] # Dir
        BY <1>4, <2>3
      <4> QED BY <1>13, <3>2, <4>1, <4>2, TreeBarren
    <3> QED BY <2>3, <3>1, <3>2
  <2>4. CASE r # p /\ Parent(r) # p /\ (r = q \/ Parent(r) = q)
    BY <1>3, <2>4
  <2>5. CASE r # p /\ Parent(r) # p /\ r # q /\ Parent(r) # q
    BY <1>5, <2>5
  <2> QED BY <2>1, <2>2, <2>3, <2>4, <2>5
<1>15. Moves(M, q, p) = T
  BY <1>1, <1>14 DEF Moves
<1> QED BY <1>2, <1>4, <1>8, <1>10, <1>13, <1>15

\* There is a content for one more copy,
LEMMA FreshIsNew ==
  ASSUME NEW T, NEW n \in 1..MaxOps, Tree(T, n - 1), MaxOps \in Nat
  PROVE  Fresh(T) \in History!Contents \ {History!Original}
<1>1. Cardinality(Copied(T)) <= n - 1 /\ Cardinality(Copied(T)) \in Nat
  BY FS_CardinalityType DEF Tree
<1>2. \E k \in History!Contents \ {History!Original} : k \notin {T[p] : p \in Paths}
  <2>1. SUFFICES ASSUME History!Contents \ {History!Original} \subseteq {T[p] : p \in Paths}
                 PROVE  FALSE
    OBVIOUS
  <2>2. Copied(T) = 2..(MaxOps + 1)
    <3>1. Copied(T) = History!Contents \ {History!Original}
      BY <2>1 DEF Copied
    <3>2. History!Contents \ {History!Original} = 2..(MaxOps + 1)
      BY DEF History!Contents, History!Original
    <3> QED BY <3>1, <3>2
  <2>3. Cardinality(2..(MaxOps + 1)) = MaxOps
    <3>1. PICK a \in Int, b \in Int : a = 2 /\ b = MaxOps + 1
      OBVIOUS
    <3>2. Cardinality(a..b) = IF a > b THEN 0 ELSE b - a + 1
      BY FS_Interval
    <3> QED BY <3>1, <3>2
  <2> QED BY <1>1, <2>2, <2>3
<1> QED BY <1>2 DEF Fresh

\* which the copy's removal takes away again.
LEMMA CopyBack ==
  ASSUME NEW T, NEW n \in 1..MaxOps, Tree(T, n - 1), Dir \notin Nat, Nothing \notin Nat,
         Dir # Nothing, MaxOps \in Nat,
         NEW q \in Paths, T[q] = Nothing, Roomy(T, q), NEW M, M = [T EXCEPT ![q] = Fresh(T)]
  PROVE  /\ Tree(M, n) /\ M[q] # Nothing
         /\ [r \in Paths |-> IF r = q \/ Parent(r) = q THEN Nothing ELSE M[r]] = T
<1>1. /\ T \in [Paths -> History!Contents \cup {Dir, Nothing}]
      /\ \A r \in Paths : T[r] # Nothing => Roomy(T, r)
      /\ IsFiniteSet(Copied(T)) /\ Cardinality(Copied(T)) <= n - 1
      /\ Cardinality(Copied(T)) \in Nat
  BY FS_CardinalityType DEF Tree
<1>3. Fresh(T) \in History!Contents \ {History!Original}
  BY FreshIsNew
<1>4. PICK f : f = Fresh(T)
  OBVIOUS
<1>5. f \in History!Contents /\ f # Nothing /\ f # Dir
  BY <1>3, <1>4 DEF History!Contents
<1>6. M = [T EXCEPT ![q] = f] /\ M[q] = f /\ \A r \in Paths : r # q => M[r] = T[r]
  BY <1>1, <1>4
<1>7. M \in [Paths -> History!Contents \cup {Dir, Nothing}]
  BY <1>1, <1>5, <1>6
<1>8. \A r \in Paths : Parent(r) = q => T[r] = Nothing
  BY TreeBarren
<1>9. ASSUME NEW r \in Paths, M[r] # Nothing PROVE Roomy(M, r)
  <2>1. Roomy(T, r) /\ Parent(r) # q
    BY <1>1, <1>6, <1>8, <1>9, InnerFacts
  <2>2. CASE Parent(r) = Root
    BY <2>2 DEF Roomy
  <2>3. CASE Parent(r) # Root
    <3>1. Parent(r) \in Paths
      BY <2>3, PathFacts
    <3> QED BY <1>6, <2>1, <2>3, <3>1 DEF Roomy
  <2> QED BY <2>2, <2>3
<1>10. IsFiniteSet(Copied(M)) /\ Cardinality(Copied(M)) <= n
  <2>1. Copied(M) \subseteq Copied(T) \cup {f}
    BY <1>6 DEF Copied
  <2>2. /\ IsFiniteSet(Copied(T) \cup {f})
        /\ Cardinality(Copied(T) \cup {f}) <= Cardinality(Copied(T)) + 1
    <3>1. PICK S : S = Copied(T)
      OBVIOUS
    <3>2. /\ IsFiniteSet(S \cup {f})
          /\ Cardinality(S \cup {f}) = IF f \in S THEN Cardinality(S) ELSE Cardinality(S) + 1
      BY <1>1, <3>1, FS_AddElement
    <3> QED BY <1>1, <3>1, <3>2
  <2>3. IsFiniteSet(Copied(M)) /\ Cardinality(Copied(M)) <= Cardinality(Copied(T) \cup {f})
        /\ Cardinality(Copied(M)) \in Nat /\ Cardinality(Copied(T) \cup {f}) \in Nat
    BY <2>1, <2>2, FS_Subset, FS_CardinalityType
  <2> QED BY <1>1, <2>2, <2>3
<1>11. [r \in Paths |-> IF r = q \/ Parent(r) = q THEN Nothing ELSE M[r]] = T
  BY <1>1, <1>6, <1>8
<1> QED BY <1>5, <1>6, <1>7, <1>9, <1>10, <1>11 DEF Tree

\* A bound on the copies may grow.
LEMMA MoreCopies ==
  ASSUME NEW T, NEW n \in Int, NEW m \in Int, n <= m, Tree(T, n)
  PROVE  Tree(T, m)
<1>1. Cardinality(Copied(T)) \in Nat
  BY FS_CardinalityType DEF Tree
<1> QED BY <1>1 DEF Tree

\* What has room and what is free in the promise, of a tree.
LEMMA SpaceWords ==
  ASSUME NEW p \in Paths
  PROVE  /\ History!Host!HasRoom(p) <=> Roomy(entries, p)
         /\ History!Host!Free(p) <=> \A r \in Paths : r = p \/ Parent(r) = p => entries[r] = Nothing
<1>1. History!Host!HasRoom(p) <=> Roomy(entries, p)
  <2>1. History!Host!Parent(p) = Parent(p)
    BY HostPaths
  <2>2. Len(p) > 1 <=> Parent(p) # Root
    <3>1. CASE Len(p) = 1
      BY <3>1, PathFacts
    <3>2. CASE Len(p) = 2
      <4>1. Parent(p) \in Paths
        BY <3>2, PathFacts
      <4>2. Parent(p) # Root
        BY <4>1, PathFacts
      <4> QED BY <3>2, <4>2
    <3> QED BY <3>1, <3>2, PathFacts
  <2> QED BY <2>1, <2>2 DEF History!Host!HasRoom, Roomy
<1>2. \A r \in Paths : r \in History!Host!Under(p) \cup {p} <=> r = p \/ Parent(r) = p
  BY HostPaths, PrefixFacts DEF History!Host!Under
<1>3. History!Host!Under(p) \subseteq Paths
  BY HostPaths DEF History!Host!Under
<1> QED BY <1>1, <1>2, <1>3 DEF History!Host!Free

\* What is recorded can be performed on the tree it is recorded with, and gives its
\* outcome; and the inverse on its outcome, which gives the tree back.
LEMMA Forward ==
  ASSUME History!ConstantsAssumption, NEW o \in History!Ops, NEW n \in 1..MaxOps, Recorded(o, n),
         entries = o.before
  PROVE  History!Can(o) /\ History!Result(o) = Outcome(o)
<1>0. o.from \in Paths /\ o.to \in Paths
  BY HostPaths DEF History!Ops
<1>1. Dir # Nothing
  BY DEF History!ConstantsAssumption
<1>2. /\ entries[o.to] # Dir /\ entries[o.to] = Nothing /\ entries[o.from] # Nothing
      /\ Tree(entries, n - 1)
      /\ Roomy(entries, o.to)
  BY <1>1 DEF Recorded
<1>3. \A r \in Paths : Parent(r) = o.to => entries[r] = Nothing
  BY <1>0, <1>1, <1>2, TreeBarren
<1>4. History!Can(o)
  BY <1>0, <1>2, <1>3, SpaceWords DEF History!Can
<1>5. CASE o.kind \in {"rename", "move"}
  <2>1. History!Result(o) = History!Host!Relocated(o.from, o.to)
    BY <1>5 DEF History!Result
  <2>2. History!Host!Relocated(o.from, o.to) = Moves(entries, o.from, o.to)
    BY <1>0, HostRelocates
  <2> QED BY <1>4, <1>5, <2>1, <2>2 DEF Outcome
<1>6. CASE o.kind = "copy"
  <2>1. History!Result(o) = [entries EXCEPT ![o.to] = Fresh(entries)]
    BY <1>6 DEF History!Result, Fresh, History!Paths, Paths
  <2> QED BY <1>4, <1>6, <2>1 DEF Outcome
<1> QED BY <1>4, <1>5, <1>6 DEF Recorded

\* What an operation leaves is a tree, with one copy more at most.
LEMMA OutcomeIsTree ==
  ASSUME History!ConstantsAssumption, NEW o \in History!Ops, NEW n \in 1..MaxOps, Recorded(o, n)
  PROVE  Tree(Outcome(o), n) /\ Tree(o.before, n)
<1>0. o.from \in Paths /\ o.to \in Paths /\ MaxOps \in Nat
  BY HostPaths DEF History!Ops, History!ConstantsAssumption
<1>1. Dir # Nothing /\ Nothing \notin Nat /\ Dir \notin Nat
  BY DEF History!ConstantsAssumption
<1>2. Tree(o.before, n - 1) /\ Tree(o.before, n)
  BY <1>0, MoreCopies DEF Recorded
<1>3. CASE o.kind = "copy"
  BY <1>0, <1>1, <1>2, <1>3, CopyBack DEF Recorded, Outcome
<1>4. CASE o.kind # "copy"
  BY <1>0, <1>1, <1>2, <1>4, MovesBack DEF Recorded, Outcome
<1> QED BY <1>2, <1>3, <1>4

\* On the tree that an operation left, its inverse is possible and restores.
LEMMA Backward ==
  ASSUME History!ConstantsAssumption, NEW o \in History!Ops, NEW n \in 1..MaxOps, Recorded(o, n),
         entries = Outcome(o), NEW r, r.mode = "undo", r.op = o
  PROVE  History!Can(History!Wanted(r)) /\ History!Result(History!Wanted(r)) = o.before
<1>0. o.from \in Paths /\ o.to \in Paths /\ MaxOps \in Nat
  BY HostPaths DEF History!Ops, History!ConstantsAssumption
<1>1. Dir # Nothing /\ Nothing \notin Nat /\ Dir \notin Nat
  BY DEF History!ConstantsAssumption
<1>2. Tree(o.before, n - 1) /\ Tree(o.before, n)
  BY <1>0, MoreCopies DEF Recorded
<1>3. CASE o.kind = "copy"
  <2>1. PICK i : i = History!Wanted(r)
    OBVIOUS
  <2>2. i.kind = "remove" /\ i.from = o.to /\ i.to = o.to
    BY <1>3, <2>1 DEF History!Wanted, History!Ops
  <2>3. /\ entries[o.to] # Nothing
        /\ [p \in Paths |-> IF p = o.to \/ Parent(p) = o.to THEN Nothing ELSE entries[p]] = o.before
    BY <1>0, <1>1, <1>3, CopyBack DEF Recorded, Outcome
  <2>4. \A p \in Paths : History!IsPrefix(o.to, p) <=> p = o.to \/ Parent(p) = o.to
    BY <1>0, HostPaths, PrefixFacts
  <2>5. History!Result(i) =
          [p \in Paths |-> IF History!IsPrefix(o.to, p) THEN Nothing ELSE entries[p]]
    BY <2>2, HostPaths DEF History!Result
  <2>6. History!Result(i) = o.before
    BY <2>3, <2>4, <2>5
  <2>7. History!Can(i)
    BY <2>2, <2>3 DEF History!Can
  <2> QED BY <2>1, <2>6, <2>7
<1>4. CASE o.kind # "copy"
  <2>1. PICK i : i = History!Wanted(r)
    OBVIOUS
  <2>2. i.kind = o.kind /\ i.from = o.to /\ i.to = o.from /\ o.kind \in {"rename", "move"}
    BY <1>4, <2>1 DEF History!Wanted, History!Ops, Recorded
  <2>3. entries = Moves(o.before, o.from, o.to)
    BY <1>4 DEF Outcome
  <2>4. /\ entries[o.to] # Nothing /\ entries[o.from] = Nothing /\ Roomy(entries, o.from)
        /\ \A p \in Paths : Parent(p) = o.from => entries[p] = Nothing
        /\ Moves(entries, o.to, o.from) = o.before
    BY <1>0, <1>1, <1>2, <1>4, <2>3, MovesBack DEF Recorded
  <2>5. History!Result(i) = Moves(entries, o.to, o.from)
    BY <1>0, <2>2, HostRelocates DEF History!Result
  <2>6. History!Can(i)
    BY <1>0, <2>2, <2>4, SpaceWords DEF History!Can
  <2> QED BY <2>1, <2>4, <2>5, <2>6
<1> QED BY <1>3, <1>4

-----------------------------------------------------------------------------
\* The last operation of a stack leads to the tree, the others to its far side.
LEMMA ChainLast ==
  ASSUME NEW q, NEW T, NEW n, NEW d \in {"undo", "redo"}, Chain(q, T, n, d), q # <<>>
  PROVE  /\ Last(q) \in History!Ops /\ Recorded(Last(q), n) /\ T = Near(Last(q), d)
         /\ Chain(Front(q), Far(Last(q), d), n, d)
<1>1. PICK S : S = History!Ops
  OBVIOUS
<1>2. q \in Seq(S) /\ Len(q) \in Nat /\ Len(q) # 0
  BY <1>1 DEF Chain
<1>3. PICK f : f = Front(q)
  OBVIOUS
<1>4. /\ f \in Seq(S) /\ Len(f) = Len(q) - 1
      /\ \A i \in 1..Len(f) : f[i] = q[i]
  <2>0. Len(q) - 1 \in 0..Len(q)
    BY <1>2
  <2>1. PICK k \in 0..Len(q) : k = Len(q) - 1
    BY <2>0
  <2>2. f = SubSeq(q, 1, k)
    BY <1>3, <2>1 DEF Front
  <2>3. f \in Seq(S) /\ Len(f) = k
    BY <1>2, <2>1, <2>2
  <2>4. \A i \in 1..k : f[i] = q[i]
    BY <1>2, <2>1, <2>2
  <2> QED BY <2>1, <2>3, <2>4
<1>5. Last(q) = q[Len(q)] /\ Len(q) \in 1..Len(q)
  BY <1>2 DEF Last
<1>6. q[Len(q)] \in S
  BY <1>2, <1>5
<1>7. Recorded(q[Len(q)], n) /\ T = Near(q[Len(q)], d)
  BY <1>5 DEF Chain
<1>8. ASSUME NEW i \in 1..Len(f)
      PROVE  /\ Recorded(f[i], n)
             /\ Near(f[i], d) = IF i = Len(f) THEN Far(Last(q), d) ELSE Far(f[i + 1], d)
  <2>1. i \in 1..Len(q) /\ i # Len(q) /\ f[i] = q[i]
    BY <1>2, <1>4
  <2>2. Recorded(q[i], n) /\ Near(q[i], d) = Far(q[i + 1], d)
    BY <2>1 DEF Chain
  <2>3. CASE i = Len(f)
    <3>1. i + 1 = Len(q)
      BY <1>2, <1>4, <2>3
    <3> QED BY <1>5, <2>1, <2>2, <2>3, <3>1
  <2>4. CASE i # Len(f)
    <3>1. i + 1 \in 1..Len(f)
      BY <1>2, <1>4, <2>4
    <3>2. f[i + 1] = q[i + 1]
      BY <1>4, <3>1
    <3> QED BY <2>1, <2>2, <2>4, <3>2
  <2> QED BY <2>3, <2>4
<1>9. Chain(f, Far(Last(q), d), n, d)
  BY <1>1, <1>4, <1>8 DEF Chain
<1> QED BY <1>1, <1>3, <1>5, <1>6, <1>7, <1>9

\* An operation that leads on from where a stack leads may be pushed.
LEMMA ChainMore ==
  ASSUME NEW q, NEW n, NEW d \in {"undo", "redo"}, NEW o \in History!Ops, Recorded(o, n),
         Chain(q, Far(o, d), n, d)
  PROVE  /\ Chain(Append(q, o), Near(o, d), n, d)
         /\ Append(q, o) # <<>> /\ Last(Append(q, o)) = o /\ Front(Append(q, o)) = q
<1>1. PICK S : S = History!Ops
  OBVIOUS
<1>2. q \in Seq(S) /\ Len(q) \in Nat /\ o \in S
  BY <1>1 DEF Chain
<1>3. PICK m : m = Append(q, o)
  OBVIOUS
<1>4. /\ m \in Seq(S) /\ Len(m) = Len(q) + 1 /\ m[Len(q) + 1] = o
      /\ \A i \in 1..Len(q) : m[i] = q[i]
  BY <1>2, <1>3
<1>5. m # <<>> /\ Last(m) = o
  <2>1. \A a \in Seq(S) : Len(a) > 0 => a # <<>>
    OBVIOUS
  <2> QED BY <1>2, <1>4, <2>1 DEF Last
<1>6. Front(m) = q
  <2>1. PICK v : v = SubSeq(m, 1, Len(q))
    OBVIOUS
  <2>2. v \in Seq(S) /\ Len(v) = Len(q) /\ \A i \in 1..Len(q) : v[i] = q[i]
    BY <1>2, <1>4, <2>1
  <2>3. \A a, b \in Seq(S) : Len(a) = Len(b) /\ (\A i \in 1..Len(a) : a[i] = b[i]) => a = b
    OBVIOUS
  <2>4. v = q
    BY <1>2, <2>2, <2>3
  <2> QED BY <1>2, <1>4, <2>1, <2>4 DEF Front
<1>7. ASSUME NEW i \in 1..Len(m)
      PROVE  /\ Recorded(m[i], n)
             /\ Near(m[i], d) = IF i = Len(m) THEN Near(o, d) ELSE Far(m[i + 1], d)
  <2>1. CASE i = Len(m)
    BY <1>4, <2>1
  <2>2. CASE i # Len(m)
    <3>1. i \in 1..Len(q) /\ m[i] = q[i]
      BY <1>2, <1>4, <2>2
    <3>2. Recorded(q[i], n) /\ Near(q[i], d) = IF i = Len(q) THEN Far(o, d) ELSE Far(q[i + 1], d)
      BY <3>1 DEF Chain
    <3>3. CASE i = Len(q)
      BY <1>4, <2>2, <3>1, <3>2, <3>3
    <3>4. CASE i # Len(q)
      <4>1. i + 1 \in 1..Len(q)
        BY <1>2, <3>1, <3>4
      <4> QED BY <1>4, <2>2, <3>1, <3>2, <3>4, <4>1
    <3> QED BY <3>3, <3>4
  <2> QED BY <2>1, <2>2
<1>8. Chain(m, Near(o, d), n, d)
  BY <1>1, <1>4, <1>7 DEF Chain
<1> QED BY <1>3, <1>5, <1>6, <1>8

\* A stack that loses its oldest operation (the cap of undo.ts) still leads there.
LEMMA ChainTail ==
  ASSUME NEW q, NEW T, NEW n, NEW d \in {"undo", "redo"}, Chain(q, T, n, d), q # <<>>
  PROVE  Chain(Tail(q), T, n, d)
<1>1. PICK S : S = History!Ops
  OBVIOUS
<1>2. q \in Seq(S) /\ Len(q) \in Nat /\ Len(q) # 0
  BY <1>1 DEF Chain
<1>3. PICK f : f = Tail(q)
  OBVIOUS
<1>4. /\ f \in Seq(S) /\ Len(f) = Len(q) - 1
      /\ \A i \in 1..Len(f) : f[i] = q[i + 1]
  BY <1>2, <1>3
<1>5. ASSUME NEW i \in 1..Len(f)
      PROVE  Recorded(f[i], n) /\ Near(f[i], d) = IF i = Len(f) THEN T ELSE Far(f[i + 1], d)
  <2>1. i + 1 \in 1..Len(q) /\ f[i] = q[i + 1] /\ (i = Len(f) <=> i + 1 = Len(q))
    BY <1>2, <1>4
  <2>2. /\ Recorded(q[i + 1], n)
        /\ Near(q[i + 1], d) = IF i + 1 = Len(q) THEN T ELSE Far(q[(i + 1) + 1], d)
    BY <2>1 DEF Chain
  <2>3. i # Len(f) => f[i + 1] = q[(i + 1) + 1]
    BY <1>2, <1>4
  <2> QED BY <2>1, <2>2, <2>3
<1> QED BY <1>1, <1>3, <1>4, <1>5 DEF Chain

\* What was recorded stays so when more operations have been performed.
LEMMA ChainLater ==
  ASSUME NEW q, NEW T, NEW n \in Int, NEW m \in Int, n <= m, NEW d, Chain(q, T, n, d)
  PROVE  Chain(q, T, m, d)
<1>1. ASSUME NEW o, Recorded(o, n) PROVE Recorded(o, m)
  <2>1. Tree(o.before, m - 1)
    BY <1>1, MoreCopies DEF Recorded
  <2> QED BY <1>1, <2>1 DEF Recorded
<1> QED BY <1>1 DEF Chain

\* An empty stack leads anywhere.
LEMMA NoChain == ASSUME NEW T, NEW n, NEW d PROVE Chain(<<>>, T, n, d)
  BY DEF Chain

\* What has just been put on a stack is what comes off.
LEMMA TakesBack ==
  ASSUME NEW q, NEW S, q \in Seq(S), q # <<>>
  PROVE  History!Without(q, Last(q)) = Front(q)
<1>1. Len(q) \in Nat /\ Len(q) # 0 /\ Last(q) = q[Len(q)]
  BY DEF Last
<1>2. PICK k : k = Len(q)
  OBVIOUS
<1>3. Last(q) \in History!ToSet(q)
  BY <1>1 DEF History!ToSet
<1>4. History!SelectLastInSeq(q, LAMBDA e : e = Last(q)) = k
  <2>1. PICK I : I = {i \in 1..Len(q) : q[i] = Last(q)}
    OBVIOUS
  <2>2. k \in I /\ \A i \in I : i <= k
    BY <1>1, <1>2, <2>1
  <2>3. (CHOOSE x \in I : \A y \in I : x >= y) = k
    BY <1>1, <1>2, <2>1, <2>2
  <2>4. History!Max(I) = k
    BY <2>3 DEF History!Max
  <2> QED BY <2>1, <2>2, <2>4 DEF History!SelectLastInSeq
<1>5. History!RemoveAt(q, k) = SubSeq(q, 1, k - 1)
  <2>1. SubSeq(q, k + 1, Len(q)) = <<>>
    BY <1>1, <1>2
  <2> QED BY <1>1, <1>2, <2>1 DEF History!RemoveAt
<1> QED BY <1>2, <1>3, <1>4, <1>5 DEF History!Without, Front

-----------------------------------------------------------------------------
\* The empty history of a tree of a file and a directory.
LEMMA HistoryInit == ASSUME History!ConstantsAssumption, History!Init PROVE HistoryInv
<1>0. MaxOps \in Nat /\ Dir # Nothing /\ Dir \notin Nat /\ Nothing \notin Nat
  BY DEF History!ConstantsAssumption
<1>1. PICK file \in Names, dir \in Names :
        entries = [p \in Paths |->
            IF p = <<file>> THEN History!Original ELSE IF p = <<dir>> THEN Dir ELSE Nothing]
  BY HostPaths DEF History!Init
<1>2. undo = <<>> /\ redo = <<>> /\ ops = 0 /\ removals = 0
      /\ request = [s \in Slots |-> Nothing]
  BY DEF History!Init
<1>3. History!Original \in History!Contents /\ History!Original # Nothing
  BY <1>0 DEF History!Original, History!Contents
<1>4. entries \in [Paths -> History!Contents \cup {Dir, Nothing}]
  BY <1>1, <1>3
<1>5. \A p \in Paths : entries[p] # Nothing => Roomy(entries, p)
  BY <1>1, ParentOf DEF Roomy
<1>6. Copied(entries) = {}
  BY <1>0, <1>1 DEF Copied, History!Contents
<1>7. Tree(entries, ops)
  BY <1>2, <1>4, <1>5, <1>6, FS_EmptySet DEF Tree
<1>8. Chain(undo, entries, ops, "undo") /\ Chain(redo, entries, ops, "redo")
  BY <1>2, NoChain
<1>9. ops \in 0..MaxOps /\ removals \in Nat
  BY <1>0, <1>2
<1> QED BY <1>2, <1>7, <1>8, <1>9 DEF HistoryInv

\* One request at a time.
OneSlot == \A s, t \in Slots : s = t

\* What has to be shown of a step that asks, and of one that answers.
LEMMA Asks1 ==
  ASSUME OneSlot, History!ConstantsAssumption, NEW s \in Slots, NEW r,
         request = [t \in Slots |-> request[t]],
         History!Ask(s, r), ops' \in 0..MaxOps, removals' \in Nat,
         removals' = 0 => Tree(entries', ops') /\ Asking(r)'
  PROVE  HistoryInv'
<1>1. removals' = 0 => r # Nothing
  BY DEF History!ConstantsAssumption, Asking
<1>2. request' = [t \in Slots |-> request'[t]] /\ \A t \in Slots : request'[t] = r
  BY DEF History!Ask, OneSlot
<1> QED BY <1>1, <1>2 DEF HistoryInv

\* A step after which the only request is answered.
LEMMA Answers1 ==
  ASSUME OneSlot, History!ConstantsAssumption, NEW s \in Slots,
         request = [t \in Slots |-> request[t]],
         History!Ask(s, Nothing), ops' \in 0..MaxOps, removals' \in Nat,
         removals' = 0 => /\ Tree(entries', ops')
                          /\ Chain(undo', entries', ops', "undo")
                          /\ Chain(redo', entries', ops', "redo")
  PROVE  HistoryInv'
<1>2. request' = [t \in Slots |-> request'[t]] /\ \A t \in Slots : request'[t] = Nothing
  BY DEF History!Ask, OneSlot
<1> QED BY <1>2 DEF HistoryInv

\* A request as it is asked.
LEMMA NewRequest ==
  ASSUME NEW o \in History!Ops, NEW m \in {"do", "undo", "redo"},
         NEW g \in {"asked", "done", "failed"}
  PROVE  [mode |-> m, op |-> o, stage |-> g] \in History!Requests
  BY DEF History!Requests

\* What a user asks for.
Sensible(o) ==
  /\ o.kind \in {"rename", "move", "copy", "remove"} /\ o.from \in Paths /\ o.to \in Paths
  /\ o.kind \in {"rename", "move"} =>
       /\ o.from # o.to /\ Parent(o.to) # o.from
       /\ entries[o.from] = Dir => Len(o.from) = Len(o.to)

\* An operation of the user: it is possible now, and its request has it.
LEMMA PerformStep ==
  ASSUME OneSlot, History!ConstantsAssumption, HistoryInv, NEW s \in Slots, NEW o,
         Sensible(o), o = History!Op(o.kind, o.from, o.to), History!Perform(s, o)
  PROVE  HistoryInv'
<1>1. /\ request[s] = Nothing /\ ops < MaxOps /\ History!Can(o) /\ ops' = ops + 1
      /\ removals' = removals + (IF o.kind = "remove" THEN 1 ELSE 0)
      /\ History!Ask(s, [mode |-> "do", op |-> o, stage |-> "asked"])
      /\ entries' = entries /\ undo' = undo /\ redo' = redo
  BY DEF History!Perform
<1>2. ops \in Nat /\ ops' \in 1..MaxOps /\ removals' \in Nat /\ MaxOps \in Nat
      /\ (removals' = 0 => removals = 0 /\ o.kind # "remove")
  BY <1>1 DEF HistoryInv, History!ConstantsAssumption
<1>3. o.before = entries
  BY DEF History!Op
<1>4. ASSUME removals' = 0
      PROVE  Tree(entries', ops') /\ Asking([mode |-> "do", op |-> o, stage |-> "asked"])'
  <2>1. Tree(entries, ops) /\ Chain(undo, entries, ops, "undo") /\ Chain(redo, entries, ops, "redo")
    BY <1>1, <1>2, <1>4 DEF HistoryInv
  <2>2. Tree(entries, ops')
    BY <1>1, <1>2, <2>1, MoreCopies
  <2>3. Chain(undo, entries, ops', "undo") /\ Chain(redo, entries, ops', "redo")
    BY <1>1, <1>2, <2>1, ChainLater
  <2>4. o \in History!Ops
    <3>1. entries \in [Paths -> History!Contents \cup {Dir, Nothing}]
      BY <2>1 DEF Tree
    <3>2. o = [kind |-> o.kind, from |-> o.from, to |-> o.to, before |-> entries]
      BY DEF History!Op
    <3> QED BY <3>1, <3>2, HostPaths DEF Sensible, History!Ops
  <2>5. Recorded(o, ops')
    <3>1. entries[o.from] # Nothing /\ entries[o.to] = Nothing /\ Roomy(entries, o.to)
      BY <1>1, <1>2, <1>4, SpaceWords DEF History!Can, Sensible
    <3>2. ops' - 1 = ops
      BY <1>1, <1>2
    <3> QED BY <1>2, <1>3, <1>4, <2>1, <3>1, <3>2 DEF Recorded, Sensible
  <2>6. PICK r : r = [mode |-> "do", op |-> o, stage |-> "asked"]
    OBVIOUS
  <2>7. r \in History!Requests /\ r.mode = "do" /\ r.op = o /\ r.stage = "asked"
    BY <2>4, <2>6, NewRequest
  <2>8. Asking(r)'
    BY <1>1, <1>3, <2>3, <2>5, <2>7 DEF Asking
  <2> QED BY <1>1, <2>2, <2>6, <2>8
<1>5. request = [t \in Slots |-> request[t]]
  BY DEF HistoryInv
<1>6. PICK r : r = [mode |-> "do", op |-> o, stage |-> "asked"]
  OBVIOUS
<1>7. History!Ask(s, r) /\ (removals' = 0 => Tree(entries', ops') /\ Asking(r)')
  BY <1>1, <1>4, <1>6
<1>8. ops' \in 0..MaxOps
  BY <1>2
<1> QED BY <1>2, <1>5, <1>7, <1>8, Asks1

\* The last operation goes from undo to redo, and is under way.
LEMMA UndoStep ==
  ASSUME OneSlot, History!ConstantsAssumption, HistoryInv, NEW s \in Slots,
         History!Undo(s)
  PROVE  HistoryInv'
<1>1. PICK o, r : o = Last(undo) /\ r = [mode |-> "undo", op |-> o, stage |-> "asked"]
  OBVIOUS
<1>2. /\ request[s] = Nothing /\ undo # <<>> /\ undo' = Front(undo) /\ redo' = Append(redo, o)
      /\ History!Ask(s, r) /\ entries' = entries /\ ops' = ops /\ removals' = removals
  BY <1>1, HostPaths DEF History!Undo
<1>3. ASSUME removals' = 0
      PROVE  Tree(entries', ops') /\ Asking(r)'
  <2>1. Tree(entries, ops) /\ Chain(undo, entries, ops, "undo") /\ Chain(redo, entries, ops, "redo")
    BY <1>2, <1>3 DEF HistoryInv
  <2>2. /\ o \in History!Ops /\ Recorded(o, ops) /\ entries = Outcome(o)
        /\ Chain(undo', o.before, ops, "undo")
    BY <1>1, <1>2, <2>1, ChainLast DEF Near, Far
  <2>3. Chain(redo', o.before, ops, "redo") /\ redo' # <<>> /\ Last(redo') = o
    BY <1>2, <2>1, <2>2, ChainMore DEF Near, Far
  <2>4. r \in History!Requests /\ r.mode = "undo" /\ r.op = o /\ r.stage = "asked"
    BY <1>1, <2>2, NewRequest
  <2> QED BY <1>2, <2>1, <2>2, <2>3, <2>4 DEF Asking
<1> QED BY <1>2, <1>3, Asks1 DEF HistoryInv

\* The last operation goes from redo to undo, and is under way.
LEMMA RedoStep ==
  ASSUME OneSlot, History!ConstantsAssumption, HistoryInv, NEW s \in Slots,
         History!Redo(s)
  PROVE  HistoryInv'
<1>1. PICK o, r : o = Last(redo) /\ r = [mode |-> "redo", op |-> o, stage |-> "asked"]
  OBVIOUS
<1>2. /\ request[s] = Nothing /\ redo # <<>> /\ redo' = Front(redo) /\ undo' = Append(undo, o)
      /\ History!Ask(s, r) /\ entries' = entries /\ ops' = ops /\ removals' = removals
  BY <1>1, HostPaths DEF History!Redo
<1>3. ASSUME removals' = 0
      PROVE  Tree(entries', ops') /\ Asking(r)'
  <2>1. Tree(entries, ops) /\ Chain(undo, entries, ops, "undo") /\ Chain(redo, entries, ops, "redo")
    BY <1>2, <1>3 DEF HistoryInv
  <2>2. /\ o \in History!Ops /\ Recorded(o, ops) /\ entries = o.before
        /\ Chain(redo', Outcome(o), ops, "redo")
    BY <1>1, <1>2, <2>1, ChainLast DEF Near, Far
  <2>3. Chain(undo', Outcome(o), ops, "undo") /\ undo' # <<>> /\ Last(undo') = o
    BY <1>2, <2>1, <2>2, ChainMore DEF Near, Far
  <2>4. r \in History!Requests /\ r.mode = "redo" /\ r.op = o /\ r.stage = "asked"
    BY <1>1, <2>2, NewRequest
  <2> QED BY <1>2, <2>1, <2>2, <2>3, <2>4 DEF Asking
<1> QED BY <1>2, <1>3, Asks1 DEF HistoryInv

\* The host does what is asked, or fails and changes nothing.
LEMMA ServeStep ==
  ASSUME OneSlot, History!ConstantsAssumption, LostAnswers = FALSE, HistoryInv, NEW s \in Slots,
         History!Serve(s)
  PROVE  HistoryInv'
<1>1. PICK r, i : r = request[s] /\ i = History!Wanted(r)
  OBVIOUS
<1>2. PICK g \in {"done", "failed"} :
        /\ r # Nothing /\ r.stage = "asked"
        /\ History!Ask(s, [r EXCEPT !.stage = g])
        /\ g = "done" => History!Can(i) /\ entries' = History!Result(i)
        /\ g = "failed" => entries' = entries
        /\ undo' = undo /\ redo' = redo /\ ops' = ops /\ removals' = removals
  BY <1>1 DEF History!Serve
<1>3. ASSUME removals' = 0
      PROVE  Tree(entries', ops') /\ Asking([r EXCEPT !.stage = g])'
  <2>1. Tree(entries, ops) /\ Asking(r)
    BY <1>1, <1>2, <1>3 DEF HistoryInv
  <2>2. PICK m \in {"do", "undo", "redo"}, o \in History!Ops :
          r = [mode |-> m, op |-> o, stage |-> "asked"] /\ r.mode = m /\ r.op = o
    BY <1>2, <2>1 DEF Asking, History!Requests
  <2>3. PICK n : n = [r EXCEPT !.stage = g]
    OBVIOUS
  <2>4. n = [mode |-> m, op |-> o, stage |-> g]
    BY <2>2, <2>3
  <2>5. n \in History!Requests /\ n.mode = m /\ n.op = o /\ n.stage = g
    BY <2>4, NewRequest
  <2>6. Recorded(o, ops) /\ entries = IF m = "undo" THEN Outcome(o) ELSE o.before
    BY <1>2, <2>1, <2>2 DEF Asking
  <2>7. ops \in 1..MaxOps
    <3>1. ops \in 0..MaxOps /\ MaxOps \in Nat
      BY DEF HistoryInv, History!ConstantsAssumption
    <3>2. Cardinality(Copied(o.before)) \in Nat /\ Cardinality(Copied(o.before)) <= ops - 1
      BY <2>6, FS_CardinalityType DEF Recorded, Tree
    <3> QED BY <3>1, <3>2
  <2>8. g = "done" => entries' = IF m = "undo" THEN o.before ELSE Outcome(o)
    <3>1. CASE m = "undo"
      BY <1>1, <1>2, <2>2, <2>6, <2>7, <3>1, Backward
    <3>2. CASE m # "undo"
      <4>1. i = o
        BY <1>1, <2>2, <3>2 DEF History!Wanted
      <4> QED BY <1>2, <2>6, <2>7, <3>2, <4>1, Forward
    <3> QED BY <3>1, <3>2
  <2>9. Tree(entries', ops')
    BY <1>2, <2>1, <2>6, <2>7, <2>8, OutcomeIsTree
  <2>10. entries' = IF (m = "undo") <=> (g = "done") THEN o.before ELSE Outcome(o)
    BY <1>2, <2>6, <2>8
  <2>11. Asking(n)'
    <3>1. IF m = "redo"
          THEN /\ Chain(undo, Outcome(o), ops, "undo") /\ Chain(redo, Outcome(o), ops, "redo")
               /\ undo # <<>> /\ Last(undo) = o
          ELSE /\ Chain(undo, o.before, ops, "undo") /\ Chain(redo, o.before, ops, "redo")
               /\ m = "undo" => redo # <<>> /\ Last(redo) = o
      BY <2>1, <2>2 DEF Asking
    <3> QED BY <1>2, <2>5, <2>6, <2>10, <3>1 DEF Asking
  <2> QED BY <2>3, <2>9, <2>11
<1>4. PICK n : n = [r EXCEPT !.stage = g]
  OBVIOUS
<1>5. History!Ask(s, n) /\ (removals' = 0 => Tree(entries', ops') /\ Asking(n)')
  BY <1>2, <1>3, <1>4
<1> QED BY <1>2, <1>5, Asks1 DEF HistoryInv

\* A success is recorded, or leaves the stacks as they are.
LEMMA SucceededStep ==
  ASSUME OneSlot, History!ConstantsAssumption, HistoryInv, NEW s \in Slots,
         History!Succeeded(s)
  PROVE  HistoryInv'
<1>1. PICK r : r = request[s]
  OBVIOUS
<1>2. /\ r # Nothing /\ r.stage = "done" /\ History!Ask(s, Nothing)
      /\ entries' = entries /\ ops' = ops /\ removals' = removals
      /\ IF r.mode = "do" /\ r.op.kind # "remove"
         THEN undo' = History!Capped(Append(undo, r.op)) /\ redo' = <<>>
         ELSE undo' = undo /\ redo' = redo
  BY <1>1 DEF History!Succeeded
<1>3. ASSUME removals' = 0
      PROVE  /\ Tree(entries', ops')
             /\ Chain(undo', entries', ops', "undo") /\ Chain(redo', entries', ops', "redo")
  <2>1. Tree(entries, ops) /\ Asking(r)
    BY <1>1, <1>2, <1>3 DEF HistoryInv
  <2>2. PICK o \in History!Ops : o = r.op
    BY <2>1 DEF Asking, History!Requests
  <2>3. Recorded(o, ops) /\ o.kind # "remove"
    BY <2>1, <2>2 DEF Asking, Recorded
  <2>4. r.mode \in {"do", "undo", "redo"}
    BY <2>1 DEF Asking, History!Requests
  <2>5. CASE r.mode = "do"
    <3>1. entries = Outcome(o) /\ Chain(undo, o.before, ops, "undo")
      BY <1>2, <2>1, <2>2, <2>5 DEF Asking
    <3>2. PICK u : u = Append(undo, o)
      OBVIOUS
    <3>3. Chain(u, entries, ops, "undo") /\ u # <<>>
      BY <2>3, <3>1, <3>2, ChainMore DEF Near, Far
    <3>4. Chain(History!Capped(u), entries, ops, "undo")
      BY <3>3, ChainTail DEF History!Capped
    <3> QED BY <1>2, <2>1, <2>2, <2>3, <2>5, <3>2, <3>4, NoChain
  <2>6. CASE r.mode = "undo"
    BY <1>2, <2>1, <2>6 DEF Asking
  <2>7. CASE r.mode = "redo"
    BY <1>2, <2>1, <2>7 DEF Asking
  <2> QED BY <2>4, <2>5, <2>6, <2>7
<1> QED BY <1>2, <1>3, Answers1 DEF HistoryInv

\* A failure puts what was taken back on the stack it came from.
LEMMA FailedStep ==
  ASSUME OneSlot, History!ConstantsAssumption, HistoryInv, NEW s \in Slots,
         History!Failed(s)
  PROVE  HistoryInv'
<1>1. PICK r : r = request[s]
  OBVIOUS
<1>2. /\ r # Nothing /\ r.stage = "failed" /\ History!Ask(s, Nothing)
      /\ entries' = entries /\ ops' = ops /\ removals' = removals
      /\ r.mode = "undo" => undo' = Append(undo, r.op) /\ redo' = History!Without(redo, r.op)
      /\ r.mode = "redo" => redo' = Append(redo, r.op) /\ undo' = History!Without(undo, r.op)
      /\ r.mode = "do" => undo' = undo /\ redo' = redo
  BY <1>1 DEF History!Failed
<1>3. ASSUME removals' = 0
      PROVE  /\ Tree(entries', ops')
             /\ Chain(undo', entries', ops', "undo") /\ Chain(redo', entries', ops', "redo")
  <2>1. Tree(entries, ops) /\ Asking(r)
    BY <1>1, <1>2, <1>3 DEF HistoryInv
  <2>2. PICK o \in History!Ops : o = r.op
    BY <2>1 DEF Asking, History!Requests
  <2>3. Recorded(o, ops)
    BY <2>1, <2>2 DEF Asking
  <2>4. r.mode \in {"do", "undo", "redo"}
    BY <2>1 DEF Asking, History!Requests
  <2>5. CASE r.mode = "do"
    BY <1>2, <2>1, <2>5 DEF Asking
  <2>6. CASE r.mode = "undo"
    <3>1. /\ entries = Outcome(o) /\ Chain(undo, o.before, ops, "undo")
          /\ Chain(redo, o.before, ops, "redo") /\ redo # <<>> /\ Last(redo) = o
      BY <1>2, <2>1, <2>2, <2>6 DEF Asking
    <3>2. Chain(undo', entries, ops, "undo")
      <4>1. Near(o, "undo") = entries /\ Far(o, "undo") = o.before
        BY <3>1 DEF Near, Far
      <4>2. Chain(Append(undo, o), Near(o, "undo"), ops, "undo")
        BY <2>3, <3>1, <4>1, ChainMore
      <4> QED BY <1>2, <2>2, <2>6, <4>1, <4>2
    <3>3. redo' = Front(redo)
      BY <1>2, <2>2, <2>6, <3>1, TakesBack DEF Chain
    <3>4. Chain(Front(redo), entries, ops, "redo")
      BY <3>1, ChainLast DEF Near, Far
    <3> QED BY <1>2, <2>1, <3>2, <3>3, <3>4
  <2>7. CASE r.mode = "redo"
    <3>1. /\ entries = o.before /\ Chain(undo, Outcome(o), ops, "undo")
          /\ Chain(redo, Outcome(o), ops, "redo") /\ undo # <<>> /\ Last(undo) = o
      BY <1>2, <2>1, <2>2, <2>7 DEF Asking
    <3>2. Chain(redo', entries, ops, "redo")
      <4>1. Near(o, "redo") = entries /\ Far(o, "redo") = Outcome(o)
        BY <3>1 DEF Near, Far
      <4>2. Chain(Append(redo, o), Near(o, "redo"), ops, "redo")
        BY <2>3, <3>1, <4>1, ChainMore
      <4> QED BY <1>2, <2>2, <2>7, <4>1, <4>2
    <3>3. undo' = Front(undo)
      BY <1>2, <2>2, <2>7, <3>1, TakesBack DEF Chain
    <3>4. Chain(Front(undo), entries, ops, "undo")
      BY <3>1, ChainLast DEF Near, Far
    <3> QED BY <1>2, <2>1, <3>2, <3>3, <3>4
  <2> QED BY <2>4, <2>5, <2>6, <2>7
<1> QED BY <1>2, <1>3, Answers1 DEF HistoryInv

\* Every step keeps it.
LEMMA HistoryNext ==
  ASSUME OneSlot, History!ConstantsAssumption, LostAnswers = FALSE, HistoryInv,
         [History!Next]_(History!vars)
  PROVE  HistoryInv'
<1>1. ASSUME NEW s \in Slots, History!Rename(s) PROVE HistoryInv'
  <2>1. PICK p \in Paths, q \in Paths :
          /\ Front(p) = Front(q) /\ p # q /\ History!Perform(s, History!Op("rename", p, q))
    BY <1>1, HostPaths DEF History!Rename
  <2>2. Parent(q) # p /\ Len(p) = Len(q)
    <3>1. Parent(p) = Parent(q)
      BY <2>1 DEF Parent
    <3>2. Len(p) = Len(q)
      BY <3>1, PathFacts
    <3>3. Parent(p) # p
      BY InnerFacts
    <3> QED BY <3>1, <3>2, <3>3
  <2>3. PICK o : o = History!Op("rename", p, q)
    OBVIOUS
  <2>4. o.kind = "rename" /\ o.from = p /\ o.to = q
    BY <2>3 DEF History!Op
  <2>5. Sensible(o) /\ History!Perform(s, o) /\ o = History!Op(o.kind, o.from, o.to)
    BY <2>1, <2>2, <2>3, <2>4 DEF Sensible
  <2> QED BY <2>5, PerformStep
<1>2. ASSUME NEW s \in Slots, History!Move(s) PROVE HistoryInv'
  <2>1. PICK p \in Paths, q \in Paths :
          /\ Front(p) # Front(q) /\ ~IsPrefix(p, q) /\ entries[p] # Dir
          /\ History!Perform(s, History!Op("move", p, q))
    BY <1>2, HostPaths DEF History!Move
  <2>2. p # q /\ Parent(q) # p
    BY <2>1, PrefixFacts
  <2>3. PICK o : o = History!Op("move", p, q)
    OBVIOUS
  <2>4. o.kind = "move" /\ o.from = p /\ o.to = q
    BY <2>3 DEF History!Op
  <2>5. Sensible(o) /\ History!Perform(s, o) /\ o = History!Op(o.kind, o.from, o.to)
    BY <2>1, <2>2, <2>3, <2>4 DEF Sensible
  <2> QED BY <2>5, PerformStep
<1>3. ASSUME NEW s \in Slots, History!Copy(s) \/ History!Delete(s) PROVE HistoryInv'
  <2>1. PICK p \in Paths, q \in Paths, k \in {"copy", "remove"} :
          History!Perform(s, History!Op(k, p, q))
    BY <1>3, HostPaths DEF History!Copy, History!Delete
  <2>3. PICK o : o = History!Op(k, p, q)
    OBVIOUS
  <2>4. o.kind = k /\ o.from = p /\ o.to = q
    BY <2>3 DEF History!Op
  <2>5. Sensible(o) /\ History!Perform(s, o) /\ o = History!Op(o.kind, o.from, o.to)
    BY <2>1, <2>3, <2>4 DEF Sensible
  <2> QED BY <2>5, PerformStep
<1>4. ASSUME NEW s \in Slots, History!Undo(s) \/ History!Redo(s) PROVE HistoryInv'
  BY <1>4, UndoStep, RedoStep
<1>5. ASSUME NEW s \in Slots, History!Serve(s) \/ History!Succeeded(s) \/ History!Failed(s)
      PROVE  HistoryInv'
  BY <1>5, ServeStep, SucceededStep, FailedStep
<1>6. CASE \/ UNCHANGED History!vars
           \/ \E t \in Tabs : History!CloseTab(t) \/ \E p \in History!Paths : History!OpenFile(t, p)
  <2>1. /\ entries' = entries /\ undo' = undo /\ redo' = redo /\ request' = request
        /\ ops' = ops /\ removals' = removals
    BY <1>6 DEF History!vars, History!CloseTab, History!OpenFile
  <2> QED BY <2>1 DEF HistoryInv, Asking
<1> QED BY <1>1, <1>2, <1>3, <1>4, <1>5, <1>6 DEF History!Next

\* With one request at a time and no lost answer, while nothing has been removed
\* the stacks of undo.ts lead to the tree on the host, and on from it, step by step,
\* whatever an undo or a redo is halfway through (FileTree.tsx, runUndoRedo).
THEOREM HistoryInvHolds ==
  ASSUME OneSlot, History!ConstantsAssumption, LostAnswers = FALSE
  PROVE  History!Spec => []HistoryInv
<1>1. HistoryInv /\ [History!Next]_(History!vars) => HistoryInv'
  BY HistoryNext
<1>2. History!Init => HistoryInv
  BY HistoryInit
<1> QED BY <1>1, <1>2, PTL DEF History!Spec

\* When nothing is under way, the last operation of undo can be undone and doing so
\* restores the tree it was performed on; the last of redo can be done again on the
\* tree that is there (undo.ts:67-96, FileTree.tsx:1194-1226).
THEOREM HistoryHoldsHolds ==
  ASSUME OneSlot, Slots # {}, History!ConstantsAssumption, LostAnswers = FALSE
  PROVE  History!Spec => []History!HistoryHolds
<1>1. HistoryInv => History!HistoryHolds
  <2> SUFFICES ASSUME HistoryInv, History!Quiet, removals = 0
               PROVE  /\ undo # <<>> =>
                           LET o == History!Wanted([mode |-> "undo", op |-> Last(undo)])
                           IN  History!Can(o) /\ History!Result(o) = Last(undo).before
                      /\ redo # <<>> => History!Can(Last(redo)) /\ entries = Last(redo).before
    BY HostPaths DEF History!HistoryHolds
  <2>1. Chain(undo, entries, ops, "undo") /\ Chain(redo, entries, ops, "redo") /\ ops \in 0..MaxOps
    BY DEF HistoryInv, History!Quiet
  <2>2. ASSUME NEW o \in History!Ops, Recorded(o, ops) PROVE ops \in 1..MaxOps
    <3>1. Cardinality(Copied(o.before)) \in Nat /\ Cardinality(Copied(o.before)) <= ops - 1
      BY <2>2, FS_CardinalityType DEF Recorded, Tree
    <3>2. MaxOps \in Nat
      BY DEF History!ConstantsAssumption
    <3> QED BY <2>1, <3>1, <3>2
  <2>3. ASSUME undo # <<>>
        PROVE  LET o == History!Wanted([mode |-> "undo", op |-> Last(undo)])
               IN  History!Can(o) /\ History!Result(o) = Last(undo).before
    <3>1. PICK o, r : o = Last(undo) /\ r = [mode |-> "undo", op |-> o]
      OBVIOUS
    <3>2. o \in History!Ops /\ Recorded(o, ops) /\ entries = Outcome(o)
      BY <2>1, <2>3, <3>1, ChainLast DEF Near
    <3>3. r.mode = "undo" /\ r.op = o
      BY <3>1
    <3>4. History!Can(History!Wanted(r)) /\ History!Result(History!Wanted(r)) = o.before
      BY <2>2, <3>2, <3>3, Backward
    <3> QED BY <3>1, <3>4
  <2>4. ASSUME redo # <<>> PROVE History!Can(Last(redo)) /\ entries = Last(redo).before
    <3>1. PICK o : o = Last(redo)
      OBVIOUS
    <3>2. o \in History!Ops /\ Recorded(o, ops) /\ entries = o.before
      BY <2>1, <2>4, <3>1, ChainLast DEF Near
    <3> QED BY <2>2, <3>1, <3>2, Forward
  <2> QED BY <2>3, <2>4
<1> QED BY <1>1, HistoryInvHolds, PTL

-----------------------------------------------------------------------------
\* Where a tab's path is once the answer that is in has been taken.
Lands(r, p) ==
  IF r # Nothing /\ r.stage = "done" /\ r.op.kind \in {"rename", "move"}
  THEN History!Moved(p, History!Wanted(r).from, History!Wanted(r).to)
  ELSE p

\* Every tab is at its file, or will be.
Tabbed(T, h, r) ==
  /\ h \in [Tabs -> [path : Paths, file : {History!Original}] \cup {Nothing}]
  /\ \A t \in Tabs : h[t] # Nothing =>
       /\ h[t] \in [path : Paths, file : {History!Original}]
       /\ Lands(r, h[t].path) \in Paths /\ T[Lands(r, h[t].path)] = History!Original

TabsInv ==
  /\ ops \in 0..MaxOps /\ removals \in Nat
  /\ removals = 0 => \A s \in Slots : Tabbed(entries, tab, request[s])

\* A file that is moved, or in a directory that is moved, is where movedPath says.
LEMMA Carried ==
  ASSUME NEW T, NEW n, Tree(T, n), Dir # Nothing, NEW x, x # Nothing,
         NEW p \in Paths, NEW q \in Paths, p # q, T[q] = Nothing,
         T[p] = Dir => Len(p) = Len(q), NEW r \in Paths, T[r] = x
  PROVE  /\ History!Moved(r, p, q) \in Paths
         /\ Moves(T, p, q)[History!Moved(r, p, q)] = x
<1>1. IsPrefix(p, r) <=> r = p \/ Parent(r) = p
  BY PrefixFacts
<1>2. History!Moved(r, p, q) = IF IsPrefix(p, r) THEN Counterpart(q, p, r) ELSE r
  BY HostPaths DEF History!Moved, Counterpart
<1>3. Parent(r) \in Paths => T[Parent(r)] = Dir
  BY PathFacts DEF Tree, Roomy
<1>4. CASE r = p
  <2>1. Counterpart(q, p, p) = q /\ Counterpart(p, q, q) = p
    BY CounterpartFacts
  <2> QED BY <1>1, <1>2, <1>4, <2>1 DEF Moves
<1>5. CASE Parent(r) = p
  <2>1. Len(q) = 1
    BY <1>3, <1>5, InnerFacts
  <2>2. /\ Counterpart(q, p, r) \in Paths /\ Parent(Counterpart(q, p, r)) = q
        /\ Counterpart(p, q, Counterpart(q, p, r)) = r
    BY <1>5, <2>1, CounterpartBack
  <2> QED BY <1>1, <1>2, <1>5, <2>2 DEF Moves
<1>6. CASE r # p /\ Parent(r) # p
  <2>1. r # q /\ Parent(r) # q
    BY <1>3
  <2> QED BY <1>1, <1>2, <1>6, <2>1 DEF Moves
<1> QED BY <1>4, <1>5, <1>6

\* A file elsewhere stays.
LEMMA Stays ==
  ASSUME NEW T, NEW n, Tree(T, n), Dir # Nothing, NEW p \in Paths, NEW q, T[p] = Nothing,
         NEW r \in Paths, T[r] # Nothing
  PROVE  History!Moved(r, p, q) = r
<1>1. r # p /\ Parent(r) # p
  BY TreeBarren
<1> QED BY <1>1, PrefixFacts, HostPaths DEF History!Moved

\* What a request asks for, by its kind.
LEMMA WantedFacts ==
  ASSUME NEW o \in History!Ops, NEW m, NEW r, r.mode = m, r.op = o, o.kind \in {"rename", "move"}
  PROVE  /\ History!Wanted(r).from = IF m = "undo" THEN o.to ELSE o.from
         /\ History!Wanted(r).to = IF m = "undo" THEN o.from ELSE o.to
<1>1. PICK k, p, q, b : o = [kind |-> k, from |-> p, to |-> q, before |-> b]
  BY DEF History!Ops
<1> QED BY <1>1 DEF History!Wanted

\* A move that the host has done leaves nothing where it took from.
LEMMA Vacated ==
  ASSUME History!ConstantsAssumption, ops \in 1..MaxOps, NEW r, Asking(r), r.stage = "done",
         r.op.kind \in {"rename", "move"}
  PROVE  History!Wanted(r).from \in Paths /\ entries[History!Wanted(r).from] = Nothing
<1>1. PICK o \in History!Ops : o = r.op /\ Recorded(o, ops)
  BY DEF Asking, History!Requests
<1>2. o.from \in Paths /\ o.to \in Paths
  BY <1>1, HostPaths DEF History!Ops
<1>3. History!Wanted(r).from = IF r.mode = "undo" THEN o.to ELSE o.from
  BY <1>1, WantedFacts
<1>4. CASE r.mode = "undo"
  BY <1>1, <1>2, <1>3, <1>4 DEF Asking, Recorded
<1>5. CASE r.mode # "undo"
  <2>1. entries = Moves(o.before, o.from, o.to)
    BY <1>1, <1>5 DEF Asking, Outcome
  <2>2. Tree(o.before, ops - 1) /\ o.before[o.from] # Nothing /\ o.before[o.to] = Nothing
        /\ Roomy(o.before, o.to) /\ o.from # o.to /\ Parent(o.to) # o.from
        /\ (o.before[o.from] = Dir => Len(o.from) = Len(o.to))
    BY <1>1 DEF Recorded
  <2>3. ops - 1 \in Int /\ Dir # Nothing /\ Nothing \notin Nat
    BY DEF History!ConstantsAssumption
  <2>4. Moves(o.before, o.from, o.to)[o.from] = Nothing
    BY <1>2, <2>2, <2>3, MovesBack
  <2> QED BY <1>2, <1>3, <1>5, <2>1, <2>4
<1> QED BY <1>4, <1>5

\* Tabs that stay, in a tree that stays.
LEMMA TabsRest ==
  ASSUME OneSlot, TabsInv, NEW s \in Slots, NEW r, request' = [request EXCEPT ![s] = r],
         entries' = entries, tab' = tab, ops' \in 0..MaxOps, removals' \in Nat, removals' >= removals,
         request = [t \in Slots |-> request[t]],
         removals = 0 => \A p \in Paths : Lands(request[s], p) = p /\ Lands(r, p) = p
  PROVE  TabsInv'
<1>1. \A t \in Slots : t = s /\ request'[t] = r
  BY DEF OneSlot
<1>2. ASSUME removals' = 0 PROVE Tabbed(entries, tab, r)
  <2>1. removals = 0
    BY <1>2 DEF TabsInv
  <2>2. Tabbed(entries, tab, request[s])
    BY <2>1 DEF TabsInv
  <2> QED BY <2>1, <2>2 DEF Tabbed
<1> QED BY <1>1, <1>2 DEF TabsInv

\* What is asked moves no tab yet.
LEMMA AskedLands ==
  ASSUME NEW r, r = Nothing \/ r.stage # "done", NEW p
  PROVE  Lands(r, p) = p
  BY DEF Lands

\* Every call that is asked.
LEMMA TabsAsk ==
  ASSUME OneSlot, History!ConstantsAssumption, HistoryInv, TabsInv, NEW s \in Slots,
         \/ History!Rename(s) \/ History!Move(s) \/ History!Copy(s) \/ History!Delete(s)
         \/ History!Undo(s) \/ History!Redo(s)
  PROVE  TabsInv'
<1>1. PICK r : /\ request[s] = Nothing /\ r.stage = "asked" /\ request' = [request EXCEPT ![s] = r]
               /\ entries' = entries /\ tab' = tab
               /\ \/ ops' = ops /\ removals' = removals
                  \/ ops < MaxOps /\ ops' = ops + 1 /\ removals' \in {removals, removals + 1}
  <2>1. ASSUME NEW o, History!Perform(s, o)
        PROVE  \E r : /\ request[s] = Nothing /\ r.stage = "asked"
                      /\ request' = [request EXCEPT ![s] = r]
                      /\ entries' = entries /\ tab' = tab
                      /\ ops < MaxOps /\ ops' = ops + 1 /\ removals' \in {removals, removals + 1}
    <3>1. PICK r : r = [mode |-> "do", op |-> o, stage |-> "asked"]
      OBVIOUS
    <3>2. request[s] = Nothing /\ r.stage = "asked" /\ request' = [request EXCEPT ![s] = r]
          /\ entries' = entries /\ tab' = tab /\ ops < MaxOps /\ ops' = ops + 1
      BY <2>1, <3>1 DEF History!Perform, History!Ask
    <3>3. removals' \in {removals, removals + 1}
      BY <2>1 DEF History!Perform, TabsInv
    <3> QED BY <3>2, <3>3
  <2>2. CASE \E o : History!Perform(s, o)
    BY <2>1, <2>2
  <2>3. CASE History!Undo(s)
    <3>1. PICK r : r = [mode |-> "undo", op |-> History!Last(undo), stage |-> "asked"]
      OBVIOUS
    <3> QED BY <2>3, <3>1 DEF History!Undo, History!Ask
  <2>4. CASE History!Redo(s)
    <3>1. PICK r : r = [mode |-> "redo", op |-> History!Last(redo), stage |-> "asked"]
      OBVIOUS
    <3> QED BY <2>4, <3>1 DEF History!Redo, History!Ask
  <2>5. History!Rename(s) \/ History!Move(s) \/ History!Copy(s) \/ History!Delete(s)
          => \E o : History!Perform(s, o)
    BY DEF History!Rename, History!Move, History!Copy, History!Delete
  <2> QED BY <2>2, <2>3, <2>4, <2>5
<1>2. ops' \in 0..MaxOps /\ removals' \in Nat /\ removals' >= removals
  BY <1>1 DEF TabsInv, History!ConstantsAssumption
<1>3. \A p : Lands(request[s], p) = p /\ Lands(r, p) = p
  BY <1>1, AskedLands
<1>4. request = [t \in Slots |-> request[t]]
  BY DEF HistoryInv
<1> QED BY <1>1, <1>2, <1>3, <1>4, TabsRest

\* The host moves what a tab shows: the tab's path will follow it there.
LEMMA TabsServe ==
  ASSUME OneSlot, History!ConstantsAssumption, LostAnswers = FALSE, HistoryInv, TabsInv,
         NEW s \in Slots, History!Serve(s)
  PROVE  TabsInv'
<1>1. PICK r, i : r = request[s] /\ i = History!Wanted(r)
  OBVIOUS
<1>2. PICK g \in {"done", "failed"} :
        /\ r # Nothing /\ r.stage = "asked"
        /\ request' = [request EXCEPT ![s] = [r EXCEPT !.stage = g]]
        /\ g = "done" => History!Can(i) /\ entries' = History!Result(i)
        /\ g = "failed" => entries' = entries
        /\ tab' = tab /\ ops' = ops /\ removals' = removals
  BY <1>1 DEF History!Serve, History!Ask
<1>3. PICK n : n = [r EXCEPT !.stage = g]
  OBVIOUS
<1>4. \A t \in Slots : request'[t] = n
  <2>1. request = [t \in Slots |-> request[t]]
    BY DEF HistoryInv
  <2> QED BY <1>2, <1>3, <2>1 DEF OneSlot
<1>5. ASSUME removals = 0 PROVE Tabbed(entries', tab, n)
  <2>1. Tree(entries, ops) /\ Asking(r) /\ Tabbed(entries, tab, r)
    BY <1>1, <1>2, <1>5 DEF HistoryInv, TabsInv
  <2>2. PICK m \in {"do", "undo", "redo"}, o \in History!Ops :
          r = [mode |-> m, op |-> o, stage |-> "asked"] /\ r.mode = m /\ r.op = o
    BY <1>2, <2>1 DEF Asking, History!Requests
  <2>3. n = [mode |-> m, op |-> o, stage |-> g] /\ n.mode = m /\ n.op = o /\ n.stage = g
    BY <1>3, <2>2
  <2>4. Recorded(o, ops) /\ entries = IF m = "undo" THEN Outcome(o) ELSE o.before
    BY <1>2, <2>1, <2>2 DEF Asking
  <2>5. n # Nothing
    BY <2>3, NewRequest DEF History!ConstantsAssumption
  <2>6. Dir # Nothing /\ Nothing \notin Nat /\ History!Original # Nothing
        /\ Dir \notin Nat /\ MaxOps \in Nat
    BY DEF History!ConstantsAssumption, History!Original
  <2>7. o.from \in Paths /\ o.to \in Paths
    BY HostPaths DEF History!Ops
  <2>8. ops \in 1..MaxOps
    <3>1. Cardinality(Copied(o.before)) \in Nat /\ Cardinality(Copied(o.before)) <= ops - 1
      BY <2>4, FS_CardinalityType DEF Recorded, Tree
    <3> QED BY <2>6, <3>1 DEF HistoryInv
  <2>9. \A p : Lands(r, p) = p
    BY <1>2, AskedLands
  <2>10. CASE g = "failed"
    <3>1. \A p : Lands(n, p) = p
      BY <2>3, <2>10, AskedLands
    <3> QED BY <1>2, <2>1, <2>9, <2>10, <3>1 DEF Tabbed
  <2>11. CASE g = "done" /\ o.kind = "copy"
    <3>1. \A p : Lands(n, p) = p
      BY <2>3, <2>11 DEF Lands
    <3>2. entries' = IF m = "undo" THEN o.before ELSE Outcome(o)
      <4>1. CASE m = "undo"
        BY <1>1, <1>2, <2>2, <2>4, <2>8, <2>11, <4>1, Backward
      <4>2. CASE m # "undo"
        <5>1. i = o
          BY <1>1, <2>2, <4>2 DEF History!Wanted
        <5> QED BY <1>2, <2>4, <2>8, <2>11, <4>2, <5>1, Forward
      <4> QED BY <4>1, <4>2
    <3>3. Outcome(o) = [o.before EXCEPT ![o.to] = Fresh(o.before)]
      BY <2>11 DEF Outcome
    <3>4. o.before[o.to] = Nothing /\ DOMAIN o.before = Paths
      BY <2>4 DEF Recorded, Tree
    <3>5. Fresh(o.before) # History!Original
      BY <2>4, <2>6, <2>8, FreshIsNew DEF Recorded
    <3>6. \A p \in Paths : entries[p] = History!Original => entries'[p] = History!Original
      BY <2>4, <2>6, <2>7, <3>2, <3>3, <3>4, <3>5
    <3> QED BY <2>1, <2>9, <3>1, <3>6 DEF Tabbed
  <2>12. CASE g = "done" /\ o.kind \in {"rename", "move"}
    <3>1. PICK p \in Paths, q \in Paths : p = i.from /\ q = i.to /\ p # q
            /\ p = (IF m = "undo" THEN o.to ELSE o.from)
            /\ q = (IF m = "undo" THEN o.from ELSE o.to)
      BY <1>1, <2>2, <2>4, <2>7, <2>12, WantedFacts DEF Recorded
    <3>2. i.kind \in {"rename", "move"}
      <4>1. PICK k, a, b, c : o = [kind |-> k, from |-> a, to |-> b, before |-> c]
        BY DEF History!Ops
      <4> QED BY <1>1, <2>2, <2>12, <4>1 DEF History!Wanted
    <3>3. entries' = Moves(entries, p, q)
      BY <1>2, <2>12, <3>1, <3>2, HostRelocates DEF History!Result
    <3>4. entries[q] = Nothing /\ (entries[p] = Dir => Len(p) = Len(q))
      <4>1. CASE m = "undo"
        <5>1. Tree(o.before, ops - 1) /\ o.before[o.from] # Nothing /\ o.before[o.to] = Nothing
              /\ Roomy(o.before, o.to) /\ o.from # o.to /\ Parent(o.to) # o.from
              /\ (o.before[o.from] = Dir => Len(o.from) = Len(o.to))
          BY <2>4, <2>12 DEF Recorded
        <5>2. entries = Moves(o.before, o.from, o.to) /\ ops - 1 \in Int
          BY <2>4, <2>8, <2>12, <4>1 DEF Outcome
        <5>3. entries[o.to] = o.before[o.from] /\ entries[o.from] = Nothing
          BY <2>6, <2>7, <5>1, <5>2, MovesBack
        <5> QED BY <3>1, <4>1, <5>1, <5>3
      <4>2. CASE m # "undo"
        BY <2>4, <2>12, <3>1, <4>2 DEF Recorded
      <4> QED BY <4>1, <4>2
    <3>5. \A a : Lands(n, a) = History!Moved(a, p, q)
      <4>1. History!Wanted(n).from = p /\ History!Wanted(n).to = q
        BY <2>3, <2>12, <3>1, WantedFacts
      <4> QED BY <2>3, <2>5, <2>12, <4>1 DEF Lands
    <3>6. ASSUME NEW a \in Paths, entries[a] = History!Original
          PROVE  Lands(n, a) \in Paths /\ entries'[Lands(n, a)] = History!Original
      <4>1. /\ History!Moved(a, p, q) \in Paths
            /\ Moves(entries, p, q)[History!Moved(a, p, q)] = History!Original
        <5>1. PICK x : x = History!Original
          OBVIOUS
        <5>2. /\ Tree(entries, ops) /\ Dir # Nothing /\ x # Nothing /\ p # q
              /\ entries[q] = Nothing /\ entries[a] = x
          BY <2>1, <2>6, <3>1, <3>4, <3>6, <5>1
        <5>3. entries[p] = Dir => Len(p) = Len(q)
          BY <3>4
        <5>4. /\ History!Moved(a, p, q) \in Paths
              /\ Moves(entries, p, q)[History!Moved(a, p, q)] = x
          BY <5>2, <5>3, Carried
        <5> QED BY <5>1, <5>4
      <4> QED BY <3>3, <3>5, <4>1
    <3> QED BY <2>1, <2>9, <3>6 DEF Tabbed
  <2>13. o.kind \in {"rename", "move", "copy"}
    BY <2>4 DEF Recorded
  <2> QED BY <2>10, <2>11, <2>12, <2>13
<1> QED BY <1>2, <1>4, <1>5 DEF TabsInv

\* A failure moves no tab.
LEMMA TabsFailed ==
  ASSUME OneSlot, HistoryInv, TabsInv, NEW s \in Slots, History!Failed(s)
  PROVE  TabsInv'
<1>1. /\ request[s].stage = "failed" /\ request' = [request EXCEPT ![s] = Nothing]
      /\ entries' = entries /\ tab' = tab /\ ops' = ops /\ removals' = removals
  BY DEF History!Failed, History!Ask
<1>2. \A p : Lands(request[s], p) = p /\ Lands(Nothing, p) = p
  BY <1>1, AskedLands
<1>3. ops' \in 0..MaxOps /\ removals' \in Nat /\ removals' >= removals
  BY <1>1 DEF TabsInv
<1>4. request = [t \in Slots |-> request[t]]
  BY DEF HistoryInv
<1> QED BY <1>1, <1>2, <1>3, <1>4, TabsRest

\* The answer moves the tabs to where their files are.
LEMMA TabsSucceeded ==
  ASSUME OneSlot, History!ConstantsAssumption, HistoryInv, TabsInv, NEW s \in Slots,
         History!Succeeded(s)
  PROVE  TabsInv'
<1>1. PICK r, i : r = request[s] /\ i = History!Wanted(r)
  OBVIOUS
<1>2. /\ r # Nothing /\ r.stage = "done" /\ request' = [request EXCEPT ![s] = Nothing]
      /\ tab' = IF r.mode = "undo" /\ r.op.kind = "copy" THEN tab ELSE History!Followed(i)
      /\ entries' = entries /\ ops' = ops /\ removals' = removals
  BY <1>1 DEF History!Succeeded, History!Ask
<1>3. \A t \in Slots : request'[t] = Nothing
  <2>1. request = [t \in Slots |-> request[t]]
    BY DEF HistoryInv
  <2> QED BY <1>2, <2>1 DEF OneSlot
<1>4. ASSUME removals = 0 PROVE Tabbed(entries, tab', Nothing)
  <2>1. Asking(r) /\ Tabbed(entries, tab, r)
    BY <1>1, <1>2, <1>4 DEF HistoryInv, TabsInv
  <2>2. PICK m \in {"do", "undo", "redo"}, o \in History!Ops :
          r = [mode |-> m, op |-> o, stage |-> "done"] /\ r.mode = m /\ r.op = o
    BY <1>2, <2>1 DEF Asking, History!Requests
  <2>3. o.kind \in {"rename", "move", "copy"}
    BY <2>1, <2>2 DEF Asking, Recorded
  <2>4. \A p : Lands(Nothing, p) = p
    BY DEF Lands
  <2>5. CASE o.kind = "copy"
    <3>1. \A p : Lands(r, p) = p
      BY <2>2, <2>5 DEF Lands
    <3>2. \A t \in Tabs : tab'[t] = tab[t]
      <4>1. CASE m = "undo"
        BY <1>2, <2>2, <2>5, <4>1
      <4>2. CASE m # "undo"
        <5>1. i = o
          BY <1>1, <2>2, <4>2 DEF History!Wanted
        <5> QED BY <1>2, <2>2, <2>5, <4>2, <5>1 DEF History!Followed
      <4> QED BY <4>1, <4>2
    <3>3. tab' \in [Tabs -> [path : Paths, file : {History!Original}] \cup {Nothing}]
      <4>1. tab' = tab \/ tab' = [t \in Tabs |-> tab'[t]]
        BY <1>2 DEF History!Followed
      <4>2. PICK S : S = [path : Paths, file : {History!Original}] \cup {Nothing}
        OBVIOUS
      <4>3. tab \in [Tabs -> S]
        BY <2>1, <4>2 DEF Tabbed
      <4> QED BY <3>2, <4>1, <4>2, <4>3
    <3> QED BY <2>1, <2>4, <3>1, <3>2, <3>3 DEF Tabbed
  <2>6. CASE o.kind \in {"rename", "move"}
    <3>1. i.kind \in {"rename", "move"}
      <4>1. PICK k, a, b, c : o = [kind |-> k, from |-> a, to |-> b, before |-> c]
        BY DEF History!Ops
      <4> QED BY <1>1, <2>2, <2>6, <4>1 DEF History!Wanted
    <3>2. \A p : Lands(r, p) = History!Moved(p, i.from, i.to)
      BY <1>1, <1>2, <2>2, <2>6 DEF Lands
    <3>3. tab' = [t \in Tabs |->
                    IF tab[t] = Nothing THEN tab[t]
                    ELSE [tab[t] EXCEPT !.path = Lands(r, tab[t].path)]]
      BY <1>2, <2>2, <2>6, <3>1, <3>2 DEF History!Followed
    <3>4. ASSUME NEW t \in Tabs, tab[t] # Nothing
          PROVE  /\ tab'[t] \in [path : Paths, file : {History!Original}]
                 /\ tab'[t].path = Lands(r, tab[t].path)
      <4>1. PICK p \in Paths : tab[t] = [path |-> p, file |-> History!Original]
        BY <2>1, <3>4 DEF Tabbed
      <4>2. PICK l : l = Lands(r, tab[t].path) /\ l \in Paths
        BY <2>1, <3>4 DEF Tabbed
      <4>3. tab'[t] = [path |-> l, file |-> History!Original]
        BY <3>3, <3>4, <4>1, <4>2
      <4> QED BY <4>2, <4>3
    <3>5. tab' \in [Tabs -> [path : Paths, file : {History!Original}] \cup {Nothing}]
      <4>1. PICK S : S = [path : Paths, file : {History!Original}]
        OBVIOUS
      <4>2. \A t \in Tabs : tab'[t] \in S \cup {Nothing}
        BY <3>3, <3>4, <4>1
      <4>3. tab' = [t \in Tabs |-> tab'[t]]
        BY <3>3
      <4> QED BY <4>1, <4>2, <4>3
    <3>6. ASSUME NEW t \in Tabs, tab'[t] # Nothing
          PROVE  /\ tab'[t] \in [path : Paths, file : {History!Original}]
                 /\ tab'[t].path \in Paths /\ entries[tab'[t].path] = History!Original
      <4>1. tab[t] # Nothing
        BY <3>3, <3>6
      <4> QED BY <2>1, <3>4, <4>1 DEF Tabbed
    <3> QED BY <2>4, <3>5, <3>6 DEF Tabbed
  <2> QED BY <2>3, <2>5, <2>6
<1> QED BY <1>2, <1>3, <1>4 DEF TabsInv

\* A tab that is opened is at its file, and stays there.
LEMMA TabsOpen ==
  ASSUME OneSlot, History!ConstantsAssumption, TabsOnCopies = FALSE, HistoryInv, TabsInv,
         NEW t \in Tabs, NEW p \in Paths, History!OpenFile(t, p)
  PROVE  TabsInv'
<1>1. PICK x : x = [path |-> p, file |-> History!Original]
  OBVIOUS
<1>2. /\ entries[p] = History!Original /\ tab' = [tab EXCEPT ![t] = x]
      /\ entries' = entries /\ request' = request /\ ops' = ops /\ removals' = removals
  BY <1>1 DEF History!OpenFile
<1>3. ASSUME removals = 0, NEW s \in Slots PROVE Tabbed(entries, tab', request[s])
  <2>1. Tabbed(entries, tab, request[s]) /\ Tree(entries, ops)
    BY <1>3 DEF HistoryInv, TabsInv
  <2>2. Dir # Nothing /\ Nothing \notin Nat /\ History!Original # Nothing
    BY DEF History!ConstantsAssumption, History!Original
  <2>3. Lands(request[s], p) = p
    <3>1. CASE request[s] = Nothing \/ request[s].stage # "done"
      BY <3>1, AskedLands
    <3>2. CASE request[s] # Nothing /\ request[s].stage = "done"
      <4>1. Asking(request[s])
        BY <1>3, <3>2 DEF HistoryInv
      <4>2. PICK o : Recorded(o, ops)
        BY <4>1 DEF Asking
      <4>3. ops \in 1..MaxOps
        <5>1. Cardinality(Copied(o.before)) \in Nat /\ Cardinality(Copied(o.before)) <= ops - 1
          BY <4>2, FS_CardinalityType DEF Recorded, Tree
        <5>2. MaxOps \in Nat
          BY DEF History!ConstantsAssumption
        <5> QED BY <5>1, <5>2 DEF HistoryInv
      <4>4. CASE request[s].op.kind \in {"rename", "move"}
        <5>1. /\ History!Wanted(request[s]).from \in Paths
              /\ entries[History!Wanted(request[s]).from] = Nothing
          BY <3>2, <4>1, <4>3, <4>4, Vacated
        <5> QED BY <1>2, <2>1, <2>2, <5>1, Stays DEF Lands
      <4>5. CASE request[s].op.kind \notin {"rename", "move"}
        BY <4>5 DEF Lands
      <4> QED BY <4>4, <4>5
    <3> QED BY <3>1, <3>2
  <2>4. PICK S : S = [path : Paths, file : {History!Original}]
    OBVIOUS
  <2>5. tab \in [Tabs -> S \cup {Nothing}] /\ x \in S /\ x.path = p
    BY <1>1, <2>1, <2>4 DEF Tabbed
  <2>6. tab' \in [Tabs -> S \cup {Nothing}]
    BY <1>2, <2>5
  <2>7. \A a \in Tabs : tab'[a] = IF a = t THEN x ELSE tab[a]
    BY <1>2, <2>5
  <2> QED BY <1>2, <2>1, <2>3, <2>4, <2>5, <2>6, <2>7 DEF Tabbed
<1> QED BY <1>2, <1>3 DEF TabsInv

\* A tab that is closed.
LEMMA TabsClose ==
  ASSUME TabsInv, NEW t \in Tabs, History!CloseTab(t)
  PROVE  TabsInv'
<1>1. /\ tab' = [tab EXCEPT ![t] = Nothing]
      /\ entries' = entries /\ request' = request /\ ops' = ops /\ removals' = removals
  BY DEF History!CloseTab
<1>2. ASSUME removals = 0, NEW s \in Slots PROVE Tabbed(entries, tab', request[s])
  <2>1. Tabbed(entries, tab, request[s])
    BY <1>2 DEF TabsInv
  <2>2. PICK S : S = [path : Paths, file : {History!Original}]
    OBVIOUS
  <2>3. tab \in [Tabs -> S \cup {Nothing}]
    BY <2>1, <2>2 DEF Tabbed
  <2>4. tab' \in [Tabs -> S \cup {Nothing}]
    BY <1>1, <2>3
  <2>5. \A a \in Tabs : tab'[a] = IF a = t THEN Nothing ELSE tab[a]
    BY <1>1, <2>3
  <2> QED BY <2>1, <2>2, <2>4, <2>5 DEF Tabbed
<1> QED BY <1>1, <1>2 DEF TabsInv

\* Every step keeps it.
LEMMA TabsNext ==
  ASSUME OneSlot, History!ConstantsAssumption, LostAnswers = FALSE, TabsOnCopies = FALSE,
         HistoryInv, TabsInv, [History!Next]_(History!vars)
  PROVE  TabsInv'
<1>1. CASE UNCHANGED History!vars
  BY <1>1 DEF History!vars, TabsInv
<1>2. ASSUME NEW t \in Tabs, NEW p \in Paths, History!OpenFile(t, p) PROVE TabsInv'
  BY <1>2, TabsOpen
<1> QED BY <1>1, <1>2, TabsAsk, TabsServe, TabsFailed, TabsSucceeded, TabsClose, HostPaths
        DEF History!Next

\* If answers are not lost, one request is under way at a time and no copy is opened,
\* then until something is removed every open tab is at its file's path whenever
\* nothing is under way (tree-mutations.ts:158-216).
THEOREM TabsFollowHolds ==
  ASSUME OneSlot, Slots # {}, History!ConstantsAssumption, LostAnswers = FALSE,
         TabsOnCopies = FALSE
  PROVE  History!Spec => [](removals = 0 => History!TabsFollow)
<1>1. History!Init => TabsInv
  <2> SUFFICES ASSUME History!Init PROVE TabsInv
    OBVIOUS
  <2>1. /\ tab = [t \in Tabs |-> Nothing] /\ ops = 0 /\ removals = 0 /\ MaxOps \in Nat
    BY DEF History!Init, History!ConstantsAssumption
  <2>2. \A t \in Tabs : tab[t] = Nothing
    BY <2>1
  <2>3. \A r : Tabbed(entries, tab, r)
    <3>1. PICK S : S = [path : Paths, file : {History!Original}]
      OBVIOUS
    <3>2. tab \in [Tabs -> S \cup {Nothing}]
      BY <2>1
    <3> QED BY <2>2, <3>1, <3>2 DEF Tabbed
  <2> QED BY <2>1, <2>3 DEF TabsInv
<1>2. HistoryInv /\ TabsInv /\ [History!Next]_(History!vars) => TabsInv'
  BY TabsNext
<1>3. TabsInv => (removals = 0 => History!TabsFollow)
  <2> SUFFICES ASSUME TabsInv, removals = 0, History!Quiet, NEW t \in Tabs, tab[t] # Nothing
               PROVE  entries[tab[t].path] = tab[t].file
    BY DEF History!TabsFollow
  <2>1. PICK s \in Slots : request[s] = Nothing
    BY DEF History!Quiet
  <2>2. Tabbed(entries, tab, Nothing)
    BY <2>1 DEF TabsInv
  <2>3. tab[t].file = History!Original /\ Lands(Nothing, tab[t].path) = tab[t].path
    BY <2>2 DEF Tabbed, Lands
  <2> QED BY <2>2, <2>3 DEF Tabbed
<1> QED BY <1>1, <1>2, <1>3, HistoryInvHolds, PTL DEF History!Spec
=============================================================================
