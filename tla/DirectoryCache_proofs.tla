------------------------ MODULE DirectoryCache_proofs ------------------------
(***************************************************************************)
(* Proofs about DirectoryCache: how old a served level may be, whatever    *)
(* writes overlap the reads, and that none is older than the write its     *)
(* directory was invalidated for, when they do not.  Both are about what   *)
(* the entries hold; which entry is evicted does not matter to them.       *)
(*                                                                         *)
(* The second part is about the levels a tree shows (TreeLevels): whatever *)
(* a tree does but take an answer is a load, and the generation that owns  *)
(* a placeholder has a request that asks for it.  The last is about the    *)
(* session's root (ActiveWorktree): what is kept, shared or under way for  *)
(* a base and epoch was read from the log not long before.                 *)
(***************************************************************************)
EXTENDS DirectoryCache, TLAPS

\* What the variables are, as far as the two arguments need it.
Readings == [phase : {"idle", "asked", "read"}, key : Keys \cup {Idle.key}, age : 0..TTL,
             content : Nat, floor : Nat, oldest : Nat]

Shapes ==
  /\ disk \in [Dirs -> Nat] /\ floor \in [Dirs -> Nat]
  /\ reader \in [Readers -> Readings]
  /\ \A r \in Readers : reader[r].phase # "idle" => reader[r].key \in Keys
  /\ DOMAIN cache \subseteq Keys
  /\ \A k \in DOMAIN cache : cache[k] \in [at : 0..TTL, content : Nat]
  /\ served \in [Readers -> [content : Nat, floor : Nat, oldest : Nat]]

LEMMA KeyDir == \A k \in Keys : DirOf(k) \in Dirs
BY DEF Keys, DirOf

LEMMA IdleReading == ASSUME ConstantsAssumption PROVE Idle \in Readings /\ Idle.phase = "idle"
BY DEF Idle, Readings, ConstantsAssumption

LEMMA Within ==
  ASSUME ConstantsAssumption, NEW s \in Seq(Nat), Len(s) = TTL, NEW i \in 1..TTL
  PROVE  s[i] \in Nat
BY DEF ConstantsAssumption

\* A sequence of TTL ticks that takes another and forgets its first.
LEMMA Shift ==
  ASSUME ConstantsAssumption, NEW s \in Seq(Nat), Len(s) = TTL, NEW v \in Nat
  PROVE  LET t == Append(Tail(s), v) IN
         /\ t \in Seq(Nat) /\ Len(t) = TTL /\ t[TTL] = v
         /\ \A i \in 1..TTL-1 : t[i] = s[i+1]
<1>1. TTL \in Nat \ {0} /\ s # << >>
  BY DEF ConstantsAssumption
<1>2. Tail(s) \in Seq(Nat) /\ Len(Tail(s)) = TTL - 1 /\ \A i \in 1..TTL-1 : Tail(s)[i] = s[i+1]
  BY <1>1
<1> QED BY <1>1, <1>2

-----------------------------------------------------------------------------
(* The age of what is served. *)

\* The ticks of a directory are what it was, oldest first.
Ticks ==
  \A d \in Dirs :
    /\ trail[d] \in Seq(Nat) /\ Len(trail[d]) = TTL
    /\ \A i, j \in 1..TTL : i <= j => trail[d][i] <= trail[d][j]
    /\ \A i \in 1..TTL : trail[d][i] <= disk[d]

\* An entry, and a level that was read, are no older than their age says.
Ages ==
  /\ \A k \in DOMAIN cache :
       cache[k].at < TTL => cache[k].content >= trail[DirOf(k)][TTL - cache[k].at]
  /\ \A r \in Readers :
       /\ reader[r].phase # "idle" => reader[r].oldest <= disk[DirOf(reader[r].key)]
       /\ reader[r].phase = "read" =>
            /\ reader[r].content >= reader[r].oldest
            /\ reader[r].age < TTL =>
                 reader[r].content >= trail[DirOf(reader[r].key)][TTL - reader[r].age]

AgeInv == Shapes /\ Ticks /\ Ages /\ StalenessBounded

LEMMA AgeInit == ASSUME ConstantsAssumption, Init PROVE AgeInv
<1> USE DEF ConstantsAssumption
<1>1. Shapes
  BY IdleReading DEF Init, Shapes, Unserved
<1>2. [i \in 1..TTL |-> 0] \in Seq(Nat) /\ Len([i \in 1..TTL |-> 0]) = TTL
  OBVIOUS
<1>3. Ticks
  BY <1>2 DEF Init, Ticks
<1>4. Ages /\ StalenessBounded
  BY IdleReading DEF Init, Ages, StalenessBounded, Unserved
<1> QED BY <1>1, <1>3, <1>4 DEF AgeInv

LEMMA AgeNext == ASSUME ConstantsAssumption, AgeInv, [Next]_vars PROVE AgeInv'
<1> USE DEF AgeInv, ConstantsAssumption
<1>0. \A d \in Dirs : Head(trail[d]) = trail[d][1] /\ trail[d][1] \in Nat /\ 1 \in 1..TTL
  BY DEF Ticks
<1>1. ASSUME NEW r \in Readers, NEW k \in Keys, ListCached(r, k) PROVE AgeInv'
  <2>1. cache[k].content >= trail[DirOf(k)][TTL - cache[k].at]
    BY <1>1 DEF ListCached, Fresh, Ages
  <2>2. trail[DirOf(k)][TTL - cache[k].at] >= trail[DirOf(k)][1]
    <3> DEFINE s == trail[DirOf(k)]
               i == TTL - cache[k].at
    <3>1. i \in 1..TTL
      BY <1>1 DEF ListCached, Fresh, Shapes
    <3>2. /\ s \in Seq(Nat) /\ Len(s) = TTL
          /\ \A a, b \in 1..TTL : a <= b => s[a] <= s[b]
      BY KeyDir DEF Ticks
    <3>3. s[1] \in Nat /\ s[i] \in Nat
      BY <3>1, <3>2, Within
    <3>4. s[1] <= s[i]
      <4> HIDE DEF s, i
      <4> QED BY <3>1, <3>2
    <3> HIDE DEF s, i
    <3>5. s[i] >= s[1]
      BY <3>3, <3>4
    <3> QED BY <3>5 DEF s, i
  <2>3. /\ cache[k].content \in Nat /\ floor[DirOf(k)] \in Nat /\ Head(trail[DirOf(k)]) \in Nat
        /\ cache[k].content >= Head(trail[DirOf(k)])
    <3>1. TTL - cache[k].at \in 1..TTL /\ trail[DirOf(k)][TTL - cache[k].at] \in Nat
      BY SMTT(40), <1>1, KeyDir DEF ListCached, Fresh, Shapes, Ticks
    <3> QED BY <1>0, <1>1, <2>1, <2>2, <3>1, KeyDir DEF ListCached, Fresh, Shapes
  <2>4. Shapes'
    BY <1>1, <2>3 DEF ListCached, Shapes
  <2>5. Ticks' /\ Ages'
    BY <1>1 DEF ListCached, Ticks, Ages
  <2>6. StalenessBounded'
    BY <1>1, <2>3 DEF ListCached, StalenessBounded, Shapes
  <2> QED BY <2>4, <2>5, <2>6
<1>2. ASSUME NEW r \in Readers, NEW k \in Keys, ListUncached(r, k) PROVE AgeInv'
  <2>1. /\ DirOf(k) \in Dirs /\ Head(trail[DirOf(k)]) \in Nat
        /\ Head(trail[DirOf(k)]) <= disk[DirOf(k)]
    BY <1>0, KeyDir DEF Ticks
  <2>2. Shapes'
    BY <1>2, <2>1 DEF ListUncached, Shapes, Readings, history
  <2>3. Ticks' /\ StalenessBounded'
    BY <1>2 DEF ListUncached, Ticks, StalenessBounded, history
  <2>4. Ages'
    BY <1>2, <2>1 DEF ListUncached, Ages, Shapes, history
  <2> QED BY <2>2, <2>3, <2>4
<1>3. ASSUME NEW r \in Readers, Readdir(r) PROVE AgeInv'
  <2> DEFINE d == DirOf(reader[r].key)
  <2>1. d \in Dirs /\ disk[d] \in Nat /\ reader[r] \in Readings
    BY <1>3, KeyDir DEF Readdir, Shapes
  <2>2. reader' = [reader EXCEPT ![r] = [reader[r] EXCEPT !.phase = "read", !.content = disk[d]]]
    BY <1>3 DEF Readdir, Shapes
  <2>3. Shapes'
    BY <1>3, <2>1, <2>2 DEF Readdir, Shapes, Readings, history
  <2>4. Ticks' /\ StalenessBounded'
    BY <1>3 DEF Readdir, Ticks, StalenessBounded, history
  <2>5. reader[r].oldest <= disk[d]
    BY <1>3 DEF Readdir, Ages
  <2>6. reader[r].age < TTL => trail[d][TTL - reader[r].age] <= disk[d]
    BY SMTT(40), <2>1 DEF Ticks, Readings
  <2>7. Ages'
    BY <1>3, <2>1, <2>2, <2>5, <2>6 DEF Readdir, Ages, Shapes, Readings, history
  <2> QED BY <2>3, <2>4, <2>7
<1>4. ASSUME NEW r \in Readers, ReadDone(r) PROVE AgeInv'
  <2> DEFINE k == reader[r].key
             kept == Without(Evicted)
  <2>1. k \in Keys /\ reader[r] \in Readings
    BY <1>4 DEF ReadDone, Shapes
  <2>2. /\ cache' = [j \in DOMAIN kept \cup {k} |-> IF j = k THEN Stamp(r) ELSE kept[j]]
        /\ served' = [served EXCEPT ![r] = [content |-> reader[r].content,
                        floor |-> reader[r].floor, oldest |-> reader[r].oldest]]
        /\ reader' = [reader EXCEPT ![r] = Idle]
        /\ UNCHANGED <<disk, unflushed, floor, trail>>
    BY <1>4 DEF ReadDone
  <2>3. /\ DOMAIN kept \subseteq DOMAIN cache /\ \A j \in DOMAIN kept : kept[j] = cache[j]
    BY DEF Without
  <2>4. Stamp(r) = [at |-> reader[r].age, content |-> reader[r].content]
    BY DEF Stamp
  <2> HIDE DEF k, kept
  <2>5. Shapes'
    <3>1. reader' \in [Readers -> Readings] /\ \A q \in Readers : reader'[q].phase # "idle" => reader'[q].key \in Keys
      BY <2>2, IdleReading DEF Shapes
    <3>2. served' \in [Readers -> [content : Nat, floor : Nat, oldest : Nat]]
      BY <2>1, <2>2 DEF Shapes, Readings
    <3>3. DOMAIN cache' \subseteq Keys /\ \A j \in DOMAIN cache' : cache'[j] \in [at : 0..TTL, content : Nat]
      BY <2>1, <2>2, <2>3, <2>4 DEF Shapes, Readings
    <3> QED BY <2>2, <3>1, <3>2, <3>3 DEF Shapes
  <2>6. Ticks'
    BY <2>2 DEF Ticks
  <2>7. reader[r].content >= reader[r].oldest
        /\ (reader[r].age < TTL => reader[r].content >= trail[DirOf(k)][TTL - reader[r].age])
    BY <1>4 DEF ReadDone, Ages, k
  <2>8. Ages'
    <3>1. ASSUME NEW j \in DOMAIN cache', cache'[j].at < TTL
          PROVE  cache'[j].content >= trail[DirOf(j)][TTL - cache'[j].at]
      BY <2>2, <2>3, <2>4, <2>7, <3>1 DEF Ages
    <3>2. ASSUME NEW q \in Readers, reader'[q].phase # "idle" PROVE reader'[q] = reader[q]
      BY <2>2, <3>2, IdleReading DEF Shapes
    <3> QED BY <2>2, <3>1, <3>2 DEF Ages
  <2>9. StalenessBounded'
    BY <2>2, <2>7 DEF StalenessBounded, Shapes
  <2> QED BY <2>5, <2>6, <2>8, <2>9
<1>5. ASSUME NEW r \in Readers, ReadFails(r) PROVE AgeInv'
  <2>1. Shapes'
    BY <1>5, IdleReading DEF ReadFails, Shapes, history
  <2>2. Ticks' /\ StalenessBounded'
    BY <1>5 DEF ReadFails, Ticks, StalenessBounded, history
  <2>3. Ages'
    BY <1>5, IdleReading DEF ReadFails, Ages, Shapes, history
  <2> QED BY <2>1, <2>2, <2>3
<1>6. ASSUME NEW d \in Dirs, Write(d) PROVE AgeInv'
  <2>1. disk' \in [Dirs -> Nat] /\ \A e \in Dirs : disk'[e] >= disk[e]
    BY <1>6 DEF Write, Shapes
  <2>2. Shapes'
    BY <1>6, <2>1 DEF Write, Shapes, history
  <2>3. \A e \in Dirs, i \in 1..TTL : trail[e][i] \in Nat /\ disk[e] \in Nat
    BY Within DEF Ticks, Shapes
  <2>4. Ticks' /\ StalenessBounded'
    BY <1>6, <2>1, <2>3 DEF Write, Ticks, StalenessBounded, history
  <2>5. \A r \in Readers : reader[r].phase # "idle" =>
           /\ DirOf(reader[r].key) \in Dirs /\ reader[r].oldest \in Nat
    BY KeyDir DEF Shapes, Readings
  <2>6. Ages'
    BY <1>6, <2>1, <2>5 DEF Write, Ages, Shapes, history
  <2> QED BY <2>2, <2>4, <2>6
<1>7. ASSUME NEW gone, cache' = Without(gone), UNCHANGED <<disk, reader, served, trail>>,
             floor' \in [Dirs -> Nat]
      PROVE  AgeInv'
  <2>1. DOMAIN cache' \subseteq DOMAIN cache /\ \A k \in DOMAIN cache' : cache'[k] = cache[k]
    BY <1>7 DEF Without
  <2>2. Shapes' /\ Ticks'
    BY <1>7, <2>1 DEF Shapes, Ticks
  <2>3. Ages' /\ StalenessBounded'
    BY <1>7, <2>1 DEF Ages, StalenessBounded
  <2> QED BY <2>2, <2>3
<1>8. ASSUME NEW d \in Dirs, Invalidate(d) PROVE AgeInv'
  BY <1>7, <1>8 DEF Invalidate, Shapes
<1>9. CASE InvalidateAll
  <2>1. cache' = Without(DOMAIN cache)
    BY <1>9 DEF InvalidateAll, Without
  <2> QED BY <1>7, <1>9, <2>1 DEF InvalidateAll, Shapes, history
<1>10. CASE Tick
  <2>1. /\ \A n \in 0..TTL : Aged(n) \in 0..TTL /\ (Aged(n) < TTL => Aged(n) = n + 1 /\ n < TTL)
    BY DEF Aged
  <2>2. /\ DOMAIN cache' = DOMAIN cache
        /\ \A k \in DOMAIN cache : cache'[k] = [cache[k] EXCEPT !.at = Aged(@)]
        /\ DOMAIN reader' = Readers
        /\ \A r \in Readers : reader'[r] = IF reader[r].phase = "idle" THEN reader[r]
                                           ELSE [reader[r] EXCEPT !.age = Aged(@)]
        /\ UNCHANGED <<disk, served, floor>>
    BY <1>10 DEF Tick
  <2>3. \A d \in Dirs :
          /\ trail'[d] \in Seq(Nat) /\ Len(trail'[d]) = TTL /\ trail'[d][TTL] = disk[d]
          /\ \A i \in 1..TTL-1 : trail'[d][i] = trail[d][i+1]
    BY <1>10, Shift DEF Tick, Ticks, Shapes
  <2>4. Shapes'
    <3>1. reader' = [r \in Readers |-> IF reader[r].phase = "idle" THEN reader[r]
                                       ELSE [reader[r] EXCEPT !.age = Aged(@)]]
      BY <1>10 DEF Tick
    <3>2. \A r \in Readers : reader'[r] \in Readings
      BY <2>1, <2>2 DEF Shapes, Readings
    <3>3. reader' \in [Readers -> Readings]
      BY <3>1, <3>2
    <3>4. \A r \in Readers : reader'[r].phase # "idle" => reader'[r].key \in Keys
      BY SMTT(40), <2>2 DEF Shapes, Readings
    <3>5. \A k \in DOMAIN cache' : cache'[k] \in [at : 0..TTL, content : Nat]
      BY <2>1, <2>2 DEF Shapes
    <3> QED BY <2>2, <3>3, <3>4, <3>5 DEF Shapes
  <2>5. Ticks'
    <3> SUFFICES ASSUME NEW d \in Dirs
                 PROVE /\ \A i, j \in 1..TTL : i <= j => trail'[d][i] <= trail'[d][j]
                       /\ \A i \in 1..TTL : trail'[d][i] <= disk'[d]
      BY <2>3 DEF Ticks
    <3>1. disk'[d] = disk[d] /\ disk[d] \in Nat
      BY <2>2 DEF Shapes
    <3>2. \A i \in 1..TTL : trail'[d][i] \in Nat /\ trail'[d][i] <= disk[d]
      <4> SUFFICES ASSUME NEW i \in 1..TTL PROVE trail'[d][i] \in Nat /\ trail'[d][i] <= disk[d]
        OBVIOUS
      <4>1. CASE i = TTL
        BY <2>3, <3>1, <4>1
      <4>2. CASE i \in 1..TTL-1
        <5>1. trail'[d][i] = trail[d][i+1]
          BY <2>3, <4>2
        <5>2. i+1 \in 1..TTL
          BY <4>2
        <5>3. trail[d][i+1] \in Nat
          BY <5>2, Within DEF Ticks
        <5>4. trail[d][i+1] <= disk[d]
          BY <5>2 DEF Ticks
        <5> QED BY <5>1, <5>3, <5>4
      <4> QED BY <4>1, <4>2
    <3>3. ASSUME NEW i \in 1..TTL, NEW j \in 1..TTL, i <= j PROVE trail'[d][i] <= trail'[d][j]
      <4>1. CASE j = TTL
        BY <2>3, <3>2, <4>1
      <4>2. CASE j \in 1..TTL-1
        <5>1. i \in 1..TTL-1 /\ i+1 \in 1..TTL /\ j+1 \in 1..TTL /\ i+1 <= j+1
          BY <3>3, <4>2
        <5> QED BY <2>3, <4>2, <5>1 DEF Ticks
      <4> QED BY <4>1, <4>2
    <3> QED BY <3>1, <3>2, <3>3
  <2>6. Ages'
    <3>1. ASSUME NEW k \in DOMAIN cache, cache'[k].at < TTL
          PROVE  cache'[k].content >= trail'[DirOf(k)][TTL - cache'[k].at]
      <4>1. DirOf(k) \in Dirs /\ cache[k].at \in 0..TTL
        BY KeyDir DEF Shapes
      <4>2. cache'[k].at = Aged(cache[k].at) /\ cache'[k].content = cache[k].content
        BY <2>2 DEF Shapes
      <4>3. cache'[k].at = cache[k].at + 1 /\ cache[k].at < TTL
        BY <2>1, <3>1, <4>1, <4>2
      <4> DEFINE i == TTL - cache'[k].at
      <4>4. i \in 1..TTL-1 /\ i + 1 = TTL - cache[k].at
        BY <3>1, <4>1, <4>3
      <4>5. trail'[DirOf(k)][i] = trail[DirOf(k)][i + 1]
        BY <2>3, <4>1, <4>4
      <4> QED BY <4>2, <4>3, <4>4, <4>5 DEF Ages
    <3>2. ASSUME NEW r \in Readers, reader'[r].phase = "read", reader'[r].age < TTL
          PROVE  reader'[r].content >= trail'[DirOf(reader'[r].key)][TTL - reader'[r].age]
      <4>1. reader[r].phase = "read" /\ reader'[r] = [reader[r] EXCEPT !.age = Aged(@)]
        BY <2>2, <3>2 DEF Shapes, Readings
      <4>2. DirOf(reader[r].key) \in Dirs /\ reader[r] \in Readings
        BY <4>1, KeyDir DEF Shapes
      <4>3. /\ reader'[r].age = Aged(reader[r].age) /\ reader'[r].content = reader[r].content
            /\ reader'[r].key = reader[r].key /\ reader[r].age \in 0..TTL
        BY <4>1, <4>2 DEF Readings
      <4>4. reader'[r].age = reader[r].age + 1 /\ reader[r].age < TTL
        BY <2>1, <3>2, <4>3
      <4> DEFINE i == TTL - reader'[r].age
      <4>5. i \in 1..TTL-1 /\ i + 1 = TTL - reader[r].age
        BY <3>2, <4>3, <4>4
      <4>6. trail'[DirOf(reader[r].key)][i] = trail[DirOf(reader[r].key)][i + 1]
        BY <2>3, <4>2, <4>5
      <4> QED BY <4>1, <4>3, <4>4, <4>5, <4>6 DEF Ages
    <3>3. \A r \in Readers :
            reader'[r].phase = reader[r].phase /\ reader'[r].oldest = reader[r].oldest
              /\ reader'[r].content = reader[r].content /\ reader'[r].key = reader[r].key
      BY <2>2 DEF Shapes, Readings
    <3> QED BY <2>2, <3>1, <3>2, <3>3 DEF Ages
  <2>7. StalenessBounded'
    BY <2>2 DEF StalenessBounded
  <2> QED BY <2>4, <2>5, <2>6, <2>7
<1>11. CASE UNCHANGED vars
  BY <1>11 DEF vars, Shapes, Ticks, Ages, StalenessBounded
<1> QED BY <1>1, <1>2, <1>3, <1>4, <1>5, <1>6, <1>8, <1>9, <1>10, <1>11 DEF Next

\* What a listing answers was on disk less than DIRECTORY_CACHE_TTL_MS before
\* it was asked for (fs-tree.ts:78, 126-133), whatever is written during the read.
THEOREM StalenessHolds == ASSUME ConstantsAssumption PROVE Spec => []StalenessBounded
<1>1. Init => AgeInv
  BY AgeInit
<1>2. AgeInv /\ [Next]_vars => AgeInv'
  BY AgeNext
<1>3. AgeInv => StalenessBounded
  BY DEF AgeInv
<1> QED BY <1>1, <1>2, <1>3, PTL DEF Spec

LEMMA ShapesHold == ASSUME ConstantsAssumption PROVE Spec => []Shapes
<1>1. Init => AgeInv
  BY AgeInit
<1>2. AgeInv /\ [Next]_vars => AgeInv'
  BY AgeNext
<1>3. AgeInv => Shapes
  BY DEF AgeInv
<1> QED BY <1>1, <1>2, <1>3, PTL DEF Spec

-----------------------------------------------------------------------------
(* What is served after an invalidation. *)

\* Where no write overlaps a read, a level under way and a cached level are the
\* directory's own, unless a write has yet to invalidate them, and never older
\* than the last write that did.
Current ==
  /\ \A d \in Dirs : floor[d] <= disk[d]
  /\ \A r \in Readers : LET d == DirOf(reader[r].key) IN
       /\ reader[r].phase # "idle" => d \notin unflushed /\ reader[r].floor <= disk[d]
       /\ reader[r].phase = "read" => reader[r].content = disk[d]
  /\ \A k \in DOMAIN cache :
       /\ cache[k].content >= floor[DirOf(k)]
       /\ DirOf(k) \notin unflushed => cache[k].content = disk[DirOf(k)]

CurrentInv == Current /\ NeverServedPastTheWrite

LEMMA CurrentNext ==
  ASSUME ConstantsAssumption, Overlap = FALSE, Shapes, Shapes', CurrentInv, [Next]_vars
  PROVE  CurrentInv'
<1> USE DEF CurrentInv
<1>1. ASSUME NEW r \in Readers, NEW k \in Keys, ListCached(r, k) PROVE CurrentInv'
  <2>1. k \in DOMAIN cache
    BY <1>1 DEF ListCached, Fresh
  <2>2. NeverServedPastTheWrite'
    BY <1>1, <2>1 DEF ListCached, NeverServedPastTheWrite, Current, Shapes
  <2> QED BY <1>1, <2>2 DEF ListCached, Current
<1>2. ASSUME NEW r \in Readers, NEW k \in Keys, ListUncached(r, k) PROVE CurrentInv'
  <2>1. DirOf(k) \in Dirs /\ DirOf(k) \notin unflushed
    BY <1>2, KeyDir DEF ListUncached
  <2>2. Current'
    BY <1>2, <2>1 DEF ListUncached, Current, Shapes, history
  <2> QED BY <1>2, <2>2 DEF ListUncached, NeverServedPastTheWrite, history
<1>3. ASSUME NEW r \in Readers, Readdir(r) PROVE CurrentInv'
  <2>1. reader[r] \in Readings /\ reader[r].phase = "asked"
    BY <1>3 DEF Readdir, Shapes
  <2>2. Current'
    BY <1>3, <2>1 DEF Readdir, Current, Shapes, Readings, history
  <2> QED BY <1>3, <2>2 DEF Readdir, NeverServedPastTheWrite, history
<1>4. ASSUME NEW r \in Readers, ReadDone(r) PROVE CurrentInv'
  <2> DEFINE k == reader[r].key
             kept == Without(Evicted)
  <2>1. k \in Keys /\ reader[r] \in Readings /\ DirOf(k) \in Dirs
    BY <1>4, KeyDir DEF ReadDone, Shapes
  <2>2. /\ cache' = [j \in DOMAIN kept \cup {k} |-> IF j = k THEN Stamp(r) ELSE kept[j]]
        /\ served' = [served EXCEPT ![r] = [content |-> reader[r].content,
                        floor |-> reader[r].floor, oldest |-> reader[r].oldest]]
        /\ reader' = [reader EXCEPT ![r] = Idle]
        /\ UNCHANGED <<disk, unflushed, floor, trail>>
    BY <1>4 DEF ReadDone
  <2>3. DOMAIN kept \subseteq DOMAIN cache /\ \A j \in DOMAIN kept : kept[j] = cache[j]
    BY DEF Without
  <2>4. /\ reader[r].content = disk[DirOf(k)] /\ reader[r].floor <= disk[DirOf(k)]
        /\ floor[DirOf(k)] <= disk[DirOf(k)]
    BY <1>4, <2>1 DEF ReadDone, Current
  <2>5. Stamp(r).content = reader[r].content
    BY DEF Stamp
  <2> HIDE DEF k, kept
  <2>6. ASSUME NEW j \in DOMAIN cache'
        PROVE  /\ cache'[j].content >= floor[DirOf(j)]
               /\ DirOf(j) \notin unflushed => cache'[j].content = disk[DirOf(j)]
    <3>1. CASE j = k
      BY <2>1, <2>2, <2>4, <2>5, <3>1 DEF Shapes
    <3>2. CASE j # k
      BY <2>2, <2>3, <3>2 DEF Current
    <3> QED BY <3>1, <3>2
  <2>7. ASSUME NEW q \in Readers, reader'[q].phase # "idle" PROVE reader'[q] = reader[q]
    BY <2>2, <2>7, IdleReading DEF Shapes
  <2>8. Current'
    <3>1. \A d \in Dirs : floor'[d] <= disk'[d]
      BY <2>2 DEF Current
    <3>2. ASSUME NEW q \in Readers
          PROVE  LET d == DirOf(reader'[q].key) IN
                 /\ reader'[q].phase # "idle" => d \notin unflushed' /\ reader'[q].floor <= disk'[d]
                 /\ reader'[q].phase = "read" => reader'[q].content = disk'[d]
      BY <2>2, <2>7 DEF Current
    <3> QED BY <2>2, <2>6, <3>1, <3>2 DEF Current
  <2>9. NeverServedPastTheWrite'
    BY <2>1, <2>2, <2>4 DEF NeverServedPastTheWrite, Shapes, Readings
  <2> QED BY <2>8, <2>9
<1>5. ASSUME NEW r \in Readers, ReadFails(r) PROVE CurrentInv'
  BY <1>5, IdleReading DEF ReadFails, Current, NeverServedPastTheWrite, Shapes, history
<1>6. ASSUME NEW d \in Dirs, Write(d) PROVE CurrentInv'
  <2>1. /\ disk' = [disk EXCEPT ![d] = disk[d] + 1] /\ unflushed' = unflushed \cup {d}
        /\ UNCHANGED <<cache, order, reader, history>>
        /\ \A r \in Readers : reader[r].phase # "idle" => DirOf(reader[r].key) # d
    BY <1>6 DEF Write
  <2>2. \A e \in Dirs : disk[e] \in Nat /\ floor[e] \in Nat /\ disk'[e] >= disk[e]
          /\ (e # d => disk'[e] = disk[e])
    BY <2>1 DEF Shapes
  <2>3. \A r \in Readers : reader[r].phase # "idle" => DirOf(reader[r].key) \in Dirs
    BY KeyDir DEF Shapes
  <2>4. \A k \in DOMAIN cache : DirOf(k) \in Dirs
    BY KeyDir DEF Shapes
  <2>5. Current'
    BY <2>1, <2>2, <2>3, <2>4 DEF Current, history
  <2> QED BY <2>1, <2>5 DEF NeverServedPastTheWrite, history
<1>7. ASSUME NEW d \in Dirs, Invalidate(d) PROVE CurrentInv'
  <2>1. /\ d \in unflushed /\ unflushed' = unflushed \ {d}
        /\ floor' = [floor EXCEPT ![d] = disk[d]] /\ UNCHANGED <<disk, reader, served, trail>>
    BY <1>7 DEF Invalidate
  <2>2. \A k \in DOMAIN cache' : k \in DOMAIN cache /\ cache'[k] = cache[k] /\ DirOf(k) # d
    BY <1>7 DEF Invalidate, Without, Dropped
  <2>3. \A e \in Dirs : floor'[e] <= disk'[e]
    BY <2>1 DEF Current, Shapes
  <2>4. \A k \in DOMAIN cache' : DirOf(k) \in Dirs /\ floor'[DirOf(k)] = floor[DirOf(k)]
    BY <2>1, <2>2, KeyDir DEF Shapes
  <2>5. Current'
    BY <2>1, <2>2, <2>3, <2>4 DEF Current
  <2> QED BY <2>1, <2>5 DEF NeverServedPastTheWrite
<1>8. CASE InvalidateAll
  BY <1>8 DEF InvalidateAll, Current, NeverServedPastTheWrite, history
<1>9. CASE Tick
  <2>1. /\ DOMAIN cache' = DOMAIN cache
        /\ \A k \in DOMAIN cache : cache'[k].content = cache[k].content
        /\ \A r \in Readers :
             reader'[r].phase = reader[r].phase /\ reader'[r].content = reader[r].content
               /\ reader'[r].key = reader[r].key /\ reader'[r].floor = reader[r].floor
        /\ UNCHANGED <<disk, unflushed, served, floor>>
    BY <1>9 DEF Tick, Shapes, Readings
  <2> QED BY <2>1 DEF Current, NeverServedPastTheWrite
<1>10. CASE UNCHANGED vars
  BY <1>10 DEF vars, Current, NeverServedPastTheWrite
<1> QED BY <1>1, <1>2, <1>3, <1>4, <1>5, <1>6, <1>7, <1>8, <1>9, <1>10 DEF Next

\* "A stale level is never served past the write that changed it" (the comment of
\* invalidateDirectoryCache, fs-tree.ts:106): after the invalidation every variant of
\* the level shows at least what was written, if no read was under way meanwhile.
THEOREM NeverServedPastTheWriteHolds ==
  ASSUME ConstantsAssumption, Overlap = FALSE
  PROVE  Spec => []NeverServedPastTheWrite
<1>1. Init => CurrentInv
  BY IdleReading DEF Init, CurrentInv, Current, NeverServedPastTheWrite, Unserved
<1>2. Shapes /\ Shapes' /\ CurrentInv /\ [Next]_vars => CurrentInv'
  BY CurrentNext
<1>3. CurrentInv => NeverServedPastTheWrite
  BY DEF CurrentInv
<1> QED BY <1>1, <1>2, <1>3, ShapesHold, PTL DEF Spec

\* What is served is as fresh as the two say, with or without overlapping reads.
THEOREM ServedFreshHolds == ASSUME ConstantsAssumption PROVE Spec => []ServedFresh
<1>1. CASE Overlap = TRUE
  <2>1. StalenessBounded => ServedFresh
    BY <1>1 DEF ServedFresh
  <2> QED BY <2>1, StalenessHolds, PTL
<1>2. CASE Overlap = FALSE
  <2>1. StalenessBounded /\ NeverServedPastTheWrite => ServedFresh
    BY DEF ServedFresh
  <2>2. Spec => []NeverServedPastTheWrite
    BY <1>2, NeverServedPastTheWriteHolds
  <2> QED BY <2>1, <2>2, StalenessHolds, PTL
<1> QED BY <1>1, <1>2 DEF ConstantsAssumption

-----------------------------------------------------------------------------
(***************************************************************************)
(* The levels the tree shows (TreeLevels), which the listings above feed:   *)
(* a module of its own, with the same directories.  The argument is about   *)
(* what a load keeps: every action but an answer is one, from a state in    *)
(* which some levels were cleared or made stale first.                      *)
(***************************************************************************)
CONSTANTS Top, InOrder, MaxEvents, MaxFailures
VARIABLES
  folder, exclude, expanded, data, pending, generation, requests, noticed, asked, events,
  failures
Rows == INSTANCE TreeLevels WITH disk <- folder

\* What the variables are, the requests' answers included.
RowRequests ==
  [generation : Rows!Count, by : Rows!Count,
   got : UNION {[D -> Rows!Levels \cup {Rows!Awaited, Rows!Lost}] : D \in SUBSET Dirs}]

LevelValues == Rows!Levels \cup {Rows!Unloaded, Rows!Placeholder}

Typed(level, owner, sent, gen, filter) ==
  /\ level \in [Dirs -> LevelValues] /\ owner \in [Dirs -> 0 .. gen]
  /\ sent \in Seq(RowRequests)
  /\ \A i \in DOMAIN sent : sent[i].generation <= gen /\ sent[i].by <= filter

\* The numbers grow by one with each event, and never else.
RowTypes ==
  /\ folder \in [Dirs -> Rows!Count] /\ \A d \in Dirs : folder[d] <= events + 1
  /\ generation <= events + 1 /\ exclude <= events + 1
  /\ expanded \in SUBSET (Dirs \ {Top}) /\ noticed \in SUBSET Dirs
  /\ events \in 0 .. MaxEvents /\ failures \in 0 .. MaxFailures

\* Request i of sent asks for the level d, at the generation gen.
AsksFor(sent, i, d, gen) == d \in DOMAIN sent[i].got /\ sent[i].generation = gen

\* A placeholder has an owner: a generation one of whose requests asks for it.
Owned(level, owner, sent) ==
  \A d \in Dirs : level[d] = Rows!Placeholder =>
    owner[d] # 0 /\ \E i \in DOMAIN sent : AsksFor(sent, i, d, owner[d])

\* A level in view that has nothing is asked for at the present generation.
Wanted(level, sent, gen, seen) ==
  \A d \in seen : level[d] = Rows!Unloaded => \E i \in DOMAIN sent : AsksFor(sent, i, d, gen)

\* What is listed is listed by the exclude list of now; so are the answers that
\* will be stored, and those of the requests that own a placeholder (a stale one
\* of them is asked for again with its own list).
Filtered(level, owner, sent, gen, by) ==
  /\ \A d \in Dirs : level[d].state = "listed" => level[d].by = by
  /\ \A i \in DOMAIN sent :
       /\ sent[i].generation = gen => sent[i].by = by
       /\ \A d \in Dirs :
            level[d] = Rows!Placeholder /\ sent[i].generation = owner[d] => sent[i].by = by
       /\ \A d \in DOMAIN sent[i].got :
            sent[i].got[d].state = "listed" => sent[i].got[d].by = sent[i].by

\* Nothing failed yet.
AllWell(level, sent) ==
  /\ \A d \in Dirs : level[d].state # "error"
  /\ \A i \in DOMAIN sent : \A d \in DOMAIN sent[i].got :
       sent[i].got[d] \notin {Rows!Failed, Rows!Lost}

\* After request n, none asks for d at the generation gen.
NoneAsks(sent, n, d, gen) == \A j \in DOMAIN sent : j > n => ~AsksFor(sent, j, d, gen)

\* The last request for the level e, at the present generation, has yet to be
\* answered or was answered with what is on disk; or it arrived, and this is shown.
UpToDate(e, level, sent, gen, content) ==
  \/ \E i \in DOMAIN sent :
       /\ AsksFor(sent, i, e, gen) /\ NoneAsks(sent, i, e, gen)
       /\ sent[i].got[e] = Rows!Awaited \/ sent[i].got[e].of = content
  \/ level[e].state = "listed" /\ level[e].of = content /\ NoneAsks(sent, 0, e, gen)

\* Every level asked for since it came into view is fresh, or about to be named.
AllFresh(since, named, level, sent, gen, content) ==
  \A e \in since : e \in named \/ UpToDate(e, level, sent, gen, content[e])

\* A level is what its state says.
LEMMA LevelKinds ==
  /\ Rows!Unloaded.state = "none" /\ Rows!Placeholder.state = "loading"
  /\ Rows!Failed.state = "error" /\ Rows!Awaited.state = "asked" /\ Rows!Lost.state = "failed"
  /\ Rows!Unloaded # Rows!Placeholder
  /\ \A l \in LevelValues : 
       /\ l.state \in {"none", "loading", "error", "listed"}
       /\ l.state = "none" => l = Rows!Unloaded
       /\ l.state = "loading" => l = Rows!Placeholder
       /\ l.state = "error" => l = Rows!Failed
BY DEF LevelValues, Rows!Levels, Rows!Level, Rows!Unloaded, Rows!Placeholder, Rows!Failed,
       Rows!Awaited, Rows!Lost

\* What Loaded does, for the levels W that it asks for.
LoadedBy(W, paths, force, level, owner, sent, gen, by, after) ==
  /\ W = IF force THEN paths ELSE {d \in paths : level[d].state \in {"none", "error"}}
  /\ after.data = IF force THEN level
                  ELSE [d \in Dirs |-> IF d \in W THEN Rows!Placeholder ELSE level[d]]
  /\ after.pending = IF force THEN owner
                     ELSE [d \in Dirs |-> IF d \in W THEN gen ELSE owner[d]]
  /\ after.wanted = W
  /\ W = {} => after.requests = sent
  /\ W # {} =>
       LET r == [generation |-> gen, by |-> by, got |-> [d \in W |-> Rows!Awaited]] IN
       /\ after.requests = Append(sent, r)
       /\ DOMAIN after.requests = 1 .. Len(sent) + 1
       /\ \A i \in 1 .. Len(sent) : after.requests[i] = sent[i]
       /\ after.requests[Len(sent) + 1] = r

\* A level that was answered is listed, or says that it failed.
LEMMA LevelsListed ==
  \A l \in Rows!Levels : /\ l \in LevelValues /\ l.state \in {"listed", "error"}
                         /\ l.state = "error" => l = Rows!Failed
                         /\ l # Rows!Failed => l.state = "listed"
BY LevelKinds DEF LevelValues, Rows!Levels, Rows!Level

\* Loaded asks for the levels that are missing, or for all of them if forced.
LEMMA LoadedFacts ==
  ASSUME NEW paths \in SUBSET Dirs, NEW force \in BOOLEAN, NEW level, NEW owner,
         NEW sent \in Seq(RowRequests), NEW gen, NEW by, NEW after,
         after = Rows!Loaded(paths, force, level, owner, sent, gen, by)
  PROVE  \E W \in SUBSET paths : LoadedBy(W, paths, force, level, owner, sent, gen, by, after)
<1> DEFINE W == IF force THEN paths ELSE {d \in paths : level[d].state \in {"none", "error"}}
           r == [generation |-> gen, by |-> by, got |-> [d \in W |-> Rows!Awaited]]
<1>1. W \in SUBSET paths
  OBVIOUS
<1>2. W = (IF force THEN paths ELSE Rows!Missing(paths, level))
  BY DEF Rows!Missing
<1>3. r = Rows!Request(W, gen, by)
  BY DEF Rows!Request
<1>4. /\ after.data = IF force THEN level
                      ELSE [d \in Dirs |-> IF d \in W THEN Rows!Placeholder ELSE level[d]]
      /\ after.pending = IF force THEN owner
                         ELSE [d \in Dirs |-> IF d \in W THEN gen ELSE owner[d]]
      /\ after.requests = IF W = {} THEN sent ELSE Append(sent, r)
      /\ after.wanted = W
  <2> HIDE DEF W, r
  <2> QED BY <1>2, <1>3 DEF Rows!Loaded
<1>5. W # {} =>
        /\ after.requests = Append(sent, r)
        /\ DOMAIN after.requests = 1 .. Len(sent) + 1
        /\ \A i \in 1 .. Len(sent) : after.requests[i] = sent[i]
        /\ after.requests[Len(sent) + 1] = r
  <2> HIDE DEF W, r
  <2> QED BY <1>4
<1>6. W = {} => after.requests = sent
  BY <1>4
<1>7. LoadedBy(W, paths, force, level, owner, sent, gen, by, after)
  BY <1>4, <1>5, <1>6 DEF LoadedBy
<1> QED BY <1>1, <1>7

\* What is in view is asked for now, or was well before.
Cover(paths, rest, seen) ==
  /\ paths \in SUBSET Dirs /\ seen \in SUBSET Dirs /\ \A d \in seen : d \in paths \/ d \in rest

\* Loading gives every placeholder it makes an owner, and asks for what is in view.
LEMMA LoadKeepsOwned ==
  ASSUME NEW paths, NEW force \in BOOLEAN, NEW level, NEW owner, NEW sent, NEW gen \in Nat \ {0},
         NEW by, NEW filter, NEW after, NEW seen, NEW rest,
         Cover(paths, rest, seen), Typed(level, owner, sent, gen, filter),
         after = Rows!Loaded(paths, force, level, owner, sent, gen, by),
         Owned(level, owner, sent), Wanted(level, sent, gen, rest)
  PROVE  /\ Owned(after.data, after.pending, after.requests)
         /\ Wanted(after.data, after.requests, gen, seen)
<1>t. /\ paths \in SUBSET Dirs /\ level \in [Dirs -> LevelValues] /\ owner \in [Dirs -> 0 .. gen]
      /\ sent \in Seq(RowRequests)
  BY DEF Typed, Cover
<1>0. PICK W \in SUBSET paths : LoadedBy(W, paths, force, level, owner, sent, gen, by, after)
  BY <1>t, LoadedFacts
<1>1. /\ W = IF force THEN paths ELSE {d \in paths : level[d].state \in {"none", "error"}}
      /\ after.data = IF force THEN level
                      ELSE [d \in Dirs |-> IF d \in W THEN Rows!Placeholder ELSE level[d]]
      /\ after.pending = IF force THEN owner
                         ELSE [d \in Dirs |-> IF d \in W THEN gen ELSE owner[d]]
      /\ W = {} => after.requests = sent
      /\ W # {} =>
           /\ DOMAIN after.requests = 1 .. Len(sent) + 1
           /\ \A i \in 1 .. Len(sent) : after.requests[i] = sent[i]
           /\ after.requests[Len(sent) + 1] =
                [generation |-> gen, by |-> by, got |-> [d \in W |-> Rows!Awaited]]
  BY <1>0 DEF LoadedBy
<1>2. DOMAIN sent = 1 .. Len(sent) /\ Len(sent) \in Nat
  BY <1>t
<1>3. ASSUME NEW i \in DOMAIN sent, NEW d, NEW g, AsksFor(sent, i, d, g)
      PROVE  i \in DOMAIN after.requests /\ AsksFor(after.requests, i, d, g)
  BY <1>1, <1>2, <1>3 DEF AsksFor
<1>4. ASSUME NEW d \in W
      PROVE  \E i \in DOMAIN after.requests : AsksFor(after.requests, i, d, gen)
  <2>1. AsksFor(after.requests, Len(sent) + 1, d, gen)
    BY <1>1 DEF AsksFor
  <2> QED BY <1>1, <1>2, <2>1
<1>5. ASSUME NEW d \in Dirs, after.data[d] = Rows!Placeholder
      PROVE  /\ after.pending[d] # 0
             /\ \E i \in DOMAIN after.requests : AsksFor(after.requests, i, d, after.pending[d])
  <2>1. CASE ~force /\ d \in W
    BY <1>1, <1>4, <1>t, <2>1
  <2>2. CASE force \/ d \notin W
    <3>1. level[d] = Rows!Placeholder /\ after.pending[d] = owner[d]
      BY <1>1, <1>5, <1>t, <2>2
    <3> QED BY <1>3, <3>1 DEF Owned
  <2> QED BY <2>1, <2>2
<1>s. seen \in SUBSET Dirs
  BY DEF Cover
<1>6. ASSUME NEW d \in seen, after.data[d] = Rows!Unloaded
      PROVE  \E i \in DOMAIN after.requests : AsksFor(after.requests, i, d, gen)
  <2>1. CASE d \in W
    BY <1>4, <2>1
  <2>2. CASE d \notin W
    <3>1. level[d] = Rows!Unloaded
      BY <1>1, <1>6, <1>s, <1>t, <2>2
    <3>2. d \notin paths
      BY <1>1, <1>s, <1>t, <2>2, <3>1, LevelKinds
    <3> QED BY <1>3, <3>1, <3>2 DEF Wanted, Cover
  <2> QED BY <2>1, <2>2
<1> QED BY <1>5, <1>6 DEF Owned, Wanted

\* Loading keeps to the exclude list of now, if it asks by it.
LEMMA LoadKeepsFiltered ==
  ASSUME NEW paths \in SUBSET Dirs, NEW force \in BOOLEAN, NEW level \in [Dirs -> LevelValues],
         NEW owner \in [Dirs -> Nat], NEW sent \in Seq(RowRequests), NEW gen \in Nat \ {0},
         NEW by, NEW filter, NEW after,
         after = Rows!Loaded(paths, force, level, owner, sent, gen, by),
         paths # {} => by = filter, Filtered(level, owner, sent, gen, filter)
  PROVE  Filtered(after.data, after.pending, after.requests, gen, filter)
<1>0. PICK W \in SUBSET paths : LoadedBy(W, paths, force, level, owner, sent, gen, by, after)
  BY LoadedFacts
<1>1. /\ W = IF force THEN paths ELSE {d \in paths : level[d].state \in {"none", "error"}}
      /\ after.data = IF force THEN level
                      ELSE [d \in Dirs |-> IF d \in W THEN Rows!Placeholder ELSE level[d]]
      /\ after.pending = IF force THEN owner
                         ELSE [d \in Dirs |-> IF d \in W THEN gen ELSE owner[d]]
      /\ W = {} => after.requests = sent
      /\ W # {} =>
           /\ DOMAIN after.requests = 1 .. Len(sent) + 1
           /\ \A i \in 1 .. Len(sent) : after.requests[i] = sent[i]
           /\ after.requests[Len(sent) + 1] =
                [generation |-> gen, by |-> by, got |-> [d \in W |-> Rows!Awaited]]
  BY <1>0 DEF LoadedBy
<1>2. DOMAIN sent = 1 .. Len(sent) /\ Len(sent) \in Nat
  OBVIOUS
<1>3. ASSUME NEW d \in Dirs, after.data[d].state = "listed" PROVE after.data[d].by = filter
  <2>1. after.data[d] = level[d]
    BY <1>1, <1>3, LevelKinds
  <2> QED BY <1>3, <2>1 DEF Filtered
<1>4. ASSUME NEW i \in DOMAIN after.requests
      PROVE  /\ after.requests[i].generation = gen => after.requests[i].by = filter
             /\ \A d \in Dirs :
                  /\ after.data[d] = Rows!Placeholder
                  /\ after.requests[i].generation = after.pending[d]
                  => after.requests[i].by = filter
             /\ \A d \in DOMAIN after.requests[i].got :
                  after.requests[i].got[d].state = "listed"
                    => after.requests[i].got[d].by = after.requests[i].by
  <2>1. CASE i \in DOMAIN sent
    <3>1. after.requests[i] = sent[i]
      BY <1>1, <1>2, <2>1
    <3>2. ASSUME NEW d \in Dirs, after.data[d] = Rows!Placeholder,
                 sent[i].generation = after.pending[d]
          PROVE  sent[i].by = filter
      <4>1. \/ level[d] = Rows!Placeholder /\ after.pending[d] = owner[d]
            \/ after.pending[d] = gen
        BY <1>1, <3>2
      <4> QED BY <2>1, <3>2, <4>1 DEF Filtered
    <3>3. /\ sent[i].generation = gen => sent[i].by = filter
          /\ \A d \in DOMAIN sent[i].got :
               sent[i].got[d].state = "listed" => sent[i].got[d].by = sent[i].by
      BY <2>1 DEF Filtered
    <3> QED BY <3>1, <3>2, <3>3
  <2>2. CASE i \notin DOMAIN sent
    <3>1. W # {} /\ i = Len(sent) + 1
      BY <1>1, <1>2, <2>2
    <3>2. after.requests[i] = [generation |-> gen, by |-> by, got |-> [d \in W |-> Rows!Awaited]]
      BY <1>1, <3>1
    <3>3. after.requests[i].by = filter
      BY <3>1, <3>2
    <3>4. \A d \in DOMAIN after.requests[i].got : after.requests[i].got[d] = Rows!Awaited
      BY <3>2
    <3> QED BY <3>3, <3>4, LevelKinds
  <2> QED BY <2>1, <2>2
<1> QED BY <1>3, <1>4 DEF Filtered

\* Loading keeps a level fresh, and makes it so if it asks for it.
LEMMA LoadKeepsFresh ==
  ASSUME NEW paths \in SUBSET Dirs, NEW force \in BOOLEAN, NEW level, NEW owner,
         NEW sent, NEW gen, NEW by, NEW filter, NEW content, NEW after, NEW e \in Dirs,
         Typed(level, owner, sent, gen, filter),
         after = Rows!Loaded(paths, force, level, owner, sent, gen, by),
         \/ UpToDate(e, level, sent, gen, content)
         \/ e \in after.wanted
         \/ e \in paths /\ (force \/ level[e] = Rows!Unloaded)
  PROVE  UpToDate(e, after.data, after.requests, gen, content)
<1>t. level \in [Dirs -> LevelValues] /\ sent \in Seq(RowRequests)
  BY DEF Typed
<1>0. PICK W \in SUBSET paths : LoadedBy(W, paths, force, level, owner, sent, gen, by, after)
  BY <1>t, LoadedFacts
<1>1. /\ after.wanted = W
      /\ W = IF force THEN paths ELSE {d \in paths : level[d].state \in {"none", "error"}}
      /\ after.data = IF force THEN level
                      ELSE [d \in Dirs |-> IF d \in W THEN Rows!Placeholder ELSE level[d]]
      /\ after.pending = IF force THEN owner
                         ELSE [d \in Dirs |-> IF d \in W THEN gen ELSE owner[d]]
      /\ W = {} => after.requests = sent
      /\ W # {} =>
           /\ DOMAIN after.requests = 1 .. Len(sent) + 1
           /\ \A i \in 1 .. Len(sent) : after.requests[i] = sent[i]
           /\ after.requests[Len(sent) + 1] =
                [generation |-> gen, by |-> by, got |-> [d \in W |-> Rows!Awaited]]
  BY <1>0 DEF LoadedBy
<1>2. DOMAIN sent = 1 .. Len(sent) /\ Len(sent) \in Nat
  BY <1>t
<1>3. CASE e \in W
  <2> DEFINE n == Len(sent) + 1
  <2>1. /\ n \in DOMAIN after.requests /\ AsksFor(after.requests, n, e, gen)
        /\ after.requests[n].got[e] = Rows!Awaited
    BY <1>1, <1>2, <1>3 DEF AsksFor
  <2>2. NoneAsks(after.requests, n, e, gen)
    BY <1>1, <1>2, <1>3 DEF NoneAsks
  <2> HIDE DEF n
  <2> QED BY <2>1, <2>2 DEF UpToDate
<1>4. CASE e \notin W
  <2>1. UpToDate(e, level, sent, gen, content)
    BY <1>1, <1>4, <1>t, LevelKinds
  <2>2. after.data[e] = level[e]
    BY <1>1, <1>4, <1>t
  <2>3. ASSUME NEW i \in DOMAIN sent
        PROVE  i \in DOMAIN after.requests /\ after.requests[i] = sent[i]
    BY <1>1, <1>2
  <2>4. ASSUME NEW n \in Nat, NoneAsks(sent, n, e, gen)
        PROVE  NoneAsks(after.requests, n, e, gen)
    <3> SUFFICES ASSUME NEW j \in DOMAIN after.requests, j > n, AsksFor(after.requests, j, e, gen)
                 PROVE  FALSE
      BY DEF NoneAsks
    <3>1. CASE j \in DOMAIN sent
      BY <2>3, <2>4, <3>1 DEF NoneAsks, AsksFor
    <3>2. CASE j \notin DOMAIN sent
      BY <1>1, <1>2, <1>4, <3>2 DEF AsksFor
    <3> QED BY <3>1, <3>2
  <2>5. CASE \E i \in DOMAIN sent :
               /\ AsksFor(sent, i, e, gen) /\ NoneAsks(sent, i, e, gen)
               /\ sent[i].got[e] = Rows!Awaited \/ sent[i].got[e].of = content
    <3>1. PICK i \in DOMAIN sent :
               /\ AsksFor(sent, i, e, gen) /\ NoneAsks(sent, i, e, gen)
               /\ sent[i].got[e] = Rows!Awaited \/ sent[i].got[e].of = content
      BY <2>5
    <3>2. i \in Nat
      BY <1>2
    <3>3. /\ i \in DOMAIN after.requests /\ AsksFor(after.requests, i, e, gen)
          /\ NoneAsks(after.requests, i, e, gen)
          /\ after.requests[i].got[e] = Rows!Awaited \/ after.requests[i].got[e].of = content
      BY <2>3, <2>4, <3>1, <3>2 DEF AsksFor
    <3> QED BY <3>3 DEF UpToDate
  <2>6. CASE level[e].state = "listed" /\ level[e].of = content /\ NoneAsks(sent, 0, e, gen)
    BY <2>2, <2>4, <2>6 DEF UpToDate
  <2> QED BY <2>1, <2>5, <2>6 DEF UpToDate
<1> QED BY <1>3, <1>4

\* Every level of since is named, up to date, or listed again by a load of paths.
Due(since, named, paths, force, level, sent, gen, content) ==
  \A e \in since : \/ e \in named \/ UpToDate(e, level, sent, gen, content[e])
                   \/ e \in paths /\ (force \/ level[e] = Rows!Unloaded)

\* So loading keeps all up to date that were, and those it asks for again.
LEMMA LoadKeepsAll ==
  ASSUME NEW paths \in SUBSET Dirs, NEW force \in BOOLEAN, NEW level, NEW owner,
         NEW sent, NEW gen, NEW by, NEW filter, NEW content, NEW after,
         NEW since \in SUBSET Dirs, NEW named, NEW later,
         Typed(level, owner, sent, gen, filter),
         after = Rows!Loaded(paths, force, level, owner, sent, gen, by),
         later \subseteq since \cup after.wanted,
         Due(since, named, paths, force, level, sent, gen, content)
  PROVE  AllFresh(later, named, after.data, after.requests, gen, content)
<1>1. sent \in Seq(RowRequests)
  BY DEF Typed
<1>2. PICK W \in SUBSET paths : LoadedBy(W, paths, force, level, owner, sent, gen, by, after)
  BY <1>1, LoadedFacts
<1>3. after.wanted \in SUBSET Dirs
  BY <1>2 DEF LoadedBy
<1>4. ASSUME NEW e \in later, e \notin named
      PROVE  UpToDate(e, after.data, after.requests, gen, content[e])
  <2>1. e \in Dirs
    BY <1>3
  <2>2. e \in since \/ e \in after.wanted
    BY <1>4
  <2>3. \/ UpToDate(e, level, sent, gen, content[e]) \/ e \in after.wanted
        \/ e \in paths /\ (force \/ level[e] = Rows!Unloaded)
    BY <1>4, <2>2 DEF Due
  <2> QED BY <2>1, <2>3, LoadKeepsFresh
<1> QED BY <1>4 DEF AllFresh

\* Loading does not fail.
LEMMA LoadKeepsUnfailed ==
  ASSUME NEW paths \in SUBSET Dirs, NEW force \in BOOLEAN, NEW level, NEW owner,
         NEW sent, NEW gen, NEW by, NEW filter, NEW after,
         Typed(level, owner, sent, gen, filter),
         after = Rows!Loaded(paths, force, level, owner, sent, gen, by),
         AllWell(level, sent)
  PROVE  AllWell(after.data, after.requests)
<1>t. level \in [Dirs -> LevelValues] /\ sent \in Seq(RowRequests)
  BY DEF Typed
<1>0. PICK W \in SUBSET paths : LoadedBy(W, paths, force, level, owner, sent, gen, by, after)
  BY <1>t, LoadedFacts
<1>1. /\ W = IF force THEN paths ELSE {d \in paths : level[d].state \in {"none", "error"}}
      /\ after.data = IF force THEN level
                      ELSE [d \in Dirs |-> IF d \in W THEN Rows!Placeholder ELSE level[d]]
      /\ W = {} => after.requests = sent
      /\ W # {} =>
           /\ DOMAIN after.requests = 1 .. Len(sent) + 1
           /\ \A i \in 1 .. Len(sent) : after.requests[i] = sent[i]
           /\ after.requests[Len(sent) + 1] =
                [generation |-> gen, by |-> by, got |-> [d \in W |-> Rows!Awaited]]
  BY <1>0 DEF LoadedBy
<1>2. \A d \in Dirs : after.data[d].state # "error"
  BY <1>1, <1>t, LevelKinds DEF AllWell
<1>3. ASSUME NEW i \in DOMAIN after.requests, NEW d \in DOMAIN after.requests[i].got
      PROVE  after.requests[i].got[d] \notin {Rows!Failed, Rows!Lost}
  <2>1. CASE i \in 1 .. Len(sent)
    BY <1>1, <1>3, <1>t, <2>1 DEF AllWell
  <2>2. CASE i \notin 1 .. Len(sent)
    <3>1. W # {} /\ i = Len(sent) + 1
      BY <1>1, <1>3, <1>t, <2>2
    <3> QED BY <1>1, <3>1, LevelKinds
  <2> QED BY <2>1, <2>2
<1> QED BY <1>2, <1>3 DEF AllWell

\* The types after loading.
LEMMA LoadTypes ==
  ASSUME NEW paths \in SUBSET Dirs, NEW force \in BOOLEAN, NEW level, NEW owner, NEW sent,
         NEW gen \in Rows!Count,
         NEW by \in Rows!Count, NEW filter \in Rows!Count, NEW after,
         after = Rows!Loaded(paths, force, level, owner, sent, gen, by),
         paths # {} => by = filter, MaxEvents \in Nat, Typed(level, owner, sent, gen, filter)
  PROVE  Typed(after.data, after.pending, after.requests, gen, filter)
<1>t. /\ level \in [Dirs -> LevelValues] /\ owner \in [Dirs -> 0 .. gen]
      /\ sent \in Seq(RowRequests)
      /\ \A i \in DOMAIN sent : sent[i].generation <= gen /\ sent[i].by <= filter
  BY DEF Typed
<1>0. PICK W \in SUBSET paths : LoadedBy(W, paths, force, level, owner, sent, gen, by, after)
  BY <1>t, LoadedFacts
<1>1. /\ W = IF force THEN paths ELSE {d \in paths : level[d].state \in {"none", "error"}}
      /\ after.data = IF force THEN level
                      ELSE [d \in Dirs |-> IF d \in W THEN Rows!Placeholder ELSE level[d]]
      /\ after.pending = IF force THEN owner
                         ELSE [d \in Dirs |-> IF d \in W THEN gen ELSE owner[d]]
      /\ W = {} => after.requests = sent
      /\ W # {} =>
           /\ after.requests =
                Append(sent, [generation |-> gen, by |-> by, got |-> [d \in W |-> Rows!Awaited]])
           /\ DOMAIN after.requests = 1 .. Len(sent) + 1
           /\ \A i \in 1 .. Len(sent) : after.requests[i] = sent[i]
           /\ after.requests[Len(sent) + 1] =
                [generation |-> gen, by |-> by, got |-> [d \in W |-> Rows!Awaited]]
  BY <1>0 DEF LoadedBy
<1>2. after.data \in [Dirs -> LevelValues]
  BY <1>1, <1>t DEF LevelValues
<1>3. gen \in 0 .. gen
  BY DEF Rows!Count
<1>4. after.pending \in [Dirs -> 0 .. gen]
  BY <1>1, <1>3, <1>t
<1>5. PICK r : r = [generation |-> gen, by |-> by, got |-> [d \in W |-> Rows!Awaited]]
  OBVIOUS
<1>6. r \in RowRequests
  <2>1. [d \in W |-> Rows!Awaited] \in [W -> Rows!Levels \cup {Rows!Awaited, Rows!Lost}]
    OBVIOUS
  <2>2. W \in SUBSET Dirs
    OBVIOUS
  <2>3. r.got \in UNION {[D -> Rows!Levels \cup {Rows!Awaited, Rows!Lost}] : D \in SUBSET Dirs}
    BY <1>5, <2>1, <2>2
  <2> QED BY <1>5, <2>3 DEF RowRequests
<1>7. after.requests \in Seq(RowRequests)
  <2>1. CASE W = {}
    BY <1>1, <1>t, <2>1
  <2>2. CASE W # {}
    <3>1. after.requests = Append(sent, r)
      BY <1>1, <1>5, <2>2
    <3> QED BY <1>6, <1>t, <3>1
  <2> QED BY <2>1, <2>2
<1>8. ASSUME NEW i \in DOMAIN after.requests
      PROVE  after.requests[i].generation <= gen /\ after.requests[i].by <= filter
  <2>0. DOMAIN sent = 1 .. Len(sent) /\ Len(sent) \in Nat
    BY <1>t
  <2>1. CASE i \in DOMAIN sent
    <3>1. after.requests[i] = sent[i]
      BY <1>1, <2>0, <2>1
    <3> QED BY <1>t, <2>1, <3>1
  <2>2. CASE i \notin DOMAIN sent
    <3>1. W # {} /\ i = Len(sent) + 1
      BY <1>1, <1>8, <2>0, <2>2
    <3> QED BY <1>1, <3>1 DEF Rows!Count
  <2> QED BY <2>1, <2>2
<1> QED BY <1>2, <1>4, <1>7, <1>8 DEF Typed

\* The four together: what a load keeps.
Sound(level, owner, sent, gen, filter, seen) ==
  /\ gen \in Rows!Count /\ filter \in Rows!Count
  /\ Typed(level, owner, sent, gen, filter)
  /\ Owned(level, owner, sent) /\ Wanted(level, sent, gen, seen)
  /\ Filtered(level, owner, sent, gen, filter)

\* What was asked for since it came into view is in view, and the top is.
Viewed(since, seen) == since \in SUBSET seen /\ Top \in since

\* The inductive invariant.
RowsInv ==
  /\ RowTypes /\ Viewed(asked, Rows!Visible)
  /\ Sound(data, pending, requests, generation, exclude, Rows!Visible)
  /\ failures = 0 => AllWell(data, requests)
  /\ InOrder /\ failures = 0 => AllFresh(asked, noticed, data, requests, generation, folder)

\* Loading keeps the rows sound, and makes sound what is in view.
LEMMA LoadKeeps ==
  ASSUME MaxEvents \in Nat, NEW paths, NEW rest, NEW seen, Cover(paths, rest, seen),
         NEW level, NEW owner, NEW sent, NEW gen, NEW filter, NEW by \in Rows!Count,
         Sound(level, owner, sent, gen, filter, rest),
         paths # {} => by = filter, NEW force \in BOOLEAN, NEW after,
         after = Rows!Loaded(paths, force, level, owner, sent, gen, by)
  PROVE  Sound(after.data, after.pending, after.requests, gen, filter, seen)
<1>1. /\ gen \in Nat \ {0} /\ gen \in Nat /\ filter \in Nat
      /\ gen \in Rows!Count /\ filter \in Rows!Count
  BY DEF Sound, Rows!Count
<1>2. /\ owner \in [Dirs -> Nat] /\ level \in [Dirs -> LevelValues]
      /\ sent \in Seq(RowRequests) /\ Typed(level, owner, sent, gen, filter)
  BY <1>1 DEF Sound, Typed
<1>3. paths \in SUBSET Dirs /\ seen \in SUBSET Dirs
  BY DEF Cover
<1>4. Owned(level, owner, sent) /\ Wanted(level, sent, gen, rest)
  BY DEF Sound, Cover, Wanted
<1>5. /\ Owned(after.data, after.pending, after.requests)
      /\ Wanted(after.data, after.requests, gen, seen)
  BY <1>1, <1>2, <1>4, LoadKeepsOwned
<1>6. Filtered(after.data, after.pending, after.requests, gen, filter)
  BY <1>1, <1>2, <1>3, LoadKeepsFiltered DEF Sound
<1>7. Typed(after.data, after.pending, after.requests, gen, filter)
  BY <1>1, <1>2, <1>3, LoadTypes
<1> QED BY <1>1, <1>5, <1>6, <1>7 DEF Sound

\* The invariant after a step, from its parts.
LEMMA Gathered ==
  ASSUME RowTypes', Viewed(asked', Rows!Visible'),
         Sound(data', pending', requests', generation', exclude', Rows!Visible'),
         failures' = 0 => AllWell(data', requests'),
         InOrder /\ failures' = 0
           => AllFresh(asked', noticed', data', requests', generation', folder')
  PROVE  RowsInv'
BY DEF RowsInv

\* A request's numbers.
LEMMA RequestNumbers ==
  ASSUME MaxEvents \in Nat, NEW s \in Seq(RowRequests), NEW i \in DOMAIN s
  PROVE  s[i].generation \in Nat \ {0} /\ s[i].by \in Nat
<1>1. s[i] \in RowRequests
  OBVIOUS
<1> QED BY <1>1 DEF RowRequests, Rows!Count

\* What the invariant says, in the words of the lemmas about Loaded.
LEMMA Unfolded ==
  ASSUME Rows!ConstantsAssumption, RowsInv
  PROVE  /\ asked \in SUBSET Rows!Visible /\ asked \in SUBSET Dirs /\ Top \in asked
         /\ RowTypes /\ Sound(data, pending, requests, generation, exclude, Rows!Visible)
         /\ Typed(data, pending, requests, generation, exclude)
         /\ data \in [Dirs -> LevelValues] /\ pending \in [Dirs -> 0 .. generation]
         /\ requests \in Seq(RowRequests)
         /\ exclude \in Rows!Count /\ generation \in Rows!Count
         /\ exclude \in Nat \ {0} /\ generation \in Nat \ {0}
         /\ failures = 0 => AllWell(data, requests)
         /\ InOrder /\ failures = 0
              => AllFresh(asked, noticed, data, requests, generation, folder)
         /\ Top \in Dirs /\ MaxEvents \in Nat /\ events \in 0 .. MaxEvents
         /\ expanded \in SUBSET (Dirs \ {Top}) /\ Rows!Visible \in SUBSET Dirs
         /\ Rows!Visible = {Top} \cup expanded
<1>1. /\ RowTypes /\ Sound(data, pending, requests, generation, exclude, Rows!Visible)
      /\ failures = 0 => AllWell(data, requests)
      /\ InOrder /\ failures = 0
           => AllFresh(asked, noticed, data, requests, generation, folder)
  BY DEF RowsInv
<1>2. /\ Typed(data, pending, requests, generation, exclude)
      /\ exclude \in Rows!Count /\ generation \in Rows!Count
  BY <1>1 DEF Sound
<1>3. /\ data \in [Dirs -> LevelValues] /\ pending \in [Dirs -> 0 .. generation]
      /\ requests \in Seq(RowRequests)
  BY <1>2 DEF Typed
<1>4. /\ Top \in Dirs /\ MaxEvents \in Nat /\ events \in 0 .. MaxEvents
      /\ expanded \in SUBSET (Dirs \ {Top}) /\ Rows!Visible \in SUBSET Dirs
      /\ Rows!Visible = {Top} \cup expanded
  BY <1>1 DEF Rows!ConstantsAssumption, RowTypes, Rows!Visible
<1>6. asked \in SUBSET Rows!Visible /\ asked \in SUBSET Dirs /\ Top \in asked
  BY <1>4 DEF RowsInv, Viewed
<1>5. exclude \in Nat \ {0} /\ generation \in Nat \ {0}
  BY <1>2, <1>4 DEF Rows!Count
<1> QED BY <1>1, <1>2, <1>3, <1>4, <1>5, <1>6

\* What is asked for is added if it is in view.
LEMMA ViewedNext ==
  ASSUME Rows!ConstantsAssumption, RowsInv,
         \/ asked' = asked /\ expanded' = expanded
         \/ \E W : asked' = (asked \cup W) \cap Rows!Visible'
  PROVE  Viewed(asked', Rows!Visible')
<1>1. Top \in Rows!Visible'
  BY DEF Rows!Visible
<1>2. CASE asked' = asked /\ expanded' = expanded
  BY <1>2, Unfolded DEF Viewed, Rows!Visible
<1>3. CASE \E W : asked' = (asked \cup W) \cap Rows!Visible'
  BY <1>1, <1>3, Unfolded DEF Viewed
<1> QED BY <1>2, <1>3

\* An event takes one of the events there are.
LEMMA TypesNext ==
  ASSUME Rows!ConstantsAssumption, RowsInv, Rows!Event \/ UNCHANGED events,
         generation' = generation \/ (Rows!Event /\ generation' = generation + 1),
         exclude' = exclude \/ (Rows!Event /\ exclude' = exclude + 1),
         \/ folder' = folder
         \/ Rows!Event /\ \E d \in Dirs : folder' = [folder EXCEPT ![d] = @ + 1],
         expanded' \in SUBSET (Dirs \ {Top}), noticed' \in SUBSET Dirs,
         failures' \in 0 .. MaxFailures
  PROVE  RowTypes' /\ generation' \in Rows!Count /\ exclude' \in Rows!Count
<1>1. /\ events \in 0 .. MaxEvents /\ MaxEvents \in Nat
      /\ generation \in Rows!Count /\ generation <= events + 1
      /\ exclude \in Rows!Count /\ exclude <= events + 1
      /\ folder \in [Dirs -> Rows!Count] /\ \A d \in Dirs : folder[d] <= events + 1
  BY Unfolded DEF RowTypes
<1>2. /\ events' \in 0 .. MaxEvents
      /\ \/ events' = events /\ generation' = generation /\ exclude' = exclude /\ folder' = folder
         \/ events' = events + 1 /\ events < MaxEvents
  BY <1>1 DEF Rows!Event
<1>3. /\ generation' \in 1 .. MaxEvents + 1 /\ generation' <= events' + 1
      /\ exclude' \in 1 .. MaxEvents + 1 /\ exclude' <= events' + 1
  <2>1. generation \in 1 .. MaxEvents + 1 /\ exclude \in 1 .. MaxEvents + 1
    BY <1>1 DEF Rows!Count
  <2>2. CASE events' = events
    BY <1>1, <1>2, <2>1, <2>2
  <2>3. CASE events' = events + 1 /\ events < MaxEvents
    <3>1. generation' \in {generation, generation + 1} /\ exclude' \in {exclude, exclude + 1}
      OBVIOUS
    <3> QED BY <1>1, <2>1, <2>3, <3>1
  <2> QED BY <1>2, <2>2, <2>3
<1>4. folder' \in [Dirs -> Rows!Count] /\ \A d \in Dirs : folder'[d] <= events' + 1
  BY <1>1, <1>2 DEF Rows!Event, Rows!Count
<1> QED BY <1>2, <1>3, <1>4 DEF RowTypes, Rows!Count

\* A folder is opened or closed.
LEMMA ToggleKeeps ==
  ASSUME Rows!ConstantsAssumption, RowsInv, NEW d \in Dirs, Rows!Toggle(d)
  PROVE  RowsInv'
<1>1. /\ Rows!Event /\ expanded' \in SUBSET (Dirs \ {Top})
      /\ folder' = folder /\ exclude' = exclude /\ generation' = generation /\ noticed' = noticed
      /\ failures' = failures
  BY Unfolded DEF Rows!Toggle
<1>2. PICK seen \in SUBSET Dirs : seen = {Top} \cup expanded' /\ seen = Rows!Visible'
  BY <1>1, Unfolded DEF Rows!Visible
<1>3. PICK after :
        /\ after = Rows!Loaded(seen, FALSE, data, pending, requests, generation, exclude)
        /\ data' = after.data /\ pending' = after.pending /\ requests' = after.requests
        /\ asked' = (asked \cup after.wanted) \cap Rows!Visible'
  BY <1>2 DEF Rows!Toggle, Rows!Becomes
<1>4. Cover(seen, Rows!Visible, seen)
  BY DEF Cover
<1>5. Sound(after.data, after.pending, after.requests, generation, exclude, seen)
  BY <1>3, <1>4, Unfolded, LoadKeeps
<1>6. AllWell(data, requests) => AllWell(after.data, after.requests)
  BY <1>3, Unfolded, LoadKeepsUnfailed
<1>7. AllFresh(asked, noticed, data, requests, generation, folder)
        => AllFresh(asked', noticed, after.data, after.requests, generation, folder)
  <2> SUFFICES ASSUME AllFresh(asked, noticed, data, requests, generation, folder)
               PROVE  AllFresh(asked', noticed, after.data, after.requests, generation, folder)
    OBVIOUS
  <2>1. Due(asked, noticed, seen, FALSE, data, requests, generation, folder)
    BY DEF AllFresh, Due
  <2>2. asked' \subseteq asked \cup after.wanted
    BY <1>3
  <2> QED BY <1>3, <2>1, <2>2, Unfolded, LoadKeepsAll
<1>8. RowTypes'
  BY <1>1, Unfolded, TypesNext DEF RowTypes
<1>9. Sound(data', pending', requests', generation', exclude', Rows!Visible')
  BY <1>1, <1>2, <1>3, <1>5
<1>10. failures' = 0 => AllWell(data', requests')
  BY <1>1, <1>3, <1>6, Unfolded
<1>11. InOrder /\ failures' = 0
         => AllFresh(asked', noticed', data', requests', generation', folder')
  BY <1>1, <1>3, <1>7, Unfolded
<1>v. Viewed(asked', Rows!Visible')
  BY <1>3, ViewedNext
<1> QED BY <1>v, <1>8, <1>9, <1>10, <1>11, Gathered

\* A folder is loaded ahead.
LEMMA FoldKeeps ==
  ASSUME Rows!ConstantsAssumption, RowsInv, NEW d \in Dirs, Rows!Fold(d)
  PROVE  RowsInv'
<1>1. /\ Rows!Event /\ expanded' = expanded
      /\ folder' = folder /\ exclude' = exclude /\ generation' = generation /\ noticed' = noticed
      /\ failures' = failures
  BY DEF Rows!Fold
<1>2. PICK paths \in SUBSET Dirs : paths = {d}
  OBVIOUS
<1>3. PICK after :
        /\ after = Rows!Loaded(paths, FALSE, data, pending, requests, generation, exclude)
        /\ data' = after.data /\ pending' = after.pending /\ requests' = after.requests
        /\ asked' = (asked \cup after.wanted) \cap Rows!Visible'
  BY <1>2 DEF Rows!Fold, Rows!Becomes
<1>4. Cover(paths, Rows!Visible, Rows!Visible)
  BY Unfolded DEF Cover
<1>5. Sound(after.data, after.pending, after.requests, generation, exclude, Rows!Visible)
  BY <1>3, <1>4, Unfolded, LoadKeeps
<1>6. AllWell(data, requests) => AllWell(after.data, after.requests)
  BY <1>3, Unfolded, LoadKeepsUnfailed
<1>7. AllFresh(asked, noticed, data, requests, generation, folder)
        => AllFresh(asked', noticed, after.data, after.requests, generation, folder)
  <2> SUFFICES ASSUME AllFresh(asked, noticed, data, requests, generation, folder)
               PROVE  AllFresh(asked', noticed, after.data, after.requests, generation, folder)
    OBVIOUS
  <2>1. Due(asked, noticed, paths, FALSE, data, requests, generation, folder)
    BY DEF AllFresh, Due
  <2>2. asked' \subseteq asked \cup after.wanted
    BY <1>3
  <2> QED BY <1>3, <2>1, <2>2, Unfolded, LoadKeepsAll
<1>8. RowTypes'
  BY <1>1, Unfolded, TypesNext DEF RowTypes
<1>9. Sound(data', pending', requests', generation', exclude', Rows!Visible')
  BY <1>1, <1>3, <1>5 DEF Rows!Visible
<1>10. failures' = 0 => AllWell(data', requests')
  BY <1>1, <1>3, <1>6, Unfolded
<1>11. InOrder /\ failures' = 0
         => AllFresh(asked', noticed', data', requests', generation', folder')
  BY <1>1, <1>3, <1>7, Unfolded
<1>v. Viewed(asked', Rows!Visible')
  BY <1>3, ViewedNext
<1> QED BY <1>v, <1>8, <1>9, <1>10, <1>11, Gathered

\* A refresh: nothing that is under way is of the new generation.
LEMMA RefreshKeeps ==
  ASSUME Rows!ConstantsAssumption, RowsInv, Rows!Refresh
  PROVE  RowsInv'
<1>1. /\ Rows!Event /\ expanded' = expanded
      /\ folder' = folder /\ exclude' = exclude /\ generation' = generation + 1
      /\ noticed' = noticed /\ failures' = failures
  BY DEF Rows!Refresh
<1>2. PICK next : next = generation'
  OBVIOUS
<1>3. PICK after :
        /\ after = Rows!Loaded(Rows!Visible, TRUE, data, pending, requests, next, exclude)
        /\ data' = after.data /\ pending' = after.pending /\ requests' = after.requests
        /\ asked' = (asked \cup after.wanted) \cap Rows!Visible'
  BY <1>2 DEF Rows!Refresh, Rows!Becomes
<1>4. Cover(Rows!Visible, {}, Rows!Visible)
  BY Unfolded DEF Cover
<1>5. RowTypes' /\ next \in Rows!Count /\ next = generation + 1
  BY <1>1, <1>2, Unfolded, TypesNext DEF RowTypes
<1>6. Sound(data, pending, requests, next, exclude, {})
  <2>1. Typed(data, pending, requests, next, exclude)
    <3>1. 0 .. generation \subseteq 0 .. next /\ \A n \in Nat : n <= generation => n <= next
      BY <1>5, Unfolded
    <3>2. \A i \in DOMAIN requests : requests[i].generation \in Nat
      BY Unfolded, RequestNumbers
    <3> QED BY <3>1, <3>2, Unfolded DEF Typed
  <2>2. Filtered(data, pending, requests, next, exclude)
    <3>1. Filtered(data, pending, requests, generation, exclude)
      BY Unfolded DEF Sound
    <3>2. \A i \in DOMAIN requests : requests[i].generation # next
      <4>1. \A i \in DOMAIN requests :
              requests[i].generation <= generation /\ requests[i].generation \in Nat
        BY Unfolded, RequestNumbers DEF Typed
      <4> QED BY <1>5, <4>1, Unfolded
    <3> QED BY <3>1, <3>2 DEF Filtered
  <2>3. Owned(data, pending, requests) /\ Wanted(data, requests, next, {})
    BY Unfolded DEF Sound, Wanted
  <2> QED BY <1>5, <2>1, <2>2, <2>3, Unfolded DEF Sound
<1>7. Sound(after.data, after.pending, after.requests, next, exclude, Rows!Visible)
  BY <1>3, <1>4, <1>6, Unfolded, LoadKeeps
<1>8. AllWell(data, requests) => AllWell(after.data, after.requests)
  <2>1. Typed(data, pending, requests, next, exclude)
    BY <1>6 DEF Sound
  <2> QED BY <1>3, <2>1, Unfolded, LoadKeepsUnfailed
<1>9. AllFresh(asked', noticed, after.data, after.requests, next, folder)
  <2>1. Typed(data, pending, requests, next, exclude)
    BY <1>6 DEF Sound
  <2>2. Due(asked, noticed, Rows!Visible, TRUE, data, requests, next, folder)
    BY Unfolded DEF Due
  <2>3. asked' \subseteq asked \cup after.wanted
    BY <1>3
  <2> QED BY <1>3, <2>1, <2>2, <2>3, Unfolded, LoadKeepsAll
<1>10. Sound(data', pending', requests', generation', exclude', Rows!Visible')
  BY <1>1, <1>2, <1>3, <1>7 DEF Rows!Visible
<1>11. failures' = 0 => AllWell(data', requests')
  BY <1>1, <1>3, <1>8, Unfolded
<1>12. InOrder /\ failures' = 0
         => AllFresh(asked', noticed', data', requests', generation', folder')
  BY <1>1, <1>2, <1>3, <1>9, Unfolded
<1>v. Viewed(asked', Rows!Visible')
  BY <1>3, ViewedNext
<1> QED BY <1>v, <1>5, <1>10, <1>11, <1>12, Gathered

\* Another exclude list: nothing is listed any more, and all in view is asked for.
LEMMA ExcludeKeeps ==
  ASSUME Rows!ConstantsAssumption, RowsInv, Rows!Exclude
  PROVE  RowsInv'
<1>1. /\ Rows!Event /\ expanded' = expanded
      /\ folder' = folder /\ exclude' = exclude + 1 /\ generation' = generation + 1
      /\ noticed' = noticed /\ failures' = failures
  BY DEF Rows!Exclude
<1>2. PICK next, filter, level : /\ next = generation' /\ filter = exclude'
                                 /\ level = [d \in Dirs |-> Rows!Unloaded]
  OBVIOUS
<1>3. PICK after :
        /\ after = Rows!Loaded(Rows!Visible, FALSE, level, pending, requests, next, filter)
        /\ data' = after.data /\ pending' = after.pending /\ requests' = after.requests
        /\ asked' = (asked \cup after.wanted) \cap Rows!Visible'
  BY <1>2 DEF Rows!Exclude, Rows!Becomes
<1>4. Cover(Rows!Visible, {}, Rows!Visible)
  BY Unfolded DEF Cover
<1>5. /\ RowTypes' /\ next \in Rows!Count /\ next = generation + 1
      /\ filter \in Rows!Count /\ filter = exclude + 1
  BY <1>1, <1>2, Unfolded, TypesNext DEF RowTypes
<1>6. Sound(level, pending, requests, next, filter, {})
  <2>1. Typed(level, pending, requests, next, filter)
    <3>1. 0 .. generation \subseteq 0 .. next /\ \A n \in Nat : n <= generation => n <= next
      BY <1>5, Unfolded
    <3>2. \A n \in Nat : n <= exclude => n <= filter
      BY <1>5, Unfolded
    <3>3. \A i \in DOMAIN requests : requests[i].generation \in Nat /\ requests[i].by \in Nat
      BY Unfolded, RequestNumbers
    <3>4. level \in [Dirs -> LevelValues]
      BY <1>2 DEF LevelValues
    <3> QED BY <3>1, <3>2, <3>3, <3>4, Unfolded DEF Typed
  <2>2. Filtered(level, pending, requests, next, filter)
    <3>1. \A i \in DOMAIN requests : requests[i].generation # next
      <4>1. \A i \in DOMAIN requests :
              requests[i].generation <= generation /\ requests[i].generation \in Nat
        BY Unfolded, RequestNumbers DEF Typed
      <4> QED BY <1>5, <4>1, Unfolded
    <3>2. \A i \in DOMAIN requests : \A d \in DOMAIN requests[i].got :
            requests[i].got[d].state = "listed" => requests[i].got[d].by = requests[i].by
      BY Unfolded DEF Sound, Filtered
    <3>3. \A d \in Dirs : level[d].state # "listed" /\ level[d] # Rows!Placeholder
      BY <1>2, LevelKinds
    <3> QED BY <3>1, <3>2, <3>3 DEF Filtered
  <2>3. Owned(level, pending, requests) /\ Wanted(level, requests, next, {})
    BY <1>2, LevelKinds DEF Owned, Wanted
  <2> QED BY <1>5, <2>1, <2>2, <2>3, Unfolded DEF Sound
<1>7. Typed(level, pending, requests, next, filter)
  BY <1>6 DEF Sound
<1>8. Sound(after.data, after.pending, after.requests, next, filter, Rows!Visible)
  BY <1>3, <1>4, <1>5, <1>6, Unfolded, LoadKeeps
<1>9. AllWell(data, requests) => AllWell(after.data, after.requests)
  <2>1. AllWell(data, requests) => AllWell(level, requests)
    BY <1>2, LevelKinds DEF AllWell
  <2> QED BY <1>3, <1>7, <2>1, Unfolded, LoadKeepsUnfailed
<1>10. AllFresh(asked', noticed, after.data, after.requests, next, folder)
  <2>1. \A e \in asked : e \in Rows!Visible /\ level[e] = Rows!Unloaded
    BY <1>2, Unfolded
  <2>2. Due(asked, noticed, Rows!Visible, FALSE, level, requests, next, folder)
    BY <2>1 DEF Due
  <2>3. asked' \subseteq asked \cup after.wanted
    BY <1>3
  <2> QED BY <1>3, <1>7, <2>2, <2>3, Unfolded, LoadKeepsAll
<1>11. Sound(data', pending', requests', generation', exclude', Rows!Visible')
  BY <1>1, <1>2, <1>3, <1>8 DEF Rows!Visible
<1>12. failures' = 0 => AllWell(data', requests')
  BY <1>1, <1>3, <1>9, Unfolded
<1>13. InOrder /\ failures' = 0
         => AllFresh(asked', noticed', data', requests', generation', folder')
  BY <1>1, <1>2, <1>3, <1>10, Unfolded
<1>v. Viewed(asked', Rows!Visible')
  BY <1>3, ViewedNext
<1> QED BY <1>v, <1>5, <1>11, <1>12, <1>13, Gathered

\* A folder changes: the watcher will name it if it is in view.
LEMMA ChangeKeeps ==
  ASSUME Rows!ConstantsAssumption, RowsInv, NEW d \in Dirs, Rows!Change(d)
  PROVE  RowsInv'
<1>1. /\ Rows!Event /\ expanded' = expanded /\ asked' = asked /\ data' = data /\ pending' = pending
      /\ requests' = requests /\ folder' = [folder EXCEPT ![d] = @ + 1]
      /\ exclude' = exclude /\ generation' = generation
      /\ noticed' = noticed \cup ({d} \cap Rows!Visible) /\ failures' = failures
  BY DEF Rows!Change
<1>2. RowTypes'
  BY <1>1, Unfolded, TypesNext DEF RowTypes
<1>3. Sound(data', pending', requests', generation', exclude', Rows!Visible')
  BY <1>1, Unfolded DEF Rows!Visible
<1>4. failures' = 0 => AllWell(data', requests')
  BY <1>1, Unfolded
<1>5. InOrder /\ failures' = 0
         => AllFresh(asked', noticed', data', requests', generation', folder')
  <2> SUFFICES ASSUME AllFresh(asked, noticed, data, requests, generation, folder),
                      NEW e \in asked, e \notin noticed'
               PROVE  UpToDate(e, data, requests, generation, folder'[e])
    BY <1>1, Unfolded DEF AllFresh
  <2>1. e # d /\ e \notin noticed
    BY <1>1, Unfolded
  <2>2. folder'[e] = folder[e]
    BY <1>1, <2>1, Unfolded DEF RowTypes
  <2> QED BY <2>1, <2>2 DEF AllFresh
<1>v. Viewed(asked', Rows!Visible')
  BY <1>1, ViewedNext
<1> QED BY <1>v, <1>2, <1>3, <1>4, <1>5, Gathered

\* The watcher names a folder, and it is asked for.
LEMMA NoticeKeeps ==
  ASSUME Rows!ConstantsAssumption, RowsInv, NEW d \in Dirs, Rows!Notice(d)
  PROVE  RowsInv'
<1>1. /\ events' = events /\ expanded' = expanded
      /\ folder' = folder /\ exclude' = exclude /\ generation' = generation
      /\ noticed' = noticed \ {d} /\ failures' = failures
  BY DEF Rows!Notice
<1>2. PICK paths \in SUBSET Dirs : paths = {d}
  OBVIOUS
<1>3. PICK after :
        /\ after = Rows!Loaded(paths, TRUE, data, pending, requests, generation, exclude)
        /\ data' = after.data /\ pending' = after.pending /\ requests' = after.requests
        /\ asked' = (asked \cup after.wanted) \cap Rows!Visible'
  BY <1>2 DEF Rows!Notice, Rows!Becomes
<1>4. Cover(paths, Rows!Visible, Rows!Visible)
  BY Unfolded DEF Cover
<1>5. Sound(after.data, after.pending, after.requests, generation, exclude, Rows!Visible)
  BY <1>3, <1>4, Unfolded, LoadKeeps
<1>6. AllWell(data, requests) => AllWell(after.data, after.requests)
  BY <1>3, Unfolded, LoadKeepsUnfailed
<1>7. AllFresh(asked, noticed, data, requests, generation, folder)
        => AllFresh(asked', noticed', after.data, after.requests, generation, folder)
  <2> SUFFICES ASSUME AllFresh(asked, noticed, data, requests, generation, folder)
               PROVE  AllFresh(asked', noticed', after.data, after.requests, generation, folder)
    OBVIOUS
  <2>1. Due(asked, noticed', paths, TRUE, data, requests, generation, folder)
    BY <1>1, <1>2 DEF AllFresh, Due
  <2>2. asked' \subseteq asked \cup after.wanted
    BY <1>3
  <2> QED BY <1>3, <2>1, <2>2, Unfolded, LoadKeepsAll
<1>8. RowTypes'
  BY <1>1, Unfolded, TypesNext DEF RowTypes
<1>9. Sound(data', pending', requests', generation', exclude', Rows!Visible')
  BY <1>1, <1>3, <1>5 DEF Rows!Visible
<1>10. failures' = 0 => AllWell(data', requests')
  BY <1>1, <1>3, <1>6, Unfolded
<1>11. InOrder /\ failures' = 0
         => AllFresh(asked', noticed', data', requests', generation', folder')
  BY <1>1, <1>3, <1>7, Unfolded
<1>v. Viewed(asked', Rows!Visible')
  BY <1>3, ViewedNext
<1> QED BY <1>v, <1>8, <1>9, <1>10, <1>11, Gathered

\* An operation of the tree on a row of d.
LEMMA SettleKeeps ==
  ASSUME Rows!ConstantsAssumption, RowsInv, NEW d \in Dirs, Rows!Settle(d)
  PROVE  RowsInv'
<1>1. /\ Rows!Event /\ expanded' = expanded /\ d \in Rows!Visible
      /\ folder' = [folder EXCEPT ![d] = @ + 1] /\ exclude' = exclude /\ generation' = generation
      /\ noticed' = noticed \cup {d} /\ failures' = failures
  BY DEF Rows!Settle
<1>2. PICK paths \in SUBSET Dirs : paths = {d}
  OBVIOUS
<1>3. PICK level : level = [data EXCEPT ![d] = Rows!Unloaded]
  OBVIOUS
<1>4. PICK after :
        /\ after = Rows!Loaded(paths, TRUE, level, pending, requests, generation, exclude)
        /\ data' = after.data /\ pending' = after.pending /\ requests' = after.requests
        /\ asked' = (asked \cup after.wanted) \cap Rows!Visible'
  BY <1>2, <1>3 DEF Rows!Settle, Rows!Becomes
<1>5. Cover(paths, Rows!Visible \ {d}, Rows!Visible)
  BY <1>2, Unfolded DEF Cover
<1>6. Sound(level, pending, requests, generation, exclude, Rows!Visible \ {d})
  <2>1. \A e \in Dirs : level[e] = IF e = d THEN Rows!Unloaded ELSE data[e]
    BY <1>3, Unfolded
  <2>2. level \in [Dirs -> LevelValues]
    BY <1>3, Unfolded DEF LevelValues
  <2>3. Typed(level, pending, requests, generation, exclude)
    BY <2>2, Unfolded DEF Typed
  <2>4. Owned(level, pending, requests)
    BY <2>1, LevelKinds, Unfolded DEF Owned, Sound
  <2>5. Wanted(level, requests, generation, Rows!Visible \ {d})
    BY <2>1, Unfolded DEF Wanted, Sound
  <2>6. Filtered(level, pending, requests, generation, exclude)
    BY SMTT(40), <2>1, LevelKinds, Unfolded DEF Filtered, Sound
  <2> QED BY <2>3, <2>4, <2>5, <2>6, Unfolded DEF Sound
<1>7. Typed(level, pending, requests, generation, exclude)
  BY <1>6 DEF Sound
<1>8. Sound(after.data, after.pending, after.requests, generation, exclude, Rows!Visible)
  BY <1>4, <1>5, <1>6, Unfolded, LoadKeeps
<1>9. AllWell(data, requests) => AllWell(after.data, after.requests)
  <2>1. AllWell(data, requests) => AllWell(level, requests)
    BY <1>3, LevelKinds, Unfolded DEF AllWell
  <2> QED BY <1>4, <1>7, <2>1, Unfolded, LoadKeepsUnfailed
<1>10. AllFresh(asked, noticed, data, requests, generation, folder)
        => AllFresh(asked', noticed', after.data, after.requests, generation, folder')
  <2> SUFFICES ASSUME AllFresh(asked, noticed, data, requests, generation, folder)
               PROVE  AllFresh(asked', noticed', after.data, after.requests, generation, folder')
    OBVIOUS
  <2>1. ASSUME NEW e \in asked, e \notin noticed'
        PROVE  UpToDate(e, level, requests, generation, folder'[e])
    <3>1. e # d /\ e \notin noticed /\ e \in Dirs
      BY <1>1, <2>1, Unfolded
    <3>2. folder'[e] = folder[e] /\ level[e] = data[e]
      BY <1>1, <1>3, <3>1, Unfolded DEF RowTypes
    <3>3. UpToDate(e, data, requests, generation, folder[e])
      BY <3>1 DEF AllFresh
    <3> QED BY <3>2, <3>3 DEF UpToDate
  <2>2. PICK content, named : content = folder' /\ named = noticed'
    OBVIOUS
  <2>3. Due(asked, named, paths, TRUE, level, requests, generation, content)
    BY <2>1, <2>2 DEF Due
  <2>4. asked' \subseteq asked \cup after.wanted
    BY <1>4
  <2>5. AllFresh(asked', named, after.data, after.requests, generation, content)
    BY <1>4, <1>7, <2>3, <2>4, Unfolded, LoadKeepsAll
  <2> QED BY <2>2, <2>5
<1>11. RowTypes'
  BY <1>1, Unfolded, TypesNext DEF RowTypes
<1>12. Sound(data', pending', requests', generation', exclude', Rows!Visible')
  BY <1>1, <1>4, <1>8 DEF Rows!Visible
<1>13. failures' = 0 => AllWell(data', requests')
  BY <1>1, <1>4, <1>9, Unfolded
<1>14. InOrder /\ failures' = 0
         => AllFresh(asked', noticed', data', requests', generation', folder')
  BY <1>1, <1>4, <1>10, Unfolded
<1>v. Viewed(asked', Rows!Visible')
  BY <1>4, ViewedNext
<1> QED BY <1>v, <1>11, <1>12, <1>13, <1>14, Gathered

\* The answer x takes the place of what request i said of the level d.
Answers(s, t, i, d, x) ==
  /\ DOMAIN t = DOMAIN s /\ \A j \in DOMAIN s : j # i => t[j] = s[j]
  /\ t[i].generation = s[i].generation /\ t[i].by = s[i].by /\ DOMAIN t[i].got = DOMAIN s[i].got
  /\ t[i].got[d] = x /\ \A e \in DOMAIN s[i].got : e # d => t[i].got[e] = s[i].got[e]

\* What serving does to the requests.
LEMMA ServedIs ==
  ASSUME NEW s \in Seq(RowRequests), NEW i \in DOMAIN s, NEW d \in DOMAIN s[i].got,
         NEW x \in Rows!Levels \cup {Rows!Awaited, Rows!Lost}, NEW t,
         t = [s EXCEPT ![i].got[d] = x]
  PROVE  t \in Seq(RowRequests) /\ Answers(s, t, i, d, x)
<1>1. s[i] \in RowRequests
  OBVIOUS
<1>2. PICK D \in SUBSET Dirs : s[i].got \in [D -> Rows!Levels \cup {Rows!Awaited, Rows!Lost}]
  BY <1>1 DEF RowRequests
<1>3. PICK got : got = [s[i].got EXCEPT ![d] = x]
  OBVIOUS
<1>4. got \in [D -> Rows!Levels \cup {Rows!Awaited, Rows!Lost}]
  BY <1>2, <1>3
<1>5. PICK r : r = [s[i] EXCEPT !.got = got]
  OBVIOUS
<1>6. r \in RowRequests
  <2>1. r = [generation |-> s[i].generation, by |-> s[i].by, got |-> got]
    BY <1>1, <1>5 DEF RowRequests
  <2>2. s[i].generation \in Rows!Count /\ s[i].by \in Rows!Count
    BY <1>1 DEF RowRequests
  <2>3. got \in UNION {[E -> Rows!Levels \cup {Rows!Awaited, Rows!Lost}] : E \in SUBSET Dirs}
    BY <1>4
  <2> QED BY <2>1, <2>2, <2>3 DEF RowRequests
<1>7. t = [s EXCEPT ![i] = r]
  BY <1>3, <1>5
<1>8. t \in Seq(RowRequests)
  BY <1>6, <1>7
<1>9. DOMAIN t = DOMAIN s /\ t[i] = r /\ \A j \in DOMAIN s : j # i => t[j] = s[j]
  BY <1>7
<1>10. r.generation = s[i].generation /\ r.by = s[i].by /\ r.got = got
  BY <1>1, <1>5 DEF RowRequests
<1>11. DOMAIN got = DOMAIN s[i].got /\ got[d] = x
       /\ \A e \in DOMAIN s[i].got : e # d => got[e] = s[i].got[e]
  BY <1>3
<1> QED BY <1>8, <1>9, <1>10, <1>11 DEF Answers

\* The host answers for a level, or fails.
LEMMA ServeKeeps ==
  ASSUME Rows!ConstantsAssumption, RowsInv,
         NEW i \in DOMAIN requests, NEW d \in Dirs, Rows!Serve(i, d)
  PROVE  RowsInv'
<1>1. /\ d \in DOMAIN requests[i].got
      /\ events' = events /\ expanded' = expanded /\ asked' = asked
      /\ data' = data /\ pending' = pending
      /\ folder' = folder /\ exclude' = exclude /\ generation' = generation /\ noticed' = noticed
  BY DEF Rows!Serve
<1>2. failures \in 0 .. MaxFailures /\ MaxFailures \in Nat
  BY Unfolded DEF RowTypes, Rows!ConstantsAssumption
<1>3. PICK x : /\ requests' = [requests EXCEPT ![i].got[d] = x]
               /\ \/ x = Rows!Level("listed", folder[d], requests[i].by) /\ failures' = failures
                  \/ /\ x \in {Rows!Failed, Rows!Lost}
                     /\ failures' = failures + 1 /\ failures < MaxFailures
  BY DEF Rows!Serve
<1>4. x \in Rows!Levels \cup {Rows!Awaited, Rows!Lost}
  <2>1. folder[d] \in Rows!Count /\ requests[i].by \in Rows!Count
    <3>1. requests[i] \in RowRequests
      BY Unfolded
    <3> QED BY <3>1, Unfolded DEF RowTypes, RowRequests
  <2> QED BY <1>3, <2>1 DEF Rows!Levels
<1>5. requests' \in Seq(RowRequests) /\ Answers(requests, requests', i, d, x)
  BY <1>1, <1>3, <1>4, Unfolded, ServedIs
<1>6. failures' \in 0 .. MaxFailures /\ (failures' = 0 => failures = 0)
  BY <1>2, <1>3
<1>7. RowTypes'
  BY <1>1, <1>6, Unfolded, TypesNext DEF RowTypes
<1>8. \A j \in DOMAIN requests :
        /\ requests'[j].generation = requests[j].generation /\ requests'[j].by = requests[j].by
        /\ DOMAIN requests'[j].got = DOMAIN requests[j].got
  BY <1>5 DEF Answers
<1>9. Typed(data, pending, requests', generation, exclude)
  BY <1>5, <1>8, Unfolded DEF Typed, Answers
<1>10. \A j \in DOMAIN requests : \A e, g :
         AsksFor(requests', j, e, g) <=> AsksFor(requests, j, e, g)
  BY <1>8 DEF AsksFor
<1>11. Owned(data, pending, requests') /\ Wanted(data, requests', generation, Rows!Visible)
  BY <1>5, <1>10, Unfolded DEF Owned, Wanted, Sound, Answers
<1>12. Filtered(data, pending, requests', generation, exclude)
  <2>1. Filtered(data, pending, requests, generation, exclude)
    BY Unfolded DEF Sound
  <2>2. ASSUME NEW j \in DOMAIN requests, NEW e \in DOMAIN requests[j].got,
               requests'[j].got[e].state = "listed"
        PROVE  requests'[j].got[e].by = requests'[j].by
    <3>1. CASE j = i /\ e = d
      <4>1. requests'[j].got[e] = x
        BY <1>5, <3>1 DEF Answers
      <4>2. x = Rows!Level("listed", folder[d], requests[i].by)
        BY <1>3, <2>2, <4>1, LevelKinds
      <4> QED BY <1>8, <3>1, <4>1, <4>2 DEF Rows!Level
    <3>2. CASE j # i \/ e # d
      <4>1. requests'[j].got[e] = requests[j].got[e]
        BY <1>5, <3>2 DEF Answers
      <4> QED BY <1>8, <2>1, <2>2, <4>1 DEF Filtered
    <3> QED BY <3>1, <3>2
  <2>3. DOMAIN requests' = DOMAIN requests
    BY <1>5 DEF Answers
  <2> QED BY <1>8, <2>1, <2>2, <2>3 DEF Filtered
<1>13. Sound(data', pending', requests', generation', exclude', Rows!Visible')
  BY <1>1, <1>9, <1>11, <1>12, Unfolded DEF Sound, Rows!Visible
<1>14. failures' = 0 => AllWell(data', requests')
  <2> SUFFICES ASSUME failures' = 0 PROVE AllWell(data, requests')
    BY <1>1
  <2>1. x = Rows!Level("listed", folder[d], requests[i].by)
    BY <1>2, <1>3
  <2>2. x.state = "listed"
    BY <2>1 DEF Rows!Level
  <2>3. AllWell(data, requests)
    BY <1>6, Unfolded
  <2>4. ASSUME NEW j \in DOMAIN requests, NEW e \in DOMAIN requests[j].got
        PROVE  requests'[j].got[e] \notin {Rows!Failed, Rows!Lost}
    BY <1>5, <2>2, <2>3, LevelKinds DEF AllWell, Answers
  <2> QED BY <1>5, <1>8, <2>3, <2>4 DEF AllWell, Answers
<1>15. InOrder /\ failures' = 0
         => AllFresh(asked', noticed', data', requests', generation', folder')
  <2> SUFFICES ASSUME InOrder, failures' = 0, NEW e \in asked, e \notin noticed
               PROVE  UpToDate(e, data, requests', generation, folder[e])
    BY <1>1 DEF AllFresh
  <2>1. x = Rows!Level("listed", folder[d], requests[i].by)
    BY <1>2, <1>3
  <2>2. UpToDate(e, data, requests, generation, folder[e])
    BY <1>6, Unfolded DEF AllFresh
  <2>3. \A n : NoneAsks(requests, n, e, generation) => NoneAsks(requests', n, e, generation)
    BY <1>5, <1>10 DEF NoneAsks, Answers
  <2>4. CASE \E j \in DOMAIN requests :
               /\ AsksFor(requests, j, e, generation) /\ NoneAsks(requests, j, e, generation)
               /\ requests[j].got[e] = Rows!Awaited \/ requests[j].got[e].of = folder[e]
    <3>1. PICK j \in DOMAIN requests :
               /\ AsksFor(requests, j, e, generation) /\ NoneAsks(requests, j, e, generation)
               /\ requests[j].got[e] = Rows!Awaited \/ requests[j].got[e].of = folder[e]
      BY <2>4
    <3>2. requests'[j].got[e] = Rows!Awaited \/ requests'[j].got[e].of = folder[e]
      <4>1. CASE j = i /\ d = e
        BY <1>5, <2>1, <4>1 DEF Answers, Rows!Level
      <4>2. CASE j # i \/ d # e
        <5>1. requests'[j].got[e] = requests[j].got[e]
          BY <1>5, <3>1, <4>2 DEF Answers, AsksFor
        <5> QED BY <3>1, <5>1
      <4> QED BY <4>1, <4>2
    <3>3. j \in DOMAIN requests' /\ AsksFor(requests', j, e, generation)
          /\ NoneAsks(requests', j, e, generation)
      BY <1>5, <1>10, <2>3, <3>1 DEF Answers
    <3> QED BY <3>2, <3>3 DEF UpToDate
  <2>5. CASE /\ data[e].state = "listed" /\ data[e].of = folder[e]
             /\ NoneAsks(requests, 0, e, generation)
    BY <2>3, <2>5 DEF UpToDate
  <2> QED BY <2>2, <2>4, <2>5 DEF UpToDate
<1>v. Viewed(asked', Rows!Visible')
  BY <1>1, ViewedNext
<1> QED BY <1>v, <1>7, <1>13, <1>14, <1>15, Gathered

\* The request i is taken out of s.
Shorter(s, t, i) ==
  /\ DOMAIN t = 1 .. Len(s) - 1 /\ \A j \in 1 .. i - 1 : t[j] = s[j]
  /\ \A j \in i .. Len(s) - 1 : t[j] = s[j + 1]

\* What RemoveAt leaves.
LEMMA RemovedIs ==
  ASSUME NEW s \in Seq(RowRequests), NEW i \in DOMAIN s, NEW t, t = Rows!RemoveAt(s, i)
  PROVE  t \in Seq(RowRequests) /\ Shorter(s, t, i)
<1>1. i \in 1 .. Len(s) /\ Len(s) \in Nat
  OBVIOUS
<1>2. PICK a, b : a = SubSeq(s, 1, i - 1) /\ b = SubSeq(s, i + 1, Len(s))
  OBVIOUS
<1>3. /\ a \in Seq(RowRequests) /\ Len(a) = i - 1 /\ \A j \in 1 .. i - 1 : a[j] = s[j]
  BY <1>1, <1>2
<1>4. /\ b \in Seq(RowRequests) /\ Len(b) = Len(s) - i /\ \A j \in 1 .. Len(s) - i : b[j] = s[j + i]
  BY <1>1, <1>2
<1>5. t = a \o b
  BY <1>2 DEF Rows!RemoveAt
<1>6. t \in Seq(RowRequests) /\ Len(t) = Len(s) - 1
  BY <1>1, <1>3, <1>4, <1>5
<1>7. \A j \in 1 .. i - 1 : t[j] = s[j]
  BY <1>1, <1>3, <1>4, <1>5
<1>8. ASSUME NEW j \in i .. Len(s) - 1 PROVE t[j] = s[j + 1]
  <2>1. j - (i - 1) \in 1 .. Len(s) - i /\ (j - (i - 1)) + i = j + 1
    BY <1>1
  <2>2. t[j] = b[j - (i - 1)]
    BY SMTT(40), <1>1, <1>3, <1>4, <1>5
  <2> QED BY <1>4, <2>1, <2>2
<1> QED BY <1>6, <1>7, <1>8 DEF Shorter

\* What t has, s has; and what s has is in t, or was request i.
LEMMA Survivors ==
  ASSUME NEW s \in Seq(RowRequests), NEW i \in DOMAIN s, NEW t \in Seq(RowRequests),
         Shorter(s, t, i)
  PROVE  /\ \A k \in DOMAIN t : \E j \in DOMAIN s : t[k] = s[j]
         /\ \A j \in DOMAIN s : j = i \/ \E k \in DOMAIN t : t[k] = s[j]
<1>1. DOMAIN s = 1 .. Len(s) /\ Len(s) \in Nat /\ i \in 1 .. Len(s) /\ DOMAIN t = 1 .. Len(s) - 1
  BY DEF Shorter
<1>2. ASSUME NEW k \in DOMAIN t PROVE \E j \in DOMAIN s : t[k] = s[j]
  <2>1. CASE k < i
    BY <1>1, <2>1 DEF Shorter
  <2>2. CASE k >= i
    <3>1. k + 1 \in DOMAIN s /\ t[k] = s[k + 1]
      BY <1>1, <2>2 DEF Shorter
    <3> QED BY <3>1
  <2> QED BY <1>1, <2>1, <2>2
<1>3. ASSUME NEW j \in DOMAIN s, j # i PROVE \E k \in DOMAIN t : t[k] = s[j]
  <2>1. CASE j < i
    <3>1. j \in DOMAIN t /\ t[j] = s[j]
      BY <1>1, <2>1 DEF Shorter
    <3> QED BY <3>1
  <2>2. CASE j > i
    <3>1. j - 1 \in DOMAIN t /\ j - 1 \in i .. Len(s) - 1 /\ (j - 1) + 1 = j
      BY <1>1, <2>2
    <3>2. t[j - 1] = s[j]
      BY <3>1 DEF Shorter
    <3> QED BY <3>1, <3>2
  <2> QED BY <1>1, <1>3, <2>1, <2>2
<1> QED BY <1>2, <1>3

\* The oldest request arrived: unless it is the last that asked for e at
\* this generation, the one that was is still there.
LEMMA FreshSurvives ==
  ASSUME NEW e, NEW s \in Seq(RowRequests), 1 \in DOMAIN s, NEW t, Shorter(s, t, 1),
         NEW level, NEW left, left[e] = level[e], NEW gen, NEW content,
         UpToDate(e, level, s, gen, content), ~AsksFor(s, 1, e, gen)
  PROVE  UpToDate(e, left, t, gen, content)
<1>1. /\ DOMAIN s = 1 .. Len(s) /\ Len(s) \in Nat /\ DOMAIN t = 1 .. Len(s) - 1
      /\ \A k \in DOMAIN t : k + 1 \in DOMAIN s /\ t[k] = s[k + 1] /\ k \in Nat
  BY DEF Shorter
<1>2. ASSUME NEW n \in Nat, NEW m \in Nat, n <= m + 1, NoneAsks(s, n, e, gen)
      PROVE  NoneAsks(t, m, e, gen)
  <2> SUFFICES ASSUME NEW k \in DOMAIN t, k > m, AsksFor(t, k, e, gen) PROVE FALSE
    BY DEF NoneAsks
  <2>1. AsksFor(s, k + 1, e, gen) /\ k + 1 > n /\ k + 1 \in DOMAIN s
    BY <1>1, <1>2 DEF AsksFor
  <2> QED BY <1>2, <2>1 DEF NoneAsks
<1>3. CASE \E j \in DOMAIN s :
             /\ AsksFor(s, j, e, gen) /\ NoneAsks(s, j, e, gen)
             /\ s[j].got[e] = Rows!Awaited \/ s[j].got[e].of = content
  <2>1. PICK j \in DOMAIN s :
             /\ AsksFor(s, j, e, gen) /\ NoneAsks(s, j, e, gen)
             /\ s[j].got[e] = Rows!Awaited \/ s[j].got[e].of = content
    BY <1>3
  <2>2. PICK k : k = j - 1
    OBVIOUS
  <2>3. j # 1
    BY <2>1
  <2>4. k \in DOMAIN t /\ k + 1 = j /\ k \in Nat /\ j \in Nat /\ t[k] = s[j] /\ j <= k + 1
    BY <1>1, <2>2, <2>3
  <2>5. /\ AsksFor(t, k, e, gen) /\ NoneAsks(t, k, e, gen)
        /\ t[k].got[e] = Rows!Awaited \/ t[k].got[e].of = content
    BY <1>2, <2>1, <2>4 DEF AsksFor
  <2> QED BY <2>4, <2>5 DEF UpToDate
<1>4. CASE level[e].state = "listed" /\ level[e].of = content /\ NoneAsks(s, 0, e, gen)
  <2>1. NoneAsks(t, 0, e, gen)
    BY <1>2, <1>4
  <2> QED BY <1>4, <2>1 DEF UpToDate
<1> QED BY <1>3, <1>4 DEF UpToDate

\* What an arrival leaves alone.
LEMMA ArriveTypes ==
  ASSUME Rows!ConstantsAssumption, RowsInv, NEW i, Rows!Arrive(i)
  PROVE  /\ RowTypes' /\ events' = events /\ expanded' = expanded /\ folder' = folder
         /\ exclude' = exclude /\ generation' = generation /\ noticed' = noticed
         /\ failures' = failures /\ i \in DOMAIN requests /\ (InOrder => i = 1)
         /\ \A d \in DOMAIN requests[i].got : requests[i].got[d] # Rows!Awaited
<1>1. /\ events' = events /\ expanded' = expanded /\ folder' = folder
      /\ exclude' = exclude /\ generation' = generation /\ noticed' = noticed
      /\ failures' = failures /\ Rows!Answered(i)
  BY DEF Rows!Arrive
<1>2. RowTypes'
  BY <1>1, Unfolded, TypesNext DEF RowTypes
<1> QED BY <1>1, <1>2 DEF Rows!Answered

\* An answer of the present generation is stored.
LEMMA CurrentArrives ==
  ASSUME Rows!ConstantsAssumption, RowsInv, NEW i, Rows!Arrive(i),
         requests[i].generation = generation
  PROVE  RowsInv'
<1>1. /\ RowTypes' /\ expanded' = expanded /\ folder' = folder
      /\ exclude' = exclude /\ generation' = generation /\ noticed' = noticed
      /\ failures' = failures /\ i \in DOMAIN requests /\ (InOrder => i = 1)
      /\ \A d \in DOMAIN requests[i].got : requests[i].got[d] # Rows!Awaited
  BY ArriveTypes
<1>2. PICK r : r = requests[i]
  OBVIOUS
<1>3. /\ data' = Rows!Stored(r) /\ pending' = Rows!Disowned(r)
      /\ requests' = Rows!RemoveAt(requests, i) /\ asked' = (asked \cup {}) \cap Rows!Visible'
  BY <1>2 DEF Rows!Arrive, Rows!Becomes, Rows!Kept
<1>4. PICK t \in Seq(RowRequests) : t = requests' /\ Shorter(requests, t, i)
  BY <1>1, <1>3, Unfolded, RemovedIs
<1>5. /\ \A k \in DOMAIN t : \E j \in DOMAIN requests : t[k] = requests[j]
      /\ \A j \in DOMAIN requests : j = i \/ \E k \in DOMAIN t : t[k] = requests[j]
  BY <1>1, <1>4, Unfolded, Survivors
<1>6. PICK level, owner : level = data' /\ owner = pending'
  OBVIOUS
<1>7. r \in RowRequests /\ DOMAIN r.got \in SUBSET Dirs
      /\ \A d \in DOMAIN r.got : r.got[d] \in Rows!Levels \cup {Rows!Lost}
  <2>1. r \in RowRequests
    BY <1>1, <1>2, Unfolded
  <2>2. PICK D \in SUBSET Dirs : r.got \in [D -> Rows!Levels \cup {Rows!Awaited, Rows!Lost}]
    BY <2>1 DEF RowRequests
  <2> QED BY <1>1, <1>2, <2>1, <2>2
<1>8. \A d \in Dirs :
        IF d \in DOMAIN r.got
        THEN /\ owner[d] = 0 /\ level[d] \in Rows!Levels
             /\ \/ level[d] = r.got[d]
                \/ r.got[d] = Rows!Lost /\ (level[d] = data[d] \/ level[d] = Rows!Failed)
        ELSE owner[d] = pending[d] /\ level[d] = data[d]
  <2> SUFFICES ASSUME NEW d \in Dirs
               PROVE  IF d \in DOMAIN r.got
                      THEN /\ owner[d] = 0 /\ level[d] \in Rows!Levels
                           /\ \/ level[d] = r.got[d]
                              \/ /\ r.got[d] = Rows!Lost
                                 /\ level[d] = data[d] \/ level[d] = Rows!Failed
                      ELSE owner[d] = pending[d] /\ level[d] = data[d]
    OBVIOUS
  <2>1. owner[d] = IF d \in DOMAIN r.got THEN 0 ELSE pending[d]
    BY <1>3, <1>6 DEF Rows!Disowned
  <2>2. level[d] = IF d \notin DOMAIN r.got THEN data[d]
                   ELSE IF r.got[d] # Rows!Lost THEN r.got[d]
                   ELSE IF data[d].state = "listed" THEN data[d] ELSE Rows!Failed
    BY <1>3, <1>6 DEF Rows!Stored
  <2>3. data[d].state = "listed" => data[d] \in Rows!Levels
    BY LevelKinds, Unfolded DEF LevelValues
  <2>4. Rows!Failed \in Rows!Levels
    BY DEF Rows!Levels
  <2> QED BY <1>7, <2>1, <2>2, <2>3, <2>4
<1>9. level \in [Dirs -> LevelValues] /\ owner \in [Dirs -> 0 .. generation]
  <2>1. level = Rows!Stored(r) /\ owner = Rows!Disowned(r)
    BY <1>3, <1>6
  <2>2. level = [d \in Dirs |-> level[d]] /\ owner = [d \in Dirs |-> owner[d]]
    BY <2>1 DEF Rows!Stored, Rows!Disowned
  <2>3. \A d \in Dirs : level[d] \in LevelValues /\ owner[d] \in 0 .. generation
    BY <1>8, Unfolded DEF LevelValues
  <2> QED BY <2>2, <2>3
<1>10. Typed(level, owner, t, generation, exclude)
  BY <1>5, <1>9, Unfolded DEF Typed
<1>11. \A d \in Dirs : level[d] \in {Rows!Placeholder, Rows!Unloaded}
         => d \notin DOMAIN r.got /\ level[d] = data[d] /\ owner[d] = pending[d]
  BY <1>8, LevelKinds, LevelsListed
<1>12. \A j \in DOMAIN requests : \A d, g : AsksFor(requests, j, d, g) /\ d \notin DOMAIN r.got
         => \E k \in DOMAIN t : AsksFor(t, k, d, g)
  BY <1>2, <1>5 DEF AsksFor
<1>13. Owned(level, owner, t)
  BY <1>11, <1>12, Unfolded DEF Sound, Owned
<1>14. Wanted(level, t, generation, Rows!Visible)
  BY <1>11, <1>12, Unfolded DEF Sound, Wanted
<1>15. Filtered(level, owner, t, generation, exclude)
  <2>1. Filtered(data, pending, requests, generation, exclude)
    BY Unfolded DEF Sound
  <2>2. ASSUME NEW d \in Dirs, level[d].state = "listed" PROVE level[d].by = exclude
    <3>1. CASE d \in DOMAIN r.got /\ level[d] = r.got[d]
      BY <1>1, <1>2, <2>1, <2>2, <3>1 DEF Filtered
    <3>2. CASE level[d] = data[d]
      BY <2>1, <2>2, <3>2 DEF Filtered
    <3> QED BY <1>8, <2>2, <3>1, <3>2, LevelKinds
  <2>3. ASSUME NEW k \in DOMAIN t
        PROVE  /\ t[k].generation = generation => t[k].by = exclude
               /\ \A d \in Dirs :
                    level[d] = Rows!Placeholder /\ t[k].generation = owner[d] => t[k].by = exclude
               /\ \A d \in DOMAIN t[k].got :
                    t[k].got[d].state = "listed" => t[k].got[d].by = t[k].by
    <3>1. PICK j \in DOMAIN requests : t[k] = requests[j]
      BY <1>5
    <3> QED BY <1>11, <2>1, <3>1 DEF Filtered
  <2> QED BY <2>2, <2>3 DEF Filtered
<1>16. Sound(data', pending', requests', generation', exclude', Rows!Visible')
  BY <1>1, <1>4, <1>6, <1>10, <1>13, <1>14, <1>15, Unfolded DEF Sound, Rows!Visible
<1>17. failures' = 0 => AllWell(data', requests')
  <2> SUFFICES ASSUME failures = 0 PROVE AllWell(level, t)
    BY <1>1, <1>4, <1>6
  <2>1. AllWell(data, requests)
    BY Unfolded
  <2>2. \A d \in DOMAIN r.got : r.got[d] \notin {Rows!Failed, Rows!Lost}
    BY <1>1, <1>2, <2>1 DEF AllWell
  <2>3. \A d \in Dirs : level[d].state # "error"
    BY <1>7, <1>8, <2>1, <2>2, LevelsListed DEF AllWell
  <2> QED BY <1>5, <2>1, <2>3 DEF AllWell
<1>18. InOrder /\ failures' = 0
         => AllFresh(asked', noticed', data', requests', generation', folder')
  <2> SUFFICES ASSUME InOrder, failures = 0, NEW e \in asked, e \notin noticed
               PROVE  UpToDate(e, level, t, generation, folder[e])
    BY <1>1, <1>3, <1>4, <1>6 DEF AllFresh
  <2>0. e \in Dirs
    BY Unfolded
  <2>1. UpToDate(e, data, requests, generation, folder[e]) /\ i = 1 /\ AllWell(data, requests)
    BY <1>1, Unfolded DEF AllFresh
  <2>2. CASE e \notin DOMAIN r.got
    <3>1. level[e] = data[e] /\ ~AsksFor(requests, 1, e, generation)
      BY <1>2, <1>8, <2>1, <2>0, <2>2 DEF AsksFor
    <3> QED BY <1>1, <1>4, <2>1, <3>1, Unfolded, FreshSurvives
  <2>3. CASE e \in DOMAIN r.got
    <3>1. /\ r.got[e] \in Rows!Levels /\ r.got[e] # Rows!Failed /\ r.got[e] # Rows!Lost
          /\ r.got[e] # Rows!Awaited /\ AsksFor(requests, 1, e, generation)
      BY <1>1, <1>2, <1>7, <2>1, <2>3 DEF AllWell, AsksFor
    <3>2. level[e] = r.got[e] /\ level[e].state = "listed"
      BY <1>8, <2>3, <2>0, <3>1, LevelsListed
    <3>3. PICK j \in DOMAIN requests :
               /\ AsksFor(requests, j, e, generation) /\ NoneAsks(requests, j, e, generation)
               /\ requests[j].got[e] = Rows!Awaited \/ requests[j].got[e].of = folder[e]
      <4>1. ~NoneAsks(requests, 0, e, generation)
        BY <1>1, <2>1, <3>1 DEF NoneAsks
      <4> QED BY <2>1, <4>1 DEF UpToDate
    <3>4. CASE j = 1
      <4>1. level[e].of = folder[e]
        BY <1>2, <2>1, <3>1, <3>2, <3>3, <3>4
      <4>2. NoneAsks(t, 0, e, generation)
        <5> SUFFICES ASSUME NEW k \in DOMAIN t, k > 0, AsksFor(t, k, e, generation) PROVE FALSE
          BY DEF NoneAsks
        <5>1. k + 1 \in DOMAIN requests /\ t[k] = requests[k + 1] /\ k + 1 > 1
          BY <1>4, <2>1, Unfolded DEF Shorter
        <5> QED BY <3>3, <3>4, <5>1 DEF NoneAsks, AsksFor
      <4> QED BY <3>2, <4>1, <4>2 DEF UpToDate
    <3>5. CASE j # 1
      <4>1. PICK k : k = j - 1
        OBVIOUS
      <4>2. k \in DOMAIN t /\ t[k] = requests[j]
        BY SMTT(40), <1>4, <2>1, <3>5, <4>1, Unfolded DEF Shorter
      <4>3. NoneAsks(t, k, e, generation)
        <5> SUFFICES ASSUME NEW n \in DOMAIN t, n > k, AsksFor(t, n, e, generation) PROVE FALSE
          BY DEF NoneAsks
        <5>1. n + 1 \in DOMAIN requests /\ t[n] = requests[n + 1] /\ n + 1 > j
          BY SMTT(40), <1>4, <2>1, <4>1, Unfolded DEF Shorter
        <5> QED BY <3>3, <5>1 DEF NoneAsks, AsksFor
      <4> QED BY <3>3, <4>2, <4>3 DEF UpToDate, AsksFor
    <3> QED BY <3>4, <3>5
  <2> QED BY <2>2, <2>3
<1>v. Viewed(asked', Rows!Visible')
  BY <1>3, ViewedNext
<1> QED BY <1>v, <1>1, <1>16, <1>17, <1>18, Gathered

\* A stale answer is dropped, and the placeholders it owned are asked for again.
LEMMA StaleArrives ==
  ASSUME Rows!ConstantsAssumption, RowsInv, NEW i, Rows!Arrive(i),
         requests[i].generation # generation
  PROVE  RowsInv'
<1>1. /\ RowTypes' /\ expanded' = expanded /\ folder' = folder
      /\ exclude' = exclude /\ generation' = generation /\ noticed' = noticed
      /\ failures' = failures /\ i \in DOMAIN requests /\ (InOrder => i = 1)
  BY ArriveTypes
<1>2. PICK r, by, paths, level, owner, t :
        /\ r = requests[i] /\ by = r.by /\ paths = Rows!Released(r)
        /\ t = Rows!RemoveAt(requests, i)
        /\ level = [d \in Dirs |-> IF d \in paths THEN Rows!Unloaded ELSE data[d]]
        /\ owner = [d \in Dirs |-> IF d \in DOMAIN r.got /\ pending[d] = r.generation
                                   THEN 0 ELSE pending[d]]
  OBVIOUS
<1>3. PICK after :
        /\ after = Rows!Loaded(paths, FALSE, level, owner, t, generation, by)
        /\ data' = after.data /\ pending' = after.pending /\ requests' = after.requests
        /\ asked' = (asked \cup after.wanted) \cap Rows!Visible'
  <2>1. owner = [d \in Dirs |-> IF d \in {e \in DOMAIN r.got : pending[e] = r.generation}
                                THEN 0 ELSE pending[d]]
    BY <1>2
  <2> QED BY <1>2, <2>1 DEF Rows!Arrive, Rows!Becomes
<1>4. t \in Seq(RowRequests) /\ Shorter(requests, t, i)
  BY <1>1, <1>2, Unfolded, RemovedIs
<1>5. /\ \A k \in DOMAIN t : \E j \in DOMAIN requests : t[k] = requests[j]
      /\ \A j \in DOMAIN requests : j = i \/ \E k \in DOMAIN t : t[k] = requests[j]
  BY <1>1, <1>4, Unfolded, Survivors
<1>6. r \in RowRequests /\ DOMAIN r.got \in SUBSET Dirs /\ by \in Rows!Count
  <2>1. r \in RowRequests
    BY <1>1, <1>2, Unfolded
  <2>2. PICK D \in SUBSET Dirs : r.got \in [D -> Rows!Levels \cup {Rows!Awaited, Rows!Lost}]
    BY <2>1 DEF RowRequests
  <2> QED BY <1>2, <2>1, <2>2 DEF RowRequests
<1>7. paths = {d \in DOMAIN r.got : pending[d] = r.generation /\ data[d] = Rows!Placeholder}
  BY <1>2 DEF Rows!Released
<1>8. \A d \in Dirs : /\ level[d] = IF d \in paths THEN Rows!Unloaded ELSE data[d]
                      /\ level[d] = Rows!Placeholder => owner[d] = pending[d]
                      /\ d \notin DOMAIN r.got => owner[d] = pending[d]
  <2> SUFFICES ASSUME NEW d \in Dirs
               PROVE  /\ level[d] = IF d \in paths THEN Rows!Unloaded ELSE data[d]
                      /\ level[d] = Rows!Placeholder => owner[d] = pending[d]
                      /\ d \notin DOMAIN r.got => owner[d] = pending[d]
    OBVIOUS
  <2>1. level[d] = IF d \in paths THEN Rows!Unloaded ELSE data[d]
    BY <1>2
  <2>2. owner[d] = IF d \in DOMAIN r.got /\ pending[d] = r.generation THEN 0 ELSE pending[d]
    BY <1>2
  <2> QED BY <1>7, <2>1, <2>2, LevelKinds
<1>9. Cover(paths, Rows!Visible \ paths, Rows!Visible)
  BY <1>6, <1>7, Unfolded DEF Cover
<1>10. Typed(level, owner, t, generation, exclude)
  <2>1. level \in [Dirs -> LevelValues]
    BY <1>2, Unfolded DEF LevelValues
  <2>2. owner \in [Dirs -> 0 .. generation]
    BY <1>2, Unfolded
  <2> QED BY <1>4, <1>5, <2>1, <2>2, Unfolded DEF Typed
<1>11. Owned(level, owner, t)
  <2> SUFFICES ASSUME NEW d \in Dirs, level[d] = Rows!Placeholder
               PROVE  owner[d] # 0 /\ \E k \in DOMAIN t : AsksFor(t, k, d, owner[d])
    BY DEF Owned
  <2>1. d \notin paths /\ data[d] = Rows!Placeholder /\ owner[d] = pending[d]
    BY <1>8, LevelKinds
  <2>2. pending[d] # 0 /\ \E j \in DOMAIN requests : AsksFor(requests, j, d, pending[d])
    BY <2>1, Unfolded DEF Sound, Owned
  <2>3. PICK j \in DOMAIN requests : AsksFor(requests, j, d, pending[d])
    BY <2>2
  <2>4. j # i
    BY <1>2, <1>7, <2>1, <2>3 DEF AsksFor
  <2>5. PICK k \in DOMAIN t : t[k] = requests[j]
    BY <1>5, <2>4
  <2> QED BY <2>1, <2>2, <2>3, <2>5 DEF AsksFor
<1>12. Wanted(level, t, generation, Rows!Visible \ paths)
  <2> SUFFICES ASSUME NEW d \in Rows!Visible \ paths, level[d] = Rows!Unloaded
               PROVE  \E k \in DOMAIN t : AsksFor(t, k, d, generation)
    BY DEF Wanted
  <2>1. data[d] = Rows!Unloaded
    BY <1>8, Unfolded
  <2>2. PICK j \in DOMAIN requests : AsksFor(requests, j, d, generation)
    BY <2>1, Unfolded DEF Sound, Wanted
  <2>3. j # i
    BY <2>2 DEF AsksFor
  <2>4. PICK k \in DOMAIN t : t[k] = requests[j]
    BY <1>5, <2>3
  <2> QED BY <2>2, <2>4 DEF AsksFor
<1>13. Filtered(level, owner, t, generation, exclude)
  <2>1. Filtered(data, pending, requests, generation, exclude)
    BY Unfolded DEF Sound
  <2>2. \A d \in Dirs : /\ level[d].state = "listed" => level[d] = data[d]
                        /\ level[d] = Rows!Placeholder => level[d] = data[d]
    BY <1>8, LevelKinds
  <2>3. ASSUME NEW k \in DOMAIN t
        PROVE  /\ t[k].generation = generation => t[k].by = exclude
               /\ \A d \in Dirs :
                    level[d] = Rows!Placeholder /\ t[k].generation = owner[d] => t[k].by = exclude
               /\ \A d \in DOMAIN t[k].got :
                    t[k].got[d].state = "listed" => t[k].got[d].by = t[k].by
    <3>1. PICK j \in DOMAIN requests : t[k] = requests[j]
      BY <1>5
    <3> QED BY <1>8, <2>1, <2>2, <3>1 DEF Filtered
  <2> QED BY <2>1, <2>2, <2>3 DEF Filtered
<1>14. Sound(level, owner, t, generation, exclude, Rows!Visible \ paths)
  BY <1>10, <1>11, <1>12, <1>13, Unfolded DEF Sound
<1>15. paths # {} => by = exclude
  <2> SUFFICES ASSUME NEW d \in paths PROVE by = exclude
    OBVIOUS
  <2>1. d \in Dirs /\ data[d] = Rows!Placeholder /\ requests[i].generation = pending[d]
    BY <1>2, <1>6, <1>7
  <2> QED BY <1>1, <1>2, <2>1, Unfolded DEF Sound, Filtered
<1>16. Sound(after.data, after.pending, after.requests, generation, exclude, Rows!Visible)
  BY <1>3, <1>6, <1>9, <1>14, <1>15, Unfolded, LoadKeeps
<1>17. Sound(data', pending', requests', generation', exclude', Rows!Visible')
  BY <1>1, <1>3, <1>16 DEF Rows!Visible
<1>18. paths \in SUBSET Dirs
  BY <1>9 DEF Cover
<1>19. failures' = 0 => AllWell(data', requests')
  <2>1. AllWell(data, requests) => AllWell(level, t)
    BY <1>5, <1>8, LevelKinds DEF AllWell
  <2>2. AllWell(level, t) => AllWell(after.data, after.requests)
    BY <1>3, <1>10, <1>18, LoadKeepsUnfailed
  <2> QED BY <1>1, <1>3, <2>1, <2>2, Unfolded
<1>20. InOrder /\ failures' = 0
         => AllFresh(asked', noticed', data', requests', generation', folder')
  <2> SUFFICES ASSUME InOrder, failures = 0
               PROVE  AllFresh(asked', noticed, after.data, after.requests, generation, folder)
    BY <1>1, <1>3
  <2>1. ASSUME NEW e \in asked, e \notin noticed
        PROVE  \/ UpToDate(e, level, t, generation, folder[e])
               \/ e \in paths /\ level[e] = Rows!Unloaded
    <3>0. e \in Dirs
      BY Unfolded
    <3>1. CASE e \in paths
      BY <1>8, <3>0, <3>1
    <3>2. CASE e \notin paths
      <4>1. level[e] = data[e] /\ i = 1 /\ UpToDate(e, data, requests, generation, folder[e])
        BY <1>1, <1>8, <2>1, <3>0, <3>2, Unfolded DEF AllFresh
      <4>2. ~AsksFor(requests, 1, e, generation)
        BY <4>1 DEF AsksFor
      <4> QED BY <1>1, <1>4, <4>1, <4>2, Unfolded, FreshSurvives
    <3> QED BY <3>1, <3>2
  <2>2. Due(asked, noticed, paths, FALSE, level, t, generation, folder)
    BY <2>1 DEF Due
  <2>3. asked' \subseteq asked \cup after.wanted
    BY <1>3
  <2> QED BY <1>3, <1>10, <1>18, <2>2, <2>3, Unfolded, LoadKeepsAll
<1>v. Viewed(asked', Rows!Visible')
  BY <1>3, ViewedNext
<1> QED BY <1>v, <1>1, <1>17, <1>19, <1>20, Gathered

\* Every step of the tree keeps the invariant.
LEMMA RowsNext ==
  ASSUME Rows!ConstantsAssumption, RowsInv, [Rows!Next]_(Rows!vars)
  PROVE  RowsInv'
<1>1. CASE UNCHANGED Rows!vars
  <2>0. Viewed(asked', Rows!Visible')
    BY <1>1, ViewedNext DEF Rows!vars
  <2>1. RowTypes'
    BY <1>1 DEF Rows!vars, RowsInv, RowTypes
  <2>2. Sound(data', pending', requests', generation', exclude', Rows!Visible')
    BY <1>1, Unfolded DEF Rows!vars, Rows!Visible
  <2>3. failures' = 0 => AllWell(data', requests')
    BY <1>1, Unfolded DEF Rows!vars
  <2>4. InOrder /\ failures' = 0
         => AllFresh(asked', noticed', data', requests', generation', folder')
    BY <1>1, Unfolded DEF Rows!vars
  <2> QED BY <2>0, <2>1, <2>2, <2>3, <2>4, Gathered
<1>2. CASE Rows!Refresh
  BY <1>2, RefreshKeeps
<1>3. CASE Rows!Exclude
  BY <1>3, ExcludeKeeps
<1>4. ASSUME NEW d \in Dirs, Rows!Toggle(d) PROVE RowsInv'
  BY <1>4, ToggleKeeps
<1>5. ASSUME NEW d \in Dirs, Rows!Fold(d) PROVE RowsInv'
  BY <1>5, FoldKeeps
<1>6. ASSUME NEW d \in Dirs, Rows!Change(d) PROVE RowsInv'
  BY <1>6, ChangeKeeps
<1>7. ASSUME NEW d \in Dirs, Rows!Notice(d) PROVE RowsInv'
  BY <1>7, NoticeKeeps
<1>8. ASSUME NEW d \in Dirs, Rows!Settle(d) PROVE RowsInv'
  BY <1>8, SettleKeeps
<1>9. ASSUME NEW i \in 1 .. Len(requests), Rows!Arrive(i) PROVE RowsInv'
  BY <1>9, CurrentArrives, StaleArrives
<1>10. ASSUME NEW i \in 1 .. Len(requests), NEW d \in Dirs, Rows!Serve(i, d) PROVE RowsInv'
  <2>1. i \in DOMAIN requests
    BY Unfolded
  <2> QED BY <1>10, <2>1, ServeKeeps
<1> QED
  BY <1>1, <1>2, <1>3, <1>4, <1>5, <1>6, <1>7, <1>8, <1>9, <1>10 DEF Rows!Next

\* The tree begins with the top asked for.
LEMMA RowsBegin == ASSUME Rows!ConstantsAssumption, Rows!Init PROVE RowsInv
<1>1. PICK none, nobody, nothing, one :
        /\ none = [d \in Dirs |-> Rows!Unloaded] /\ nobody = [d \in Dirs |-> 0]
        /\ nothing = <<>> /\ one = 1
  OBVIOUS
<1>2. PICK paths \in SUBSET Dirs : paths = {Top}
  BY DEF Rows!ConstantsAssumption
<1>3. PICK after :
        /\ after = Rows!Loaded(paths, FALSE, none, nobody, nothing, one, one)
        /\ data = after.data /\ pending = after.pending /\ requests = after.requests
  BY <1>1, <1>2 DEF Rows!Init
<1>4. one \in Rows!Count /\ MaxEvents \in Nat /\ Top \in Dirs
  BY <1>1 DEF Rows!Count, Rows!ConstantsAssumption
<1>5. Rows!Visible = {Top}
  BY DEF Rows!Visible, Rows!Init
<1>6. Sound(none, nobody, nothing, one, one, {})
  <2>1. nothing \in Seq(RowRequests) /\ DOMAIN nothing = {}
    BY <1>1
  <2>2. Typed(none, nobody, nothing, one, one)
    BY <1>1, <2>1 DEF Typed, LevelValues
  <2>3. \A d \in Dirs : none[d] # Rows!Placeholder /\ none[d].state = "none"
    BY <1>1, LevelKinds
  <2>4. Filtered(none, nobody, nothing, one, one)
    BY <2>1, <2>3 DEF Filtered
  <2> QED BY <1>4, <2>2, <2>3, <2>4 DEF Sound, Owned, Wanted
<1>7. Cover(paths, {}, Rows!Visible)
  BY <1>2, <1>5 DEF Cover
<1>8. Sound(after.data, after.pending, after.requests, one, one, Rows!Visible)
  BY <1>3, <1>4, <1>6, <1>7, LoadKeeps
<1>9. AllWell(none, nothing)
  BY <1>1, LevelKinds DEF AllWell
<1>10. Typed(none, nobody, nothing, one, one)
  BY <1>6 DEF Sound
<1>11. AllWell(after.data, after.requests)
  BY <1>3, <1>9, <1>10, LoadKeepsUnfailed
<1>12. UpToDate(Top, after.data, after.requests, one, folder[Top])
  <2>1. Top \in paths /\ none[Top] = Rows!Unloaded
    BY <1>1, <1>2, <1>4
  <2> QED BY <1>3, <1>4, <1>10, <2>1, LoadKeepsFresh
<1>13. RowTypes
  BY <1>1, <1>4 DEF Rows!Init, RowTypes, Rows!ConstantsAssumption
<1>14. asked = {Top}
  BY DEF Rows!Init
<1>15. Viewed(asked, Rows!Visible) /\ AllFresh(asked, noticed, data, requests, one, folder)
  BY <1>3, <1>5, <1>12, <1>14 DEF Viewed, AllFresh
<1> QED BY <1>1, <1>3, <1>8, <1>11, <1>13, <1>15 DEF RowsInv, Rows!Init

\* The invariant of the tree's levels holds, in order or not.
THEOREM RowsInvHolds == ASSUME Rows!ConstantsAssumption PROVE Rows!Spec => []RowsInv
<1>1. Rows!Init => RowsInv
  BY RowsBegin
<1>2. RowsInv /\ [Rows!Next]_(Rows!vars) => RowsInv'
  BY RowsNext
<1> QED BY <1>1, <1>2, PTL DEF Rows!Spec

\* The levels, their owners and the requests are what their types say.
THEOREM RowsTypeCorrect == ASSUME Rows!ConstantsAssumption PROVE Rows!Spec => []Rows!TypeOK
<1>1. ASSUME RowsInv PROVE Rows!TypeOK
  <2>1. \A i \in DOMAIN requests :
          /\ requests[i].generation \in 1 .. generation /\ requests[i].by \in 1 .. exclude
          /\ \A d \in DOMAIN requests[i].got :
               d \in Dirs /\ requests[i].got[d] \in Rows!Levels \cup {Rows!Awaited, Rows!Lost}
    <3> SUFFICES ASSUME NEW i \in DOMAIN requests
                 PROVE  /\ requests[i].generation \in 1 .. generation
                        /\ requests[i].by \in 1 .. exclude
                        /\ \A d \in DOMAIN requests[i].got :
                             /\ d \in Dirs
                             /\ requests[i].got[d] \in Rows!Levels \cup {Rows!Awaited, Rows!Lost}
      OBVIOUS
    <3>1. requests[i] \in RowRequests
      BY <1>1, Unfolded
    <3>2. PICK D \in SUBSET Dirs :
            requests[i].got \in [D -> Rows!Levels \cup {Rows!Awaited, Rows!Lost}]
      BY <3>1 DEF RowRequests
    <3>3. requests[i].generation \in Rows!Count /\ requests[i].by \in Rows!Count
      BY <3>1 DEF RowRequests
    <3>4. requests[i].generation <= generation /\ requests[i].by <= exclude
      BY <1>1, Unfolded DEF Typed
    <3>5. requests[i].generation \in 1 .. generation /\ requests[i].by \in 1 .. exclude
      BY <1>1, <3>3, <3>4, Unfolded DEF Rows!Count
    <3> QED BY <3>2, <3>5
  <2>2. data \in [Dirs -> Rows!Levels \cup {Rows!Unloaded, Rows!Placeholder}]
    BY <1>1, Unfolded DEF LevelValues
  <2> QED BY <1>1, <2>1, <2>2, Unfolded DEF RowTypes, Rows!TypeOK
<1> QED BY <1>1, RowsInvHolds, PTL

\* However refreshes, other exclude lists, notices and operations overtake the
\* requests under way, no row is left on "Loading..." without a request that will
\* settle it; and when all is answered, and nothing failed, every level in view is
\* listed by the exclude list of now, and the root's and every other that was asked
\* for since it came into view shows what is on disk (loadLevels and
\* releasePlaceholders of FileTree.tsx).
THEOREM RowsSettleHolds ==
  ASSUME Rows!ConstantsAssumption, InOrder PROVE Rows!Spec => []Rows!RowsSettle
<1>1. ASSUME RowsInv PROVE Rows!NoneStuck
  <2> SUFFICES ASSUME NEW d \in Dirs,
                      data[d] = Rows!Placeholder \/ (d \in Rows!Visible /\ data[d] = Rows!Unloaded)
               PROVE  \E i \in DOMAIN requests :
                        /\ d \in DOMAIN requests[i].got
                        /\ requests[i].generation \in {generation} \cup ({pending[d]} \ {0})
    BY DEF Rows!NoneStuck
  <2>1. CASE data[d] = Rows!Placeholder
    BY <1>1, <2>1, Unfolded DEF Sound, Owned, AsksFor
  <2>2. CASE d \in Rows!Visible /\ data[d] = Rows!Unloaded
    BY <1>1, <2>2, Unfolded DEF Sound, Wanted, AsksFor
  <2> QED BY <2>1, <2>2
<1>2. ASSUME RowsInv PROVE Rows!LevelsCurrent
  <2> SUFFICES ASSUME requests = <<>>, noticed = {}, failures = 0, NEW d \in Rows!Visible
               PROVE  /\ data[d].state = "listed" /\ data[d].by = exclude
                      /\ d \in asked => data[d].of = folder[d]
    BY <1>2, Unfolded DEF Rows!LevelsCurrent
  <2>1. d \in Dirs /\ data[d] \in LevelValues
    BY <1>2, Unfolded
  <2>2. data[d] # Rows!Placeholder /\ data[d] # Rows!Unloaded /\ data[d].state # "error"
    BY <1>2, <2>1, Unfolded DEF Sound, Owned, Wanted, AllWell
  <2>3. data[d].state = "listed"
    BY <2>1, <2>2, LevelKinds
  <2>4. data[d].by = exclude
    BY <1>2, <2>1, <2>3, Unfolded DEF Sound, Filtered
  <2>5. d \in asked => data[d].of = folder[d]
    BY <1>2, Unfolded DEF AllFresh, UpToDate
  <2> QED BY <2>3, <2>4, <2>5
<1>3. RowsInv => Rows!RowsSettle
  BY <1>1, <1>2 DEF Rows!RowsSettle
<1> QED BY <1>3, RowsInvHolds, PTL

-----------------------------------------------------------------------------
(***************************************************************************)
(* The directory the tree is rooted at (ActiveWorktree).  Every prefix of  *)
(* the log has a last change of directory, and of the events after it that *)
(* name a worktree a last one: what the probes read is such a prefix, and  *)
(* no shorter than the log was at the ask.  So what is kept, under way or  *)
(* answered was named after the change of directory that it is keyed with. *)
(***************************************************************************)
CONSTANTS Callers, Linked, Home, Slow, None
VARIABLES log, kept, flights, caller
Roots == INSTANCE ActiveWorktree WITH cache <- kept

\* The last change of directory among the first m events is event n.
LastChange(seq, m, n) ==
  /\ n \in 0 .. m
  /\ n = 0 \/ seq[n].kind = "cd"
  /\ \A i \in n + 1 .. m : seq[i].kind # "cd"

\* Of those after event n that name a worktree other than b, i is the last.
LastNamed(seq, m, n, b, i) ==
  /\ i \in n + 1 .. m /\ seq[i].dir \in Linked \ {b}
  /\ \A j \in n + 1 .. m : seq[j].dir \in Linked \ {b} => j <= i

\* Both exist for the prefix of m events, if an event names a worktree at all.
Readable(seq, m) ==
  /\ \E n : LastChange(seq, m, n)
  /\ \A n \in 0 .. m, b \in Dirs :
       (\A i \in n + 1 .. m : seq[i].dir \notin Linked \ {b}) \/ \E i : LastNamed(seq, m, n, b, i)

\* A root other than the base was named by a call after the epoch.
Named(seq, root, base, epoch) ==
  root # base => \E i \in epoch + 1 .. Len(seq) : seq[i] = [kind |-> "call", dir |-> root]

RootEntries == [root : Dirs, base : Dirs, epoch : Nat, left : 1 .. TTL, age : Nat]
Resolutions == [base : Dirs, epoch : Nat, read : BOOLEAN, seen : Nat, age : Nat, spent : Nat]
Askers == [stage : {"idle", "based", "waiting", "answered"}, base : Dirs \cup {None},
           epoch : Nat, joined : Nat, root : Dirs \cup {None}, age : Nat]

RootTypes ==
  /\ log \in Seq(Roots!Events) /\ \A m \in 0 .. Len(log) : Readable(log, m)
  /\ kept = None \/ kept \in RootEntries
  /\ flights \in SUBSET Resolutions
  /\ caller \in [Callers -> Askers]

\* An entry's root was named after its epoch, and its time and its age add up.
Lasting(k, seq) == Named(seq, k.root, k.base, k.epoch) /\ k.age + k.left <= TTL + Slow

\* A resolution's epoch is a change of directory, and it reads no less of the log
\* than there was when it was asked for.
Resolving(f, seq) ==
  /\ f.epoch \in 0 .. Len(seq) /\ f.seen \in 0 .. Len(seq)
  /\ f.epoch = 0 \/ seq[f.epoch].kind = "cd"
  /\ f.read => f.epoch <= f.seen
  /\ f.age <= f.spent /\ f.spent <= Slow

\* A caller waits for a resolution of its own base and epoch.
Asking(x, seq, sent) ==
  /\ x.stage # "idle" => x.base \in Dirs
  /\ x.stage = "waiting" =>
       x.joined = x.epoch /\ \E f \in sent : f.base = x.base /\ f.epoch = x.joined
  /\ x.stage = "answered" => Named(seq, x.root, x.base, x.epoch) /\ x.age < TTL + Slow

\* One resolution is under way for a base and an epoch.
Shared(sent) == \A f, g \in sent : f.base = g.base /\ f.epoch = g.epoch => f = g

RootSound ==
  /\ kept # None => Lasting(kept, log)
  /\ \A f \in flights : Resolving(f, log)
  /\ Shared(flights)
  /\ \A c \in Callers : Asking(caller[c], log, flights)

RootInv == RootTypes /\ RootSound

\* directoryEpochOf finds the last change of directory.
LEMMA EpochIs ==
  ASSUME NEW seq \in Seq(Roots!Events), \E n : LastChange(seq, Len(seq), n)
  PROVE  LastChange(seq, Len(seq), Roots!Epoch(seq))
<1>1. PICK n : LastChange(seq, Len(seq), n)
  OBVIOUS
<1>2. \E k \in 0 .. Len(seq) :
        /\ k = 0 \/ seq[k].kind = "cd"
        /\ \A i \in k + 1 .. Len(seq) : seq[i].kind # "cd"
  BY <1>1 DEF LastChange
<1> QED BY <1>2 DEF LastChange, Roots!Epoch

\* A longer log is read as it was as far as it went.
LEMMA ReadableCommit ==
  ASSUME NEW seq \in Seq(Roots!Events), NEW event \in Roots!Events,
         \A m \in 0 .. Len(seq) : Readable(seq, m)
  PROVE  \A m \in 0 .. Len(Append(seq, event)) : Readable(Append(seq, event), m)
<1> SUFFICES ASSUME NEW m \in 0 .. Len(Append(seq, event))
             PROVE  Readable(Append(seq, event), m)
  OBVIOUS
<1>1. PICK t : t = Append(seq, event)
  OBVIOUS
<1>2. PICK k \in Nat : k = Len(seq)
  OBVIOUS
<1>3. Len(t) = k + 1 /\ t[k + 1] = event /\ \A i \in 1 .. k : t[i] = seq[i]
  BY <1>1, <1>2
<1>4. \A n \in 0 .. k, b \in Dirs :
        (\A i \in n + 1 .. k : t[i].dir \notin Linked \ {b}) \/ \E i : LastNamed(t, k, n, b, i)
  <2> SUFFICES ASSUME NEW n \in 0 .. k, NEW b \in Dirs,
                      ~(\A i \in n + 1 .. k : t[i].dir \notin Linked \ {b})
               PROVE  \E i : LastNamed(t, k, n, b, i)
    OBVIOUS
  <2>1. ~(\A i \in n + 1 .. k : seq[i].dir \notin Linked \ {b})
    BY <1>3
  <2>2. PICK i : LastNamed(seq, k, n, b, i)
    BY <1>2, <2>1 DEF Readable
  <2>3. LastNamed(t, k, n, b, i)
    BY <1>3, <2>2 DEF LastNamed
  <2> QED BY <2>3
<1>5. CASE m \in 0 .. k
  <2>1. PICK n : LastChange(seq, m, n)
    BY <1>2, <1>5 DEF Readable
  <2>2. LastChange(t, m, n)
    BY <1>3, <1>5, <2>1 DEF LastChange
  <2>3. ASSUME NEW n2 \in 0 .. m, NEW b \in Dirs,
               ~(\A i \in n2 + 1 .. m : t[i].dir \notin Linked \ {b})
        PROVE  \E i : LastNamed(t, m, n2, b, i)
    <3>1. ~(\A i \in n2 + 1 .. m : seq[i].dir \notin Linked \ {b})
      BY <1>3, <1>5, <2>3
    <3>2. PICK i : LastNamed(seq, m, n2, b, i)
      BY <1>2, <1>5, <3>1 DEF Readable
    <3>3. LastNamed(t, m, n2, b, i)
      BY <1>3, <1>5, <3>2 DEF LastNamed
    <3> QED BY <3>3
  <2> QED BY <1>1, <2>2, <2>3 DEF Readable
<1>6. CASE m = k + 1
  <2>1. \E n : LastChange(t, m, n)
    <3>1. CASE event.kind = "cd"
      <4>1. LastChange(t, m, m)
        BY <1>3, <1>6, <3>1 DEF LastChange
      <4> QED BY <4>1
    <3>2. CASE event.kind # "cd"
      <4>1. PICK n : LastChange(seq, k, n)
        BY <1>2 DEF Readable
      <4>2. n \in 0 .. k /\ (n = 0 \/ t[n].kind = "cd")
        BY <1>3, <4>1 DEF LastChange
      <4>3. ASSUME NEW i \in n + 1 .. m PROVE t[i].kind # "cd"
        <5>1. CASE i = m
          BY <1>3, <1>6, <3>2, <5>1
        <5>2. CASE i # m
          BY <1>3, <1>6, <4>1, <4>2, <5>2 DEF LastChange
        <5> QED BY <5>1, <5>2
      <4>4. LastChange(t, m, n)
        BY <1>6, <4>2, <4>3 DEF LastChange
      <4> QED BY <4>4
    <3> QED BY <3>1, <3>2
  <2>2. ASSUME NEW n \in 0 .. m, NEW b \in Dirs,
               ~(\A i \in n + 1 .. m : t[i].dir \notin Linked \ {b})
        PROVE  \E i : LastNamed(t, m, n, b, i)
    <3>1. n \in 0 .. k
      BY <1>6, <2>2
    <3>2. CASE t[m].dir \in Linked \ {b}
      <4>1. LastNamed(t, m, n, b, m)
        BY <1>6, <3>1, <3>2 DEF LastNamed
      <4> QED BY <4>1
    <3>3. CASE t[m].dir \notin Linked \ {b}
      <4>1. ~(\A i \in n + 1 .. k : t[i].dir \notin Linked \ {b})
        BY <1>6, <2>2, <3>1, <3>3
      <4>2. PICK i : LastNamed(t, k, n, b, i)
        BY <1>4, <3>1, <4>1
      <4>3. LastNamed(t, m, n, b, i)
        BY <1>6, <3>1, <3>3, <4>2 DEF LastNamed
      <4> QED BY <4>3
    <3> QED BY <3>2, <3>3
  <2> QED BY <1>1, <2>1, <2>2 DEF Readable
<1> QED BY <1>1, <1>3, <1>5, <1>6

\* activeRootFromEvents over a prefix: the base, or a root named after the last
\* change of directory in it.
LEMMA ActiveIs ==
  ASSUME NEW seq \in Seq(Roots!Events), NEW s \in 0 .. Len(seq), Readable(seq, s),
         NEW base \in Dirs, NEW root, root = Roots!Active(SubSeq(seq, 1, s), base)
  PROVE  \E n : /\ LastChange(seq, s, n)
                /\ root = base \/ \E i \in n + 1 .. s : seq[i].dir = root
<1>1. PICK t : t = SubSeq(seq, 1, s)
  OBVIOUS
<1>2. t \in Seq(Roots!Events) /\ Len(t) = s /\ \A i \in 1 .. s : t[i] = seq[i]
  BY <1>1
<1>3. PICK n : LastChange(seq, s, n)
  BY DEF Readable
<1>4. LastChange(t, s, n)
  BY <1>2, <1>3 DEF LastChange
<1>5. PICK e : e = Roots!Epoch(t)
  OBVIOUS
<1>6. LastChange(t, s, e)
  BY <1>2, <1>4, <1>5, EpochIs
<1>7. LastChange(seq, s, e)
  BY <1>2, <1>6 DEF LastChange
<1>8. PICK named : named = {i \in e + 1 .. s : t[i].dir \in Linked \ {base}}
  OBVIOUS
<1>9. root = IF named = {} THEN base ELSE t[CHOOSE i \in named : \A j \in named : j <= i].dir
  <2>1. root = Roots!Active(t, base)
    BY <1>1
  <2>2. named = {i \in Roots!Epoch(t) + 1 .. Len(t) : t[i].dir \in Linked \ {base}}
    BY <1>2, <1>5, <1>8
  <2> QED BY <2>1, <2>2, Zenon DEF Roots!Active
<1>10. CASE named = {}
  BY <1>7, <1>9, <1>10
<1>11. CASE named # {}
  <2>1. e \in 0 .. s
    BY <1>6 DEF LastChange
  <2>2. ~(\A i \in e + 1 .. s : seq[i].dir \notin Linked \ {base})
    BY <1>2, <1>8, <1>11, <2>1
  <2>3. PICK i : LastNamed(seq, s, e, base, i)
    BY <2>1, <2>2 DEF Readable
  <2>4. i \in named /\ \A j \in named : j <= i
    BY <1>2, <1>8, <2>1, <2>3 DEF LastNamed
  <2>5. PICK k : k = CHOOSE x \in named : \A j \in named : j <= x
    OBVIOUS
  <2>6. k \in named
    <3>1. \E x \in named : \A j \in named : j <= x
      BY <2>4
    <3> QED BY <2>5, <3>1, Zenon
  <2>7. k \in e + 1 .. s /\ root = seq[k].dir
    <3>1. root = t[k].dir
      BY <1>9, <1>11, <2>5, Zenon
    <3>2. k \in e + 1 .. s /\ k \in 1 .. s
      BY <1>8, <2>1, <2>6
    <3> QED BY <1>2, <3>1, <3>2
  <2> QED BY <1>7, <2>7
<1> QED BY <1>10, <1>11

\* The same read off the variables of a later state.
LEMMA RootUnfolded ==
  RootInv <=>
    /\ log \in Seq(Roots!Events) /\ \A m \in 0 .. Len(log) : Readable(log, m)
    /\ kept = None \/ kept \in RootEntries
    /\ flights \in SUBSET Resolutions
    /\ caller \in [Callers -> Askers]
    /\ kept # None => Lasting(kept, log)
    /\ \A f \in flights : Resolving(f, log)
    /\ Shared(flights)
    /\ \A c \in Callers : Asking(caller[c], log, flights)
BY DEF RootInv, RootTypes, RootSound

\* The next state's invariant, from the parts of it.
LEMMA RootGathered ==
  ASSUME log' \in Seq(Roots!Events), \A m \in 0 .. Len(log') : Readable(log', m),
         kept' = None \/ kept' \in RootEntries,
         flights' \in SUBSET Resolutions,
         caller' \in [Callers -> Askers],
         kept' # None => Lasting(kept', log'),
         \A f \in flights' : Resolving(f, log'),
         Shared(flights'),
         \A c \in Callers : Asking(caller'[c], log', flights')
  PROVE  RootInv'
BY DEF RootInv, RootTypes, RootSound, Readable, LastChange, LastNamed, Lasting, Named,
       Resolving, Shared, Asking

\* One caller's part changes, and of the rest at most the resolutions, which all
\* that are waited for stay among.
LEMMA CallerMoves ==
  ASSUME RootInv, NEW c \in Callers, NEW x \in Askers,
         caller' = [caller EXCEPT ![c] = x], UNCHANGED <<log, kept>>,
         flights' \in SUBSET Resolutions, \A f \in flights' : Resolving(f, log),
         Shared(flights'), flights \subseteq flights', Asking(x, log, flights')
  PROVE  RootInv'
<1>1. caller' \in [Callers -> Askers]
  BY RootUnfolded
<1>2. \A d \in Callers : Asking(caller'[d], log, flights')
  <2> SUFFICES ASSUME NEW d \in Callers PROVE Asking(caller'[d], log, flights')
    OBVIOUS
  <2>1. CASE d = c
    BY <2>1, RootUnfolded
  <2>2. CASE d # c
    <3>1. caller'[d] = caller[d] /\ Asking(caller[d], log, flights)
      BY <2>2, RootUnfolded
    <3> QED BY <3>1 DEF Asking
  <2> QED BY <2>1, <2>2
<1> QED BY <1>1, <1>2, RootUnfolded, RootGathered

\* The caller reads the session's directory, which the log has.
LEMMA ReadBaseKeeps ==
  ASSUME Roots!ConstantsAssumption, RootInv, NEW c \in Callers, Roots!ReadBase(c)
  PROVE  RootInv'
<1>1. PICK cwd : cwd = Roots!Cwd
  OBVIOUS
<1>2. cwd \in Dirs
  <2>1. \E n : LastChange(log, Len(log), n)
    BY RootUnfolded DEF Readable
  <2>2. Roots!Epoch(log) \in 0 .. Len(log)
    BY <2>1, EpochIs, RootUnfolded DEF LastChange
  <2>3. PICK e \in 0 .. Len(log) : e = Roots!Epoch(log)
    BY <2>2
  <2>4. e # 0 => log[e] \in Roots!Events
    BY <2>3, RootUnfolded
  <2>5. cwd = IF e = 0 THEN Home ELSE log[e].dir
    BY <1>1, <2>3 DEF Roots!Cwd
  <2> QED BY <2>4, <2>5 DEF Roots!Events, Roots!ConstantsAssumption
<1>3. PICK x : x = [caller[c] EXCEPT !.stage = "based", !.base = cwd]
  OBVIOUS
<1>4. x \in Askers /\ x.stage = "based" /\ x.base = cwd
  BY <1>2, <1>3, RootUnfolded DEF Askers
<1>5. caller' = [caller EXCEPT ![c] = x]
  BY <1>1, <1>3, RootUnfolded DEF Roots!ReadBase
<1> QED BY <1>2, <1>4, <1>5, CallerMoves, RootUnfolded DEF Roots!ReadBase, Asking

\* The caller starts over.
LEMMA DoneKeeps ==
  ASSUME Roots!ConstantsAssumption, RootInv, NEW c \in Callers, Roots!Done(c) PROVE RootInv'
<1>1. PICK x : x = Roots!Idle
  OBVIOUS
<1>2. x \in Askers /\ x.stage = "idle"
  BY <1>1 DEF Roots!Idle, Askers
<1> QED BY <1>1, <1>2, CallerMoves, RootUnfolded DEF Roots!Done, Asking

\* A root that is kept is answered to the base and the epoch it is kept for; else
\* the ask joins the resolution of its base and epoch, or is the first.
LEMMA AskKeeps ==
  ASSUME Roots!ConstantsAssumption, RootInv, NEW c \in Callers, Roots!Ask(c) PROVE RootInv'
<1>1. PICK e : e = Roots!Epoch(log)
  OBVIOUS
<1>2. LastChange(log, Len(log), e)
  <2>1. \E n : LastChange(log, Len(log), n)
    BY RootUnfolded DEF Readable
  <2> QED BY <1>1, <2>1, EpochIs, RootUnfolded
<1>3. e \in 0 .. Len(log) /\ e \in Nat /\ (e = 0 \/ log[e].kind = "cd")
  BY <1>2, RootUnfolded DEF LastChange
<1>4. PICK base : base = caller[c].base
  OBVIOUS
<1>5. caller[c] \in Askers /\ caller[c].stage = "based" /\ base \in Dirs
  BY <1>4, RootUnfolded DEF Roots!Ask, Asking
<1>6. CASE Roots!Hit(base, e) /\ UNCHANGED <<log, kept, flights>>
           /\ caller' = [caller EXCEPT ![c] = [@ EXCEPT !.stage = "answered", !.epoch = e,
                                                        !.root = kept.root, !.age = kept.age]]
  <2>1. kept \in RootEntries /\ kept.base = base /\ kept.epoch = e /\ Lasting(kept, log)
    BY <1>6, RootUnfolded DEF Roots!Hit
  <2>2. PICK x : x = [caller[c] EXCEPT !.stage = "answered", !.epoch = e, !.root = kept.root,
                                       !.age = kept.age]
    OBVIOUS
  <2>3. /\ x \in Askers /\ x.stage = "answered" /\ x.base = base /\ x.epoch = e
        /\ x.root = kept.root /\ x.age = kept.age
    BY <1>3, <1>4, <1>5, <2>1, <2>2 DEF Askers, RootEntries
  <2>4. kept.age < TTL + Slow
    BY <2>1 DEF Lasting, RootEntries, Roots!ConstantsAssumption
  <2>5. Asking(x, log, flights)
    BY <1>5, <2>1, <2>3, <2>4 DEF Asking, Lasting
  <2>6. caller' = [caller EXCEPT ![c] = x]
    BY <1>6, <2>2
  <2> QED BY <1>6, <2>3, <2>5, <2>6, CallerMoves, RootUnfolded
<1>7. PICK x : x = [caller[c] EXCEPT !.stage = "waiting", !.epoch = e, !.joined = e]
  OBVIOUS
<1>8. x \in Askers /\ x.stage = "waiting" /\ x.base = base /\ x.epoch = e /\ x.joined = e
  BY <1>3, <1>4, <1>5, <1>7 DEF Askers
<1>9. ASSUME NEW key, key = e,
             caller' = [caller EXCEPT ![c].stage = "waiting", ![c].epoch = e, ![c].joined = key]
      PROVE  caller' = [caller EXCEPT ![c] = x]
  BY <1>7, <1>9, RootUnfolded
<1>10. CASE \E f \in Roots!Shared(base, e) :
              /\ caller' = [caller EXCEPT ![c].stage = "waiting", ![c].epoch = e,
                                          ![c].joined = f.epoch]
              /\ UNCHANGED <<log, kept, flights>>
  <2>1. PICK f \in Roots!Shared(base, e) :
          /\ caller' = [caller EXCEPT ![c].stage = "waiting", ![c].epoch = e, ![c].joined = f.epoch]
          /\ UNCHANGED <<log, kept, flights>>
    BY <1>10
  <2>2. f \in flights /\ f.base = base /\ f.epoch = e
    BY <2>1 DEF Roots!Shared
  <2>3. Asking(x, log, flights)
    BY <1>5, <1>8, <2>2 DEF Asking
  <2> QED BY <1>8, <1>9, <2>1, <2>2, <2>3, CallerMoves, RootUnfolded
<1>11. PICK g : g = [base |-> base, epoch |-> e, read |-> FALSE, seen |-> 0, age |-> 0, spent |-> 0]
  OBVIOUS
<1>12. CASE /\ Roots!Shared(base, e) = {} /\ flights' = flights \cup {g}
            /\ caller' = [caller EXCEPT ![c].stage = "waiting", ![c].epoch = e, ![c].joined = e]
            /\ UNCHANGED <<log, kept>>
  <2>1. g \in Resolutions /\ g.base = base /\ g.epoch = e
    BY <1>3, <1>5, <1>11 DEF Resolutions
  <2>2. Resolving(g, log)
    <3>1. Len(log) \in Nat /\ Slow \in Nat
      BY RootUnfolded DEF Roots!ConstantsAssumption
    <3> QED BY <1>3, <1>11, <3>1 DEF Resolving
  <2>3. Shared(flights')
    BY <1>12, <2>1, RootUnfolded DEF Shared, Roots!Shared
  <2>4. Asking(x, log, flights')
    BY <1>5, <1>8, <1>12, <2>1 DEF Asking
  <2>5. flights' \in SUBSET Resolutions /\ \A f \in flights' : Resolving(f, log)
    BY <1>12, <2>1, <2>2, RootUnfolded
  <2> QED BY <1>8, <1>9, <1>12, <2>3, <2>4, <2>5, CallerMoves
<1> QED BY <1>1, <1>4, <1>6, <1>10, <1>11, <1>12 DEF Roots!Ask, Roots!Kept

\* The events are read as they are now: no fewer than there were at the ask.
LEMMA ReadEventsKeeps ==
  ASSUME Roots!ConstantsAssumption, RootInv, NEW f \in flights, Roots!ReadEvents(f)
  PROVE  RootInv'
<1>1. PICK g : g = [f EXCEPT !.read = TRUE, !.seen = Len(log)]
  OBVIOUS
<1>2. f \in Resolutions /\ Resolving(f, log) /\ Len(log) \in Nat
  BY RootUnfolded
<1>3. /\ g \in Resolutions /\ g.base = f.base /\ g.epoch = f.epoch /\ g.read /\ g.seen = Len(log)
      /\ g.age = f.age /\ g.spent = f.spent
  BY <1>1, <1>2 DEF Resolutions
<1>4. Resolving(g, log)
  BY <1>2, <1>3 DEF Resolving
<1>5. flights' = (flights \ {f}) \cup {g} /\ UNCHANGED <<log, kept, caller>>
  BY <1>1 DEF Roots!ReadEvents
<1>6. Shared(flights')
  BY <1>3, <1>5, RootUnfolded DEF Shared
<1>7. \A c \in Callers : Asking(caller[c], log, flights')
  <2> SUFFICES ASSUME NEW c \in Callers PROVE Asking(caller[c], log, flights')
    OBVIOUS
  <2>1. Asking(caller[c], log, flights)
    BY RootUnfolded
  <2> QED BY <1>3, <1>5, <2>1 DEF Asking
<1>8. flights' \in SUBSET Resolutions /\ \A h \in flights' : Resolving(h, log)
  BY <1>3, <1>4, <1>5, RootUnfolded
<1> QED BY <1>5, <1>6, <1>7, <1>8, RootUnfolded, RootGathered

\* What a resolution finds was named by a call after the epoch it was asked in.
LEMMA FoundAfterEpoch ==
  ASSUME Roots!ConstantsAssumption, RootInv, NEW f \in flights, f.read,
         NEW root, root = Roots!Active(SubSeq(log, 1, f.seen), f.base)
  PROVE  root \in Dirs /\ Named(log, root, f.base, f.epoch)
<1>1. f \in Resolutions /\ Resolving(f, log)
  BY RootUnfolded
<1>2. PICK s \in 0 .. Len(log) : s = f.seen
  BY <1>1 DEF Resolving
<1>3. PICK e \in Nat : e = f.epoch
  BY <1>1 DEF Resolutions
<1>4. e <= s /\ (e = 0 \/ log[e].kind = "cd")
  BY <1>1, <1>2, <1>3 DEF Resolving
<1>5. f.base \in Dirs /\ Readable(log, s)
  BY <1>1, RootUnfolded DEF Resolutions
<1>6. PICK n : /\ LastChange(log, s, n)
               /\ root = f.base \/ \E i \in n + 1 .. s : log[i].dir = root
  BY <1>2, <1>5, ActiveIs, RootUnfolded
<1>7. n \in 0 .. s /\ \A i \in n + 1 .. s : log[i].kind # "cd"
  BY <1>6 DEF LastChange
<1>8. e <= n
  BY <1>2, <1>3, <1>4, <1>7
<1>9. CASE root = f.base
  BY <1>5, <1>9 DEF Named
<1>10. CASE \E i \in n + 1 .. s : log[i].dir = root
  <2>1. PICK i \in n + 1 .. s : log[i].dir = root
    BY <1>10
  <2>2. i \in e + 1 .. Len(log) /\ i \in 1 .. Len(log)
    BY <1>2, <1>3, <1>7, <1>8, <2>1, RootUnfolded
  <2>3. log[i] \in Roots!Events /\ log[i].kind # "cd"
    BY <1>7, <2>1, <2>2, RootUnfolded
  <2>4. log[i] = [kind |-> "call", dir |-> root] /\ root \in Dirs
    BY <2>1, <2>3 DEF Roots!Events
  <2> QED BY <1>3, <2>2, <2>4 DEF Named
<1> QED BY <1>6, <1>9, <1>10

\* The root is kept, and all who wait for it are answered.
LEMMA ResolveKeeps ==
  ASSUME Roots!ConstantsAssumption, RootInv, NEW f \in flights, Roots!Resolve(f)
  PROVE  RootInv'
<1>1. PICK root : root = Roots!Active(SubSeq(log, 1, f.seen), f.base)
  OBVIOUS
<1>2. f \in Resolutions /\ Resolving(f, log) /\ f.read
  BY RootUnfolded DEF Roots!Resolve
<1>3. root \in Dirs /\ Named(log, root, f.base, f.epoch)
  BY <1>1, <1>2, FoundAfterEpoch
<1>4. f.age \in Nat /\ f.age <= Slow /\ f.base \in Dirs /\ f.epoch \in Nat
  BY <1>2 DEF Resolving, Resolutions, Roots!ConstantsAssumption
<1>5. PICK k : k = [root |-> root, base |-> f.base, epoch |-> f.epoch, left |-> TTL, age |-> f.age]
  OBVIOUS
<1>6. /\ flights' = flights \ {f} /\ kept' = k /\ log' = log
      /\ caller' = [c \in Callers |->
           IF caller[c].stage = "waiting" /\ caller[c].base = f.base /\ caller[c].joined = f.epoch
           THEN [caller[c] EXCEPT !.stage = "answered", !.root = root, !.age = f.age]
           ELSE caller[c]]
  BY <1>1, <1>5 DEF Roots!Resolve
<1>7. k \in RootEntries
  BY <1>3, <1>4, <1>5 DEF RootEntries, Roots!ConstantsAssumption
<1>8. Lasting(k, log)
  BY <1>3, <1>4, <1>5 DEF Lasting, Roots!ConstantsAssumption
<1>9. ASSUME NEW c \in Callers PROVE caller'[c] \in Askers /\ Asking(caller'[c], log, flights')
  <2>1. caller[c] \in Askers /\ Asking(caller[c], log, flights)
    BY RootUnfolded
  <2>2. CASE caller[c].stage = "waiting" /\ caller[c].base = f.base /\ caller[c].joined = f.epoch
    <3>1. PICK x : x = [caller[c] EXCEPT !.stage = "answered", !.root = root, !.age = f.age]
      OBVIOUS
    <3>2. /\ x \in Askers /\ x.stage = "answered" /\ x.root = root /\ x.age = f.age
          /\ x.base = f.base /\ x.epoch = caller[c].epoch
      BY <1>3, <1>4, <2>1, <2>2, <3>1 DEF Askers
    <3>3. x.epoch = f.epoch
      BY <2>1, <2>2, <3>2 DEF Asking
    <3>4. f.age < TTL + Slow
      BY <1>4 DEF Roots!ConstantsAssumption
    <3>5. Asking(x, log, flights')
      BY <1>3, <1>4, <3>2, <3>3, <3>4 DEF Asking
    <3>6. caller'[c] = x
      BY <1>6, <2>2, <3>1
    <3> QED BY <3>2, <3>5, <3>6
  <2>3. CASE ~(caller[c].stage = "waiting" /\ caller[c].base = f.base /\ caller[c].joined = f.epoch)
    <3>1. caller'[c] = caller[c]
      BY <1>6, <2>3
    <3>2. Asking(caller[c], log, flights')
      BY <1>6, <2>1, <2>3 DEF Asking
    <3> QED BY <2>1, <3>1, <3>2
  <2> QED BY <2>2, <2>3
<1>10. caller' \in [Callers -> Askers]
  BY <1>6, <1>9
<1>11. Shared(flights') /\ flights' \in SUBSET Resolutions /\ \A g \in flights' : Resolving(g, log)
  BY <1>6, RootUnfolded DEF Shared
<1> QED BY <1>6, <1>7, <1>8, <1>9, <1>10, <1>11, RootUnfolded, RootGathered

\* The log grows at its end, so all that was said of it is still true.
LEMMA CommitKeeps ==
  ASSUME Roots!ConstantsAssumption, RootInv, NEW event \in Roots!Events, Roots!Commit(event)
  PROVE  RootInv'
<1>1. PICK t : t = Append(log, event)
  OBVIOUS
<1>2. PICK k \in Nat : k = Len(log)
  BY RootUnfolded
<1>3. t \in Seq(Roots!Events) /\ Len(t) = k + 1 /\ \A i \in 1 .. k : t[i] = log[i]
  BY <1>1, <1>2, RootUnfolded
<1>4. log' = t /\ UNCHANGED <<kept, flights, caller>>
  BY <1>1 DEF Roots!Commit
<1>5. \A m \in 0 .. Len(t) : Readable(t, m)
  BY <1>1, ReadableCommit, RootUnfolded
<1>6. ASSUME NEW root, NEW base, NEW epoch \in Nat, Named(log, root, base, epoch)
      PROVE  Named(t, root, base, epoch)
  BY <1>2, <1>3, <1>6 DEF Named
<1>7. kept # None => Lasting(kept, t)
  BY <1>6, RootUnfolded DEF Lasting, RootEntries
<1>8. \A f \in flights : Resolving(f, t)
  <2> SUFFICES ASSUME NEW f \in flights PROVE Resolving(f, t)
    OBVIOUS
  <2>1. Resolving(f, log) /\ f \in Resolutions
    BY RootUnfolded
  <2>2. f.epoch \in 0 .. k /\ f.seen \in 0 .. k
    BY <1>2, <2>1 DEF Resolving
  <2>3. f.epoch = 0 \/ t[f.epoch].kind = "cd"
    BY <1>3, <2>1, <2>2 DEF Resolving
  <2> QED BY <1>3, <2>1, <2>2, <2>3 DEF Resolving
<1>9. \A c \in Callers : Asking(caller[c], t, flights)
  <2> SUFFICES ASSUME NEW c \in Callers PROVE Asking(caller[c], t, flights)
    OBVIOUS
  <2>1. caller[c].epoch \in Nat /\ Asking(caller[c], log, flights)
    BY RootUnfolded DEF Askers
  <2> QED BY <1>6, <2>1 DEF Asking
<1> QED BY <1>3, <1>4, <1>5, <1>7, <1>8, <1>9, RootUnfolded, RootGathered

\* Time takes from what is left as much as it adds to the age.
LEMMA RootTickKeeps ==
  ASSUME Roots!ConstantsAssumption, RootInv, Roots!Tick PROVE RootInv'
<1>1. UNCHANGED <<log, caller>>
  BY DEF Roots!Tick
<1>2. (kept' = None \/ kept' \in RootEntries) /\ (kept' # None => Lasting(kept', log))
  <2>1. CASE kept = None \/ kept.left <= 1
    BY <2>1 DEF Roots!Tick
  <2>2. CASE ~(kept = None \/ kept.left <= 1)
    <3>1. kept \in RootEntries /\ Lasting(kept, log)
      BY <2>2, RootUnfolded
    <3>2. kept' = [kept EXCEPT !.left = @ - 1, !.age = @ + 1]
      BY <2>2 DEF Roots!Tick
    <3>3. kept.left \in 1 .. TTL /\ kept.age \in Nat /\ kept.left > 1
      BY <2>2, <3>1 DEF RootEntries, Roots!ConstantsAssumption
    <3>4. /\ kept'.root = kept.root /\ kept'.base = kept.base /\ kept'.epoch = kept.epoch
          /\ kept'.left = kept.left - 1 /\ kept'.age = kept.age + 1
      BY <3>1, <3>2 DEF RootEntries
    <3>5. kept' \in RootEntries
      <4>1. PICK l \in 1 .. TTL, a \in Nat : l = kept.left - 1 /\ a = kept.age + 1
        BY <3>3 DEF Roots!ConstantsAssumption
      <4>2. kept' = [kept EXCEPT !.left = l, !.age = a]
        BY <3>2, <4>1
      <4> QED BY <3>1, <4>1, <4>2 DEF RootEntries
    <3>6. Lasting(kept', log)
      BY <3>1, <3>3, <3>4 DEF Lasting, Roots!ConstantsAssumption
    <3> QED BY <3>5, <3>6
  <2> QED BY <2>1, <2>2
<1>3. ASSUME NEW g \in flights'
      PROVE  /\ g \in Resolutions /\ Resolving(g, log)
             /\ \E f \in flights : /\ g.base = f.base /\ g.epoch = f.epoch
                                   /\ g = [f EXCEPT !.spent = @ + 1,
                                                    !.age = IF f.read THEN @ + 1 ELSE 0]
  <2>1. PICK f \in flights :
          g = [f EXCEPT !.spent = @ + 1, !.age = IF f.read THEN @ + 1 ELSE 0]
    BY <1>3 DEF Roots!Tick
  <2>2. f \in Resolutions /\ Resolving(f, log) /\ f.spent < Slow
    BY RootUnfolded DEF Roots!Tick
  <2>3. /\ g.base = f.base /\ g.epoch = f.epoch /\ g.read = f.read /\ g.seen = f.seen
        /\ g.spent = f.spent + 1 /\ g.age = (IF f.read THEN f.age + 1 ELSE 0)
        /\ g \in Resolutions
    <3>1. PICK n \in Nat, a \in Nat : n = f.spent + 1 /\ a = (IF f.read THEN f.age + 1 ELSE 0)
      BY <2>2 DEF Resolutions
    <3>2. g = [f EXCEPT !.spent = n, !.age = a]
      BY <2>1, <3>1
    <3> QED BY <2>2, <3>1, <3>2 DEF Resolutions
  <2>4. g.age <= g.spent /\ g.spent <= Slow
    <3>1. f.age \in Nat /\ f.spent \in Nat /\ Slow \in Nat /\ f.age <= f.spent
      BY <2>2 DEF Resolutions, Resolving, Roots!ConstantsAssumption
    <3> QED BY <2>2, <2>3, <3>1
  <2>5. Resolving(g, log)
    BY <2>2, <2>3, <2>4 DEF Resolving
  <2> QED BY <2>1, <2>3, <2>5
<1>4. Shared(flights')
  <2> SUFFICES ASSUME NEW g \in flights', NEW h \in flights', g.base = h.base, g.epoch = h.epoch
               PROVE  g = h
    BY DEF Shared
  <2>1. PICK f \in flights : /\ g.base = f.base /\ g.epoch = f.epoch
                             /\ g = [f EXCEPT !.spent = @ + 1, !.age = IF f.read THEN @ + 1 ELSE 0]
    BY <1>3
  <2>2. PICK e \in flights : /\ h.base = e.base /\ h.epoch = e.epoch
                             /\ h = [e EXCEPT !.spent = @ + 1, !.age = IF e.read THEN @ + 1 ELSE 0]
    BY <1>3
  <2>3. e = f
    BY <2>1, <2>2, RootUnfolded DEF Shared
  <2> QED BY <2>1, <2>2, <2>3
<1>5. \A c \in Callers : Asking(caller[c], log, flights')
  <2> SUFFICES ASSUME NEW c \in Callers PROVE Asking(caller[c], log, flights')
    OBVIOUS
  <2>1. Asking(caller[c], log, flights)
    BY RootUnfolded
  <2>2. ASSUME NEW f \in flights
        PROVE  \E g \in flights' : g.base = f.base /\ g.epoch = f.epoch
    <3>1. PICK g : g = [f EXCEPT !.spent = @ + 1, !.age = IF f.read THEN @ + 1 ELSE 0]
      OBVIOUS
    <3>2. g \in flights'
      BY <3>1 DEF Roots!Tick
    <3>3. g.base = f.base /\ g.epoch = f.epoch
      BY <3>1, RootUnfolded DEF Resolutions
    <3> QED BY <3>2, <3>3
  <2> QED BY <2>1, <2>2 DEF Asking
<1> QED BY <1>1, <1>2, <1>3, <1>4, <1>5, RootUnfolded, RootGathered

\* Every step keeps the invariant.
LEMMA RootsNext ==
  ASSUME Roots!ConstantsAssumption, RootInv, [Roots!Next]_(Roots!vars)
  PROVE  RootInv'
<1>1. CASE UNCHANGED Roots!vars
  BY <1>1, RootUnfolded, RootGathered DEF Roots!vars
<1>2. ASSUME NEW c \in Callers, Roots!ReadBase(c) PROVE RootInv'
  BY <1>2, ReadBaseKeeps
<1>3. ASSUME NEW c \in Callers, Roots!Ask(c) PROVE RootInv'
  BY <1>3, AskKeeps
<1>4. ASSUME NEW c \in Callers, Roots!Done(c) PROVE RootInv'
  BY <1>4, DoneKeeps
<1>5. ASSUME NEW f \in flights, Roots!ReadEvents(f) PROVE RootInv'
  BY <1>5, ReadEventsKeeps
<1>6. ASSUME NEW f \in flights, Roots!Resolve(f) PROVE RootInv'
  BY <1>6, ResolveKeeps
<1>7. ASSUME NEW d \in Dirs, Roots!Change(d) PROVE RootInv'
  <2>1. PICK event : event = [kind |-> "cd", dir |-> d]
    OBVIOUS
  <2>2. event \in Roots!Events
    BY <2>1 DEF Roots!Events
  <2> QED BY <1>7, <2>1, <2>2, CommitKeeps DEF Roots!Change
<1>8. ASSUME NEW d \in Linked, Roots!Call(d) PROVE RootInv'
  <2>1. PICK event : event = [kind |-> "call", dir |-> d]
    OBVIOUS
  <2>2. event \in Roots!Events
    BY <2>1 DEF Roots!Events, Roots!ConstantsAssumption
  <2> QED BY <1>8, <2>1, <2>2, CommitKeeps DEF Roots!Call
<1>9. CASE Roots!Evict
  BY <1>9, RootUnfolded, RootGathered DEF Roots!Evict
<1>10. CASE Roots!Tick
  BY <1>10, RootTickKeeps
<1> QED
  BY <1>1, <1>2, <1>3, <1>4, <1>5, <1>6, <1>7, <1>8, <1>9, <1>10 DEF Roots!Next

\* The session begins with an empty log, and nothing asked.
LEMMA RootsBegin == ASSUME Roots!ConstantsAssumption, Roots!Init PROVE RootInv
<1>1. log = <<>> /\ log \in Seq(Roots!Events) /\ Len(log) = 0
  BY DEF Roots!Init
<1>2. \A m \in 0 .. Len(log) : Readable(log, m)
  <2>1. LastChange(log, 0, 0)
    BY DEF LastChange
  <2>2. \A m \in 0 .. 0 : m = 0
    OBVIOUS
  <2>3. \A n \in 0 .. 0 : \A i \in n + 1 .. 0 : FALSE
    OBVIOUS
  <2> QED BY <1>1, <2>1, <2>2, <2>3 DEF Readable
<1>3. \A c \in Callers : caller[c] = Roots!Idle
  BY DEF Roots!Init
<1>4. Roots!Idle \in Askers /\ Roots!Idle.stage = "idle"
  BY DEF Roots!Idle, Askers
<1>5. caller \in [Callers -> Askers]
  BY <1>4 DEF Roots!Init
<1>6. \A c \in Callers : Asking(caller[c], log, flights)
  BY <1>3, <1>4 DEF Asking
<1> QED BY <1>1, <1>2, <1>5, <1>6, RootUnfolded DEF Roots!Init, Shared

\* The invariant of the session's root holds.
LEMMA RootInvHolds == ASSUME Roots!ConstantsAssumption PROVE Roots!Spec => []RootInv
<1>1. Roots!Init => RootInv
  BY RootsBegin
<1>2. RootInv /\ [Roots!Next]_(Roots!vars) => RootInv'
  BY RootsNext
<1> QED BY <1>1, <1>2, PTL DEF Roots!Spec

\* The log, the kept root, the resolutions and the callers are what their types
\* say: one resolution per base and epoch, and whoever waits has one under way.
THEOREM RootsTypeCorrect == ASSUME Roots!ConstantsAssumption PROVE Roots!Spec => []Roots!TypeOK
<1>1. ASSUME RootInv PROVE Roots!TypeOK
  <2>1. \A i \in DOMAIN log : log[i] \in Roots!Events
    BY <1>1, RootUnfolded
  <2>2. kept # None => kept.root \in Dirs /\ kept.base \in Dirs /\ kept.left \in 0 .. TTL
    BY <1>1, RootUnfolded DEF RootEntries
  <2>3. \A f \in flights :
          f.base \in Dirs /\ f.epoch \in 0 .. Len(log) /\ f.seen \in 0 .. Len(log)
    BY <1>1, RootUnfolded DEF Resolutions, Resolving
  <2>4. \A f, g \in flights : f.base = g.base /\ f.epoch = g.epoch => f = g
    BY <1>1, RootUnfolded DEF Shared
  <2>5. \A c \in Callers :
          /\ caller[c].stage \in {"idle", "based", "waiting", "answered"}
          /\ caller[c].stage = "waiting" =>
               \E f \in flights : f.base = caller[c].base /\ f.epoch = caller[c].joined
    BY <1>1, RootUnfolded DEF Askers, Asking
  <2> QED BY <2>1, <2>2, <2>3, <2>4, <2>5 DEF Roots!TypeOK
<1> QED BY <1>1, RootInvHolds, PTL

\* For any log, callers and directories: a worktree that is answered was named by
\* a call after the last change of directory before the ask, and the answer is
\* what the log said at most the TTL and one resolution ago, whatever was kept,
\* shared or under way (activeWorktreeRootOf).
THEOREM RootFollowsHolds ==
  ASSUME Roots!ConstantsAssumption PROVE Roots!Spec => [](Roots!Boundary /\ Roots!Followed)
<1>1. ASSUME RootInv PROVE Roots!Boundary /\ Roots!Followed
  BY <1>1, RootUnfolded DEF Roots!Boundary, Roots!Followed, Asking, Named
<1> QED BY <1>1, RootInvHolds, PTL
=============================================================================
