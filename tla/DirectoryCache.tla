-------------------------- MODULE DirectoryCache --------------------------
(***************************************************************************)
(* The cache of listed directory levels behind the file tree               *)
(* (src/fs-tree.ts): a level is served for DIRECTORY_CACHE_TTL_MS after     *)
(* its read began, writers and the directory watcher drop it, and the map  *)
(* is bounded by evicting the oldest entry.  A read awaits the file system; *)
(* writes, invalidations and other reads happen meanwhile.                 *)
(*                                                                         *)
(* A directory's content is the number of writes it has seen.              *)
(***************************************************************************)
EXTENDS Naturals, FiniteSets, Sequences, SequencesExt

CONSTANTS
  Dirs,
  Variants,   \* (cap, exclude patterns) pairs a level is listed with
  Readers,    \* listings under way at once
  MaxEntries, \* DIRECTORY_CACHE_MAX
  TTL,        \* DIRECTORY_CACHE_TTL_MS in ticks
  MaxWrites,  \* a bound
  Overlap     \* may a directory be written while it is being read?

ConstantsAssumption ==
  /\ MaxEntries \in Nat \ {0} /\ TTL \in Nat \ {0} /\ MaxWrites \in Nat
  /\ Overlap \in BOOLEAN

Keys == Dirs \X Variants

VARIABLES
  disk,      \* the content of every directory
  unflushed, \* directories written by a route that has yet to invalidate
  cache,     \* directoryCache: the entries, by key
  order,     \* the map's insertion order
  reader,    \* listings under way
  served,    \* what every reader was last answered
  floor,     \* history: the content when the directory was last invalidated
  trail      \* history: the contents at the last TTL ticks, oldest first

vars == <<disk, unflushed, cache, order, reader, served, floor, trail>>
history == <<served, floor, trail>>

Idle == [phase |-> "idle", key |-> CHOOSE k \in Keys : TRUE, age |-> 0,
         content |-> 0, floor |-> 0, oldest |-> 0]
Unserved == [content |-> 0, floor |-> 0, oldest |-> 0]

Entries == [at : 0..TTL, content : 0..MaxWrites]
TypeOK ==
  /\ disk \in [Dirs -> 0..MaxWrites]
  /\ unflushed \subseteq Dirs
  /\ DOMAIN cache \subseteq Keys /\ \A k \in DOMAIN cache : cache[k] \in Entries
  /\ order \in Seq(Keys) /\ ToSet(order) = DOMAIN cache /\ IsInjective(order)
  /\ \A r \in Readers : reader[r].phase \in {"idle", "asked", "read"}

Init ==
  /\ disk = [d \in Dirs |-> 0]
  /\ unflushed = {}
  /\ cache = << >> /\ order = << >>
  /\ reader = [r \in Readers |-> Idle]
  /\ served = [r \in Readers |-> Unserved]
  /\ floor = [d \in Dirs |-> 0]
  /\ trail = [d \in Dirs |-> [i \in 1..TTL |-> 0]]

-----------------------------------------------------------------------------
DirOf(k) == k[1]
\* Mutant: an expired entry is served as long as nobody invalidates it.
Fresh_Always(k) == k \in DOMAIN cache
Fresh(k) == k \in DOMAIN cache /\ cache[k].at < TTL
\* Mutant: an entry is emptied instead of deleted.
Without_Empties(ks) ==
  [k \in DOMAIN cache |-> IF k \in ks THEN [at |-> TTL, content |-> 0] ELSE cache[k]]
Without(ks) == [k \in DOMAIN cache \ ks |-> cache[k]]

\* A listing that finds a fresh level answers at once.
ListCached(r, k) ==
  /\ reader[r].phase = "idle" /\ Fresh(k)
  /\ served' = [served EXCEPT ![r] =
       [content |-> cache[k].content, floor |-> floor[DirOf(k)], oldest |-> Head(trail[DirOf(k)])]]
  /\ UNCHANGED <<disk, unflushed, cache, order, reader, floor, trail>>

ListUncached(r, k) ==
  /\ reader[r].phase = "idle" /\ ~Fresh(k)
  /\ Overlap \/ DirOf(k) \notin unflushed
  /\ reader' = [reader EXCEPT ![r] =
       [phase |-> "asked", key |-> k, age |-> 0, content |-> 0,
        floor |-> floor[DirOf(k)], oldest |-> Head(trail[DirOf(k)])]]
  /\ UNCHANGED <<disk, unflushed, cache, order, history>>

\* readdir: the content the answer will have, whatever the probes still take.
Readdir(r) ==
  /\ reader[r].phase = "asked"
  /\ reader' = [reader EXCEPT ![r].phase = "read", ![r].content = disk[DirOf(reader[r].key)]]
  /\ UNCHANGED <<disk, unflushed, cache, order, history>>

\* Mutant: the map evicts only once it is over its bound.
Evicted_Late == IF Len(order) > MaxEntries THEN {Head(order)} ELSE {}
\* A full map gives up its oldest key, even when the key to set is in it.
Evicted == IF Len(order) >= MaxEntries THEN {Head(order)} ELSE {}

\* Mutant: an entry's age counts from the end of its read.
Stamp_Late(r) == [at |-> 0, content |-> reader[r].content]
Stamp(r) == [at |-> reader[r].age, content |-> reader[r].content]

ReadDone(r) ==
  /\ reader[r].phase = "read"
  /\ LET k == reader[r].key
         kept == Without(Evicted)
     IN  /\ cache' = [j \in DOMAIN kept \cup {k} |-> IF j = k THEN Stamp(r) ELSE kept[j]]
         /\ order' = LET rest == SelectSeq(order, LAMBDA j : j \notin Evicted)
                     IN  IF Contains(rest, k) THEN rest ELSE Append(rest, k)
  /\ served' = [served EXCEPT ![r] =
       [content |-> reader[r].content, floor |-> reader[r].floor, oldest |-> reader[r].oldest]]
  /\ reader' = [reader EXCEPT ![r] = Idle]
  /\ UNCHANGED <<disk, unflushed, floor, trail>>

ReadFails(r) ==
  /\ reader[r].phase = "asked"
  /\ reader' = [reader EXCEPT ![r] = Idle]
  /\ UNCHANGED <<disk, unflushed, cache, order, history>>

\* A route, or something outside the plugin, changes the directory ...
Write(d) ==
  /\ disk[d] < MaxWrites
  /\ Overlap \/ \A r \in Readers : reader[r].phase = "idle" \/ DirOf(reader[r].key) # d
  /\ disk' = [disk EXCEPT ![d] = @ + 1]
  /\ unflushed' = unflushed \cup {d}
  /\ UNCHANGED <<cache, order, reader, history>>

\* Mutant: invalidation drops one variant of the level only.
Dropped_One(d) == {k \in DOMAIN cache : DirOf(k) = d /\ k[2] = CHOOSE v \in Variants : TRUE}
Dropped(d) == {k \in DOMAIN cache : DirOf(k) = d}
\* ... and then invalidates it: every variant of the level.
Invalidate(d) ==
  /\ d \in unflushed
  /\ unflushed' = unflushed \ {d}
  /\ cache' = Without(Dropped(d))
  /\ order' = SelectSeq(order, LAMBDA k : k \notin Dropped(d))
  /\ floor' = [floor EXCEPT ![d] = disk[d]]
  /\ UNCHANGED <<disk, reader, served, trail>>

InvalidateAll ==
  /\ cache' = << >> /\ order' = << >>
  /\ UNCHANGED <<disk, unflushed, reader, history>>

Aged(n) == IF n < TTL THEN n + 1 ELSE n
Tick ==
  /\ cache' = [k \in DOMAIN cache |-> [cache[k] EXCEPT !.at = Aged(@)]]
  /\ reader' = [r \in Readers |-> IF reader[r].phase = "idle" THEN reader[r]
                                  ELSE [reader[r] EXCEPT !.age = Aged(@)]]
  /\ trail' = [d \in Dirs |-> Append(Tail(trail[d]), disk[d])]
  /\ UNCHANGED <<disk, unflushed, order, served, floor>>

Next ==
  \/ \E r \in Readers :
       \/ \E k \in Keys : ListCached(r, k) \/ ListUncached(r, k)
       \/ Readdir(r) \/ ReadDone(r) \/ ReadFails(r)
  \/ \E d \in Dirs : Write(d) \/ Invalidate(d)
  \/ InvalidateAll \/ Tick

Spec == Init /\ [][Next]_vars

-----------------------------------------------------------------------------
(* Properties. *)

\* Concurrent reads and repeated reads of a cached key never grow the map over
\* its bound.
CacheBounded == Len(order) <= MaxEntries

\* A listing is never older than the TTL: what is answered was on disk at some
\* moment less than TTL before the question, even if the read that filled the
\* cache was slow.
StalenessBounded == \A r \in Readers : served[r].content >= served[r].oldest

\* The comment of invalidateDirectoryCache: "a stale level is never served past
\* the write that changed it".  Asked for after the invalidation, any variant of
\* the level shows at least what the invalidated write left.
NeverServedPastTheWrite == \A r \in Readers : served[r].content >= served[r].floor

\* Both, the second where no directory is written while it is read.
ServedFresh == StalenessBounded /\ (Overlap \/ NeverServedPastTheWrite)
=============================================================================
