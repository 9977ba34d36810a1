---------------------------- MODULE TreeLevels ----------------------------
(***************************************************************************)
(* The levels a file tree shows (FileTree.tsx): the client's cache of      *)
(* listed directories, the requests that fill it, the generation that      *)
(* makes an answer stale, and the placeholder ("Loading...") each request  *)
(* owns until it is settled.  Levels are asked for when they come into     *)
(* view, when the user refreshes, when the exclude list changes, when the  *)
(* host's watcher names a folder and after the tree's own operations.      *)
(*                                                                         *)
(* A directory's content and the exclude list are numbers, one more with   *)
(* each change.  Every path is a batch of its own, so that one may fail.   *)
(* Left out: which collapsed folders are folded into a breadcrumb (any     *)
(* may), the hint beside a listing kept after a failure, scope changes.    *)
(***************************************************************************)
EXTENDS Naturals, Sequences, SequencesExt

CONSTANTS
  Dirs,
  Top,        \* the workspace root
  InOrder,    \* whether answers arrive in the order of the requests
  MaxEvents, MaxFailures   \* bounds

ConstantsAssumption ==
  Top \in Dirs /\ InOrder \in BOOLEAN /\ MaxEvents \in Nat /\ MaxFailures \in Nat

VARIABLES
  disk,        \* directory -> its content
  exclude,     \* the exclude list
  expanded,    \* the directories open in the tree
  data,        \* dataRef: directory -> its level
  pending,     \* pendingRef: directory -> the generation that owns its placeholder, or 0
  generation,
  requests,    \* the requests under way, oldest first
  noticed,     \* folders the watcher is about to name
  asked,       \* the levels in view that were asked for since they came into view (history)
  events, failures

vars ==
  <<disk, exclude, expanded, data, pending, generation, requests, noticed, asked, events, failures>>

Level(state, of, by) == [state |-> state, of |-> of, by |-> by]
Unloaded == Level("none", 0, 0)
Placeholder == Level("loading", 0, 0)
Failed == Level("error", 0, 0)
Awaited == Level("asked", 0, 0)
Lost == Level("failed", 0, 0)
Count == 1 .. MaxEvents + 1
Levels == {Level("listed", n, m) : n, m \in Count} \cup {Failed}

Visible == {Top} \cup expanded

TypeOK ==
  /\ disk \in [Dirs -> Count] /\ exclude \in Count /\ expanded \subseteq Dirs \ {Top}
  /\ data \in [Dirs -> Levels \cup {Unloaded, Placeholder}]
  /\ pending \in [Dirs -> 0 .. generation] /\ generation \in Count
  /\ \A i \in DOMAIN requests :
       /\ requests[i].generation \in 1 .. generation /\ requests[i].by \in 1 .. exclude
       /\ \A d \in DOMAIN requests[i].got : d \in Dirs /\ requests[i].got[d] \in Levels \cup {Awaited, Lost}
  /\ noticed \subseteq Dirs /\ asked \subseteq Visible
  /\ events \in 0 .. MaxEvents /\ failures \in 0 .. MaxFailures

-----------------------------------------------------------------------------
(* loadLevels                                                               *)

Request(wanted, gen, by) == [generation |-> gen, by |-> by, got |-> [d \in wanted |-> Awaited]]

\* A level is asked for unless it is listed or its placeholder stands for a request.
Missing(paths, level) == {d \in paths : level[d].state \in {"none", "error"}}

\* The cache, the owners and the requests once the levels in paths are loaded, and
\* the levels that are asked for.
Loaded(paths, force, level, owner, sent, gen, by) ==
  LET wanted == IF force THEN paths ELSE Missing(paths, level) IN
  [ data |-> IF force THEN level ELSE [d \in Dirs |-> IF d \in wanted THEN Placeholder ELSE level[d]],
    pending |-> IF force THEN owner ELSE [d \in Dirs |-> IF d \in wanted THEN gen ELSE owner[d]],
    requests |-> IF wanted = {} THEN sent ELSE Append(sent, Request(wanted, gen, by)),
    wanted |-> wanted ]

Becomes(after) ==
  /\ data' = after.data /\ pending' = after.pending /\ requests' = after.requests
  /\ asked' = (asked \cup after.wanted) \cap Visible'

Init ==
  /\ disk = [d \in Dirs |-> 1] /\ exclude = 1 /\ expanded = {}
  /\ generation = 1 /\ noticed = {} /\ asked = {Top} /\ events = 0 /\ failures = 0
  /\ LET after == Loaded({Top}, FALSE, [d \in Dirs |-> Unloaded], [d \in Dirs |-> 0], <<>>, 1, 1) IN
       data = after.data /\ pending = after.pending /\ requests = after.requests

Event == events < MaxEvents /\ events' = events + 1

\* A folder is opened or closed.
Toggle(d) ==
  /\ Event /\ d # Top
  /\ expanded' = IF d \in expanded THEN expanded \ {d} ELSE expanded \cup {d}
  /\ Becomes(Loaded({Top} \cup expanded', FALSE, data, pending, requests, generation, exclude))
  /\ UNCHANGED <<disk, exclude, generation, noticed, failures>>

\* A collapsed folder that may be folded is loaded ahead.
Fold(d) ==
  /\ Event /\ data[Top].state = "listed" /\ data[d] = Unloaded /\ d \notin Visible
  /\ UNCHANGED <<disk, exclude, expanded, generation, noticed, failures>>
  /\ Becomes(Loaded({d}, FALSE, data, pending, requests, generation, exclude))

\* Mutant: the visible levels are loaded, but not forced.
Refresh_Unforced ==
  /\ Event /\ generation' = generation + 1
  /\ UNCHANGED <<disk, exclude, expanded, noticed, failures>>
  /\ Becomes(Loaded(Visible, FALSE, data, pending, requests, generation', exclude))

\* Mutant: of what is in view only the root is listed again.
Refresh_Root ==
  /\ Event /\ generation' = generation + 1
  /\ UNCHANGED <<disk, exclude, expanded, noticed, failures>>
  /\ Becomes(Loaded({Top}, TRUE, data, pending, requests, generation', exclude))

\* A refresh makes what is under way stale, and lists all that is in view again.
Refresh ==
  /\ Event /\ generation' = generation + 1
  /\ UNCHANGED <<disk, exclude, expanded, noticed, failures>>
  /\ Becomes(Loaded(Visible, TRUE, data, pending, requests, generation', exclude))

\* Another exclude list: every level goes.
Exclude ==
  /\ Event /\ generation' = generation + 1 /\ exclude' = exclude + 1
  /\ UNCHANGED <<disk, expanded, noticed, failures>>
  /\ Becomes(Loaded(Visible, FALSE, [d \in Dirs |-> Unloaded], pending, requests, generation', exclude'))

\* Something changes a folder; the watcher will name it if it is in view.
Change(d) ==
  /\ Event
  /\ disk' = [disk EXCEPT ![d] = @ + 1]
  /\ noticed' = noticed \cup ({d} \cap Visible)
  /\ UNCHANGED <<exclude, expanded, data, pending, generation, requests, asked, failures>>

\* retryDir: the folder is listed again, over the rows on screen.
Notice(d) ==
  /\ d \in noticed /\ noticed' = noticed \ {d}
  /\ UNCHANGED <<disk, exclude, expanded, generation, events, failures>>
  /\ Becomes(Loaded({d}, TRUE, data, pending, requests, generation, exclude))

\* pruneTree, after an operation on a row of d: its level goes and is listed again.
Settle(d) ==
  /\ Event /\ d \in Visible
  /\ disk' = [disk EXCEPT ![d] = @ + 1] /\ noticed' = noticed \cup {d}
  /\ UNCHANGED <<exclude, expanded, generation, failures>>
  /\ Becomes(Loaded({d}, TRUE, [data EXCEPT ![d] = Unloaded], pending, requests, generation, exclude))

-----------------------------------------------------------------------------
(* Answers                                                                  *)

\* The host reads a level; it cannot, or the call is lost.
Serve(i, d) ==
  /\ i \in DOMAIN requests /\ d \in DOMAIN requests[i].got /\ requests[i].got[d] = Awaited
  /\ InOrder => \A j \in 1 .. i - 1 : d \in DOMAIN requests[j].got => requests[j].got[d] # Awaited
  /\ \/ /\ requests' = [requests EXCEPT ![i].got[d] = Level("listed", disk[d], requests[i].by)]
        /\ UNCHANGED failures
     \/ /\ failures < MaxFailures /\ failures' = failures + 1
        /\ \E e \in {Failed, Lost} : requests' = [requests EXCEPT ![i].got[d] = e]
  /\ UNCHANGED <<disk, exclude, expanded, data, pending, generation, noticed, asked, events>>

\* releasePlaceholders: what a stale request still owns.
Released(r) == {d \in DOMAIN r.got : pending[d] = r.generation /\ data[d] = Placeholder}

\* A level that was lost keeps its rows, and shows the failure if it has none.
Stored(r) ==
  [d \in Dirs |->
     IF d \notin DOMAIN r.got THEN data[d]
     ELSE IF r.got[d] # Lost THEN r.got[d]
     ELSE IF data[d].state = "listed" THEN data[d] ELSE Failed]

Disowned(r) == [d \in Dirs |-> IF d \in DOMAIN r.got THEN 0 ELSE pending[d]]

\* The answer i is stored: nothing is asked for.
Kept(r, i) ==
  [ data |-> Stored(r), pending |-> Disowned(r), requests |-> RemoveAt(requests, i),
    wanted |-> {} ]

Answered(i) ==
  /\ i \in DOMAIN requests
  /\ InOrder => i = 1
  /\ \A d \in DOMAIN requests[i].got : requests[i].got[d] # Awaited

\* Mutant: a stale answer is dropped, and no more.
Arrive_Drops(i) ==
  /\ Answered(i)
  /\ UNCHANGED <<disk, exclude, expanded, generation, noticed, events, failures>>
  /\ LET r == requests[i] IN
     IF r.generation = generation
     THEN Becomes(Kept(r, i))
     ELSE requests' = RemoveAt(requests, i) /\ UNCHANGED <<data, pending, asked>>

\* Mutant: an answer is never stale.
Arrive_Late(i) ==
  /\ Answered(i)
  /\ UNCHANGED <<disk, exclude, expanded, generation, noticed, events, failures>>
  /\ Becomes(Kept(requests[i], i))

\* An answer is stored; a stale one is dropped, and the placeholders it still owns
\* are asked for once more (with the exclude list of then).
Arrive(i) ==
  /\ Answered(i)
  /\ UNCHANGED <<disk, exclude, expanded, generation, noticed, events, failures>>
  /\ LET r == requests[i]
         own == {d \in DOMAIN r.got : pending[d] = r.generation}
         left == [d \in Dirs |-> IF d \in Released(r) THEN Unloaded ELSE data[d]]
         free == [d \in Dirs |-> IF d \in own THEN 0 ELSE pending[d]]
     IN  IF r.generation = generation
         THEN Becomes(Kept(r, i))
         ELSE Becomes(Loaded(Released(r), FALSE, left, free, RemoveAt(requests, i), generation, r.by))

Next ==
  \/ Refresh \/ Exclude
  \/ \E d \in Dirs : Toggle(d) \/ Fold(d) \/ Change(d) \/ Notice(d) \/ Settle(d)
  \/ \E i \in 1 .. Len(requests) : Arrive(i) \/ \E d \in Dirs : Serve(i, d)

Spec == Init /\ [][Next]_vars

-----------------------------------------------------------------------------
(* Properties                                                               *)

\* No level is left on "Loading...": a placeholder, or a level in view that has
\* nothing, waits for a request whose answer will settle it.
NoneStuck ==
  \A d \in Dirs :
    data[d] = Placeholder \/ (d \in Visible /\ data[d] = Unloaded)
      => \E i \in DOMAIN requests :
           /\ d \in DOMAIN requests[i].got
           /\ requests[i].generation \in {generation} \cup ({pending[d]} \ {0})

\* Once all is answered and the watcher has named what changed, every level in view
\* is listed by the exclude list of now, and every one that was asked for since it
\* came into view, the root among them, holds what is on disk.  (A level loaded
\* before, folded or while its folder was open earlier, is shown as it was kept.)
LevelsCurrent ==
  requests = <<>> /\ noticed = {} /\ failures = 0
    => /\ \A d \in Visible : data[d].state = "listed" /\ data[d].by = exclude
       /\ Top \in asked /\ \A d \in asked : data[d].of = disk[d]

\* No row of the tree is left on "Loading...", and when all is answered the tree
\* shows what is on disk: the root's rows and those of every open folder whose
\* level was asked for since it came into view.
RowsSettle == NoneStuck /\ LevelsCurrent
=============================================================================
