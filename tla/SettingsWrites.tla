-------------------------- MODULE SettingsWrites --------------------------
(***************************************************************************)
(* One map of the side card's settings and its writers in a page: the      *)
(* settings popup (SideCardSection.tsx), which shows a switch at once and  *)
(* commits the whole map under the document's revision, and the menus      *)
(* (plugin-settings.ts), whose queue builds each map when its turn comes.  *)
(* The settings service is external: it replaces the map, adds one to the  *)
(* revision, and refuses a write that expects another one.                 *)
(*                                                                         *)
(* Left out: settings that are not in a map, their validation (parsePrefs).*)
(***************************************************************************)
EXTENDS Naturals, Sequences

CONSTANTS
  Keys,
  Surfaces,    \* who writes: "popup", "menu", "other" (another page)
  Bursts,      \* whether a switch is flipped after one of a burst's commits is
               \* answered and before the others are
  EarlyFlips,  \* whether the popup is used before its first read is answered
  MaxToggles,  \* bound
  None

ConstantsAssumption ==
  /\ Surfaces \subseteq {"popup", "menu", "other"} /\ Bursts \in BOOLEAN /\ EarlyFlips \in BOOLEAN
  /\ MaxToggles \in Nat /\ None \notin Nat

Maps == [Keys -> BOOLEAN]

VARIABLES
  doc,         \* the host's document: revision and map
  store,       \* the page's copy of the map (store.prefs)
  shown,       \* the popup's copy (prefs and optimisticRef)
  revision,    \* revisionRef
  dirty,       \* dirtyRef
  mount,       \* the popup's first read: "asked", the document it read, or "over"
  commits,     \* the popup's queue: the maps to write and to go back to
  menu,        \* the menus' queue of flips; the first may have built its map
  wish,        \* ghost: what the user chose last
  burst,       \* ghost: whether a commit of the present burst was answered
  refused,     \* ghost: whether a write was refused, or lost
  toggles

vars == <<doc, store, shown, revision, dirty, mount, commits, menu, wish, burst, refused, toggles>>

Answers == {"none", "ok", "refused"}

TypeOK ==
  /\ doc.revision \in 0 .. MaxToggles /\ {doc.map, store, shown, wish} \subseteq Maps
  /\ revision \in 0 .. MaxToggles \cup {None} /\ dirty \in BOOLEAN
  /\ mount.stage \in {"asked", "read", "over"} /\ (mount.stage = "read" => mount.revision \in Nat)
  /\ \A i \in DOMAIN commits :
       /\ {commits[i].map, commits[i].before} \subseteq Maps
       /\ commits[i].revision \in 0 .. doc.revision
       /\ commits[i].answer \in Answers /\ (commits[i].answer # "none" => i = 1)
  /\ \A i \in DOMAIN menu :
       /\ menu[i].key \in Keys /\ menu[i].stage \in {"queued", "built", "ok", "refused"}
       /\ menu[i].stage # "queued" => i = 1
  /\ toggles \in 0 .. MaxToggles /\ refused \in BOOLEAN
  /\ commits # <<>> => dirty

Init ==
  /\ doc = [revision |-> 0, map |-> [k \in Keys |-> FALSE]]
  /\ store = doc.map /\ shown = doc.map /\ wish = doc.map
  /\ revision = None /\ dirty = FALSE /\ burst = FALSE
  /\ mount = [stage |-> "asked", revision |-> 0, map |-> doc.map]
  /\ commits = <<>> /\ menu = <<>> /\ toggles = 0 /\ refused = FALSE

Chosen(k) == /\ toggles < MaxToggles /\ toggles' = toggles + 1
             /\ wish' = [wish EXCEPT ![k] = ~@]

Takes(map) == doc' = [revision |-> doc.revision + 1, map |-> map]

-----------------------------------------------------------------------------
(* The popup                                                                *)

\* The document is read once, when the popup opens.
MountRead ==
  /\ mount.stage = "asked"
  /\ mount' = [stage |-> "read", revision |-> doc.revision, map |-> doc.map]
  /\ UNCHANGED <<doc, store, shown, revision, dirty, commits, menu, wish, burst, refused, toggles>>

\* Mutant: it overwrites what was flipped meanwhile.
Mounted_Overwrites ==
  /\ mount.stage = "read" /\ mount' = [mount EXCEPT !.stage = "over"]
  /\ revision' = mount.revision /\ shown' = mount.map
  /\ UNCHANGED <<doc, store, dirty, commits, menu, wish, burst, refused, toggles>>

Mounted ==
  /\ mount.stage = "read" /\ mount' = [mount EXCEPT !.stage = "over"]
  /\ revision' = mount.revision
  /\ shown' = IF dirty THEN shown ELSE mount.map
  /\ UNCHANGED <<doc, store, dirty, commits, menu, wish, burst, refused, toggles>>

NewCommit(map) ==
  [map |-> map, before |-> shown, revision |-> 0, answer |-> "none"]

\* A flip is shown at once, and its map is queued.
\* Mutant: the map is built from what the store has.
Flip_FromStore(k) ==
  /\ "popup" \in Surfaces /\ Chosen(k)
  /\ Bursts \/ ~burst
  /\ EarlyFlips \/ mount.stage = "over"
  /\ LET map == [store EXCEPT ![k] = wish'[k]] IN
     /\ shown' = map
     /\ commits' = Append(commits, NewCommit(map))
  /\ dirty' = TRUE
  /\ UNCHANGED <<doc, store, revision, mount, menu, burst, refused>>

Flip(k) ==
  /\ "popup" \in Surfaces /\ Chosen(k)
  /\ Bursts \/ ~burst
  /\ EarlyFlips \/ mount.stage = "over"
  /\ LET map == [shown EXCEPT ![k] = wish'[k]] IN
     /\ shown' = map
     /\ commits' = Append(commits, NewCommit(map))
  /\ dirty' = TRUE
  /\ UNCHANGED <<doc, store, revision, mount, menu, burst, refused>>

\* Mutant: the revision is not sent.
Commit_Unguarded ==
  /\ commits # <<>> /\ commits[1].answer = "none"
  /\ \/ /\ Takes(commits[1].map)
        /\ commits' = [commits EXCEPT ![1].answer = "ok", ![1].revision = doc.revision + 1]
        /\ UNCHANGED refused
     \/ /\ refused' = TRUE
        /\ commits' = [commits EXCEPT ![1].answer = "refused"]
        /\ UNCHANGED doc
  /\ UNCHANGED <<store, shown, revision, dirty, mount, menu, wish, burst, toggles>>

\* The first commit reaches the host, which refuses another revision than its own,
\* or fails.
Commit ==
  /\ commits # <<>> /\ commits[1].answer = "none"
  /\ \/ /\ revision \in {None, doc.revision}
        /\ Takes(commits[1].map)
        /\ commits' = [commits EXCEPT ![1].answer = "ok", ![1].revision = doc.revision + 1]
        /\ UNCHANGED refused
     \/ /\ refused' = TRUE
        /\ commits' = [commits EXCEPT ![1].answer = "refused"]
        /\ UNCHANGED doc
  /\ UNCHANGED <<store, shown, revision, dirty, mount, menu, wish, burst, toggles>>

\* Success adopts the answer, failure goes back to before the flip.
CommitEnds ==
  /\ commits # <<>> /\ commits[1].answer # "none"
  /\ commits' = Tail(commits) /\ burst' = (commits' # <<>>)
  /\ IF commits[1].answer = "ok"
     THEN shown' = commits[1].map /\ store' = commits[1].map /\ revision' = commits[1].revision
     ELSE shown' = commits[1].before /\ UNCHANGED <<store, revision>>
  /\ UNCHANGED <<doc, dirty, mount, menu, wish, toggles, refused>>

-----------------------------------------------------------------------------
(* The menus                                                                *)

MenuFlip(k) ==
  /\ "menu" \in Surfaces /\ Chosen(k)
  /\ menu' = Append(menu, [key |-> k, value |-> wish'[k], stage |-> "queued", map |-> store])
  /\ UNCHANGED <<doc, store, shown, revision, dirty, mount, commits, burst, refused>>

\* Mutant: the map is the one of the moment of the flip.
Build_Early ==
  /\ menu # <<>> /\ menu[1].stage = "queued"
  /\ menu' = [menu EXCEPT ![1].stage = "built", ![1].map[menu[1].key] = menu[1].value]
  /\ UNCHANGED <<doc, store, shown, revision, dirty, mount, commits, wish, burst, refused, toggles>>

\* When its turn comes, a flip builds its map from the page's copy.
Build ==
  /\ menu # <<>> /\ menu[1].stage = "queued"
  /\ menu' = [menu EXCEPT ![1].stage = "built",
                          ![1].map = [store EXCEPT ![menu[1].key] = menu[1].value]]
  /\ UNCHANGED <<doc, store, shown, revision, dirty, mount, commits, wish, burst, refused, toggles>>

MenuWrite ==
  /\ menu # <<>> /\ menu[1].stage = "built"
  /\ \/ /\ Takes(menu[1].map) /\ menu' = [menu EXCEPT ![1].stage = "ok"]
        /\ UNCHANGED refused
     \/ /\ refused' = TRUE
        /\ menu' = [menu EXCEPT ![1].stage = "refused"]
        /\ UNCHANGED doc
  /\ UNCHANGED <<store, shown, revision, dirty, mount, commits, wish, burst, toggles>>

\* The answer is adopted, and the queue goes on whatever it was.
MenuEnds ==
  /\ menu # <<>> /\ menu[1].stage \in {"ok", "refused"}
  /\ menu' = Tail(menu)
  /\ store' = IF menu[1].stage = "ok" THEN menu[1].map ELSE store
  /\ UNCHANGED <<doc, shown, revision, dirty, mount, commits, wish, burst, refused, toggles>>

-----------------------------------------------------------------------------
(* The rest of the world                                                    *)

\* Another page writes the map; this user wants what that one chose.
Other(k) ==
  /\ "other" \in Surfaces /\ Chosen(k)
  /\ Takes([doc.map EXCEPT ![k] = wish'[k]])
  /\ UNCHANGED <<store, shown, revision, dirty, mount, commits, menu, burst, refused>>

\* The host tells of a new document, and the page reads it.
DocumentUpdated ==
  /\ store # doc.map /\ store' = doc.map
  /\ UNCHANGED <<doc, shown, revision, dirty, mount, commits, menu, wish, burst, refused, toggles>>

Next ==
  \/ MountRead \/ Mounted \/ Commit \/ CommitEnds
  \/ Build \/ MenuWrite \/ MenuEnds \/ DocumentUpdated
  \/ \E k \in Keys : Flip(k) \/ MenuFlip(k) \/ Other(k)

Spec == Init /\ [][Next]_vars

-----------------------------------------------------------------------------
(* Properties                                                               *)

\* "Two same-tick writes would otherwise both spread the stale map and the later
\* patch would drop the earlier key": when all is written, and nothing was refused,
\* every switch is where the user put it last.
KeepsToggles ==
  commits = <<>> /\ menu = <<>> /\ ~refused => doc.map = wish
=============================================================================
