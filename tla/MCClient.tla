------------------------------ MODULE MCClient ------------------------------
(***************************************************************************)
(* Small instances of the client's state: the tree of panes (SplitTree),   *)
(* the store of every conversation's layout (SessionStore), a lazy chunk   *)
(* (ChunkLoader), the side card's settings (SettingsWrites), the summaries *)
(* of a session's terminals (TerminalSubscriptions), and the plugin's tabs *)
(* in the host's sidebar (NativeTabs, NativeTypes).  A behaviour is about  *)
(* the one chosen at its start:                                            *)
(*   tree     up to three tabs open at a time (an agent's counts for two)  *)
(*   drops    up to two, and lone tabs dropped on their own pane           *)
(*   evicts   three conversations, two in memory, drafts off screen        *)
(*   shown    the same with one tab and unread marks, cleared off screen   *)
(*   drafts   two conversations, and drafts of the one on screen           *)
(*   ids      two conversations, and diffs                                 *)
(*   chunk    openers, two edits of the script and two revalidations       *)
(*   popup    switches flipped in the popup, from its first read on        *)
(*   menu     switches flipped in the menus                                *)
(*   guarded  the popup, and another page that writes the same map         *)
(*   feeds    two subscribers to the summaries, and two providers          *)
(*   native   tabs of one id in the host's sidebar, for each conversation  *)
(*   types    the plugin's tab types in the host's registry                *)
(***************************************************************************)
EXTENDS SplitTree, TLC

CONSTANTS Sessions, Openers, Keys, Listeners, polled, silent, Local

VARIABLES
  part,
  current, snapshot, recent, states, timers, storage, counter, latest, \* SessionStore's
  script, cached, tracked, etag, load, opener, barrier, sweep, compared, failures,
  doc, store, shown, revision, dirty, mount, commits, menu, wish, burst, refused, toggles,
  registry, broken, w, entries, reconciling, pending, disposed, status, seen, changes, events, made,
  controller, mounted, exists, listed, watched, queue, tab, view, own, opens, writes, \* NativeTabs's
  seated, enabled, taken, stuck, live, failed, syncs, faults \* NativeTypes's

storeVars == <<current, snapshot, recent, states, timers, storage, counter, latest>>
chunkVars == <<script, cached, tracked, etag, load, opener, barrier, sweep, compared, failures>>
settingVars ==
  <<doc, store, shown, revision, dirty, mount, commits, menu, wish, burst, refused, toggles>>
summaryVars ==
  <<registry, broken, w, entries, reconciling, pending, disposed, status, seen, changes, events, made>>
tabVars == <<controller, mounted, exists, listed, watched, queue, tab, view, own, opens, writes>>
typeVars == <<seated, enabled, taken, stuck, live, failed, syncs, faults>>
mcVars == <<part, vars, storeVars, chunkVars, settingVars, summaryVars, tabVars, typeVars>>

Drops == INSTANCE SplitTree WITH LoneSelfDrops <- TRUE
Evicts == INSTANCE SessionStore WITH
  Cap <- 2, MaxId <- 2, Parts <- {"draft"}, ActiveDrafts <- FALSE, BackgroundClears <- FALSE
Shown == INSTANCE SessionStore WITH
  Cap <- 2, MaxId <- 1, Parts <- {"unread"}, ActiveDrafts <- FALSE, BackgroundClears <- TRUE
Drafts == INSTANCE SessionStore WITH
  Cap <- 2, MaxId <- 2, Parts <- {"draft"}, ActiveDrafts <- TRUE, BackgroundClears <- FALSE
Ids == INSTANCE SessionStore WITH
  Cap <- 2, MaxId <- 2, Parts <- {"diff"}, ActiveDrafts <- FALSE, BackgroundClears <- FALSE

Chunk == INSTANCE ChunkLoader WITH
  Races <- FALSE, LateFails <- FALSE, MaxEdits <- 2, MaxSweeps <- 2, MaxFailures <- 1
Popup == INSTANCE SettingsWrites WITH
  Surfaces <- {"popup"}, Bursts <- FALSE, EarlyFlips <- TRUE, MaxToggles <- 4
Menu == INSTANCE SettingsWrites WITH
  Surfaces <- {"menu"}, Bursts <- FALSE, EarlyFlips <- FALSE, MaxToggles <- 4
Guarded == INSTANCE SettingsWrites WITH
  Surfaces <- {"popup", "other"}, Bursts <- FALSE, EarlyFlips <- FALSE, MaxToggles <- 4


\* Two providers in the registry's order; the first is polled, the second has
\* no management source, and the local host pushes.
Summaries == INSTANCE TerminalSubscriptions WITH
  Providers <- <<polled, silent>>,
  Kind <- [b \in {polled, silent, Local} |->
             CASE b = polled -> "poll" [] b = silent -> "none" [] OTHER -> "push"],
  MaxEntries <- 2, MaxChanges <- 1, MaxEvents <- 1
\* Tabs of one id, for each conversation; the list has every conversation.
Native == INSTANCE NativeTabs WITH
  TabIds <- {"tab"}, Paths <- Files, pending <- queue, Misses <- FALSE,
  MaxOpens <- 2, MaxNavs <- 2, MaxControllers <- 2, MaxWrites <- 1
Types == INSTANCE NativeTypes WITH
  Descriptors <- {"editor", "side"}, Editor <- "editor", Files <- "files",
  MaxFaults <- 2, MaxSyncs <- 3

ASSUME Evicts!SessionStoreAssumption /\ Shown!SessionStoreAssumption
ASSUME Chunk!ConstantsAssumption /\ Popup!ConstantsAssumption /\ Summaries!ConstantsAssumption

MCInit ==
  /\ part \in {"tree", "drops", "evicts", "shown", "drafts", "ids",
              "chunk", "popup", "menu", "guarded", "feeds", "native", "types"}
  /\ Init /\ Evicts!Init /\ Chunk!Init /\ Popup!Init /\ Summaries!Init /\ Native!Init /\ Types!Init
  /\ part # "types" => enabled = {}
  /\ part # "feeds" => registry = [p \in {polled, silent} |-> 0]

AtMost(n) ==
  LET open == OpenTabs(tree') IN Cardinality(open) + Cardinality(open \cap Agents) <= n

TwoSessions == Cardinality({s \in Sessions : states'[s] # None \/ storage'[s] # None}) <= 2

MCNext ==
  \/ part = "tree" /\ Next /\ AtMost(3) /\ UNCHANGED <<part, storeVars, chunkVars, settingVars, summaryVars, tabVars, typeVars>>
  \/ part = "drops" /\ Drops!Next /\ AtMost(2) /\ UNCHANGED <<part, storeVars, chunkVars, settingVars, summaryVars, tabVars, typeVars>>
  \/ part = "evicts" /\ Evicts!Next /\ UNCHANGED <<part, vars, chunkVars, settingVars, summaryVars, tabVars, typeVars>>
  \/ part = "shown" /\ Shown!Next /\ UNCHANGED <<part, vars, chunkVars, settingVars, summaryVars, tabVars, typeVars>>
  \/ part = "drafts" /\ Drafts!Next /\ TwoSessions /\ UNCHANGED <<part, vars, chunkVars, settingVars, summaryVars, tabVars, typeVars>>
  \/ part = "ids" /\ Ids!Next /\ TwoSessions /\ UNCHANGED <<part, vars, chunkVars, settingVars, summaryVars, tabVars, typeVars>>
  \/ part = "chunk" /\ Chunk!Next /\ UNCHANGED <<part, vars, storeVars, settingVars, summaryVars, tabVars, typeVars>>
  \/ part = "popup" /\ Popup!Next /\ UNCHANGED <<part, vars, storeVars, chunkVars, summaryVars, tabVars, typeVars>>
  \/ part = "menu" /\ Menu!Next /\ UNCHANGED <<part, vars, storeVars, chunkVars, summaryVars, tabVars, typeVars>>
  \/ part = "guarded" /\ Guarded!Next /\ UNCHANGED <<part, vars, storeVars, chunkVars, summaryVars, tabVars, typeVars>>
  \/ part = "feeds" /\ Summaries!Next
     /\ UNCHANGED <<part, vars, storeVars, chunkVars, settingVars, tabVars, typeVars>>
  \/ part = "native" /\ Native!Next
     /\ UNCHANGED <<part, vars, storeVars, chunkVars, settingVars, summaryVars, typeVars>>
  \/ part = "types" /\ Types!Next
     /\ UNCHANGED <<part, vars, storeVars, chunkVars, settingVars, summaryVars, tabVars>>

MCSpec == MCInit /\ [][MCNext]_mcVars

\* Tabs of a kind are interchangeable, and conversations are.
Symmetry == Permutations(Files) \cup Permutations(Diffs) \cup Permutations(Sessions)

-----------------------------------------------------------------------------
\* The types of every part.  The panes form one tree in which every tab is
\* once, a pane's active tab is its own, and no pane is left empty.
ClientTypeOK ==
  /\ part \in {"tree", "drops"} => TypeOK /\ ProperTree /\ TabOnce /\ ActiveIsOwn
  /\ part = "tree" => EmptyPaneIsAlone
  /\ part \in {"evicts", "shown", "drafts", "ids"} => Ids!TypeOK
  /\ part = "chunk" => Chunk!TypeOK
  /\ part \in {"popup", "menu", "guarded"} => Popup!TypeOK
  /\ part = "feeds" => Summaries!TypeOK
  /\ part = "native" => Native!TypeOK
  /\ part = "types" => Types!TypeOK

\* No drag, open or focus loses a tab, and diffs stack in one pane.  In the host's
\* sidebar no open is left waiting for the session on screen, a tab shows the last
\* of its navigation and the plugin's writes, no id stays taken with nobody to
\* release it, and the body of a type that stays is never drawn anew.
KeepsTabs ==
  /\ DiffsStack
  /\ [][(part = "tree" => KeepsOrCloses) /\ (part = "types" => Types!StaysDrawn)]_mcVars
  /\ [](part = "native" => Native!RecordsFollow /\ Native!NothingWaitsOnScreen)
  /\ [](part = "types" => Types!NoneOrphaned /\ Types!InStep)

\* An evicted conversation comes back as it was left; a pending write holds
\* what is in memory, what is on screen is what the cache holds, and the ids
\* of a conversation's tree are distinct.  (A mark cleared off screen is not
\* written, diffs are not persisted, and a draft typed on screen is in the
\* cache only.)
StoreCoherent ==
  /\ part = "evicts" => Evicts!StoreCoherent
  /\ part = "shown" => Shown!StoreCoherent
  /\ part = "drafts" => Drafts!StoreCoherent
  /\ part = "ids" => Ids!StoreCoherent

\* A chunk opened after a revalidation began is not older than the script that
\* was compared, and all its openers between two revalidations share one instance.
ChunkIsFresh == Chunk!ChunkIsFresh

\* No switch is lost: when all is written and nothing was refused, every switch
\* is where the user put it last.
KeepsToggles == Popup!KeepsToggles

\* No subscription at a backend outlives the generation that made it, an entry
\* polls in one chain, and not at all after a denial; an owner is never replaced,
\* and a summary comes from the owner; and when no call is running, every
\* listener was told what its entry knows, and the entry watches what the
\* registry selects.
SummariesSettle ==
  /\ [](part = "feeds" =>
          /\ Summaries!NoLostSubscription /\ Summaries!OneChain /\ Summaries!DeniedIsSilent
          /\ Summaries!ToldTheLatest /\ Summaries!FollowsRegistry)
  /\ [][part = "feeds" => Summaries!KeepsOwner]_mcVars
=============================================================================
