---------------------------- MODULE MCFileTree ----------------------------
(***************************************************************************)
(* What keeps the file tree current, on small instances: the watch socket  *)
(* (FsWatch), the host's cache of listed levels (DirectoryCache), the      *)
(* client's levels (TreeLevels), the file operations (WorkspaceFiles),     *)
(* their history (TreeHistory), the root of it all (ActiveWorktree), and    *)
(* the git marks on its rows (GitStatusStore), with the Git lens (GitLens). *)
(* They share no state, so a behaviour is about one of them, chosen at the *)
(* start; the others keep their initial state.                             *)
(*   watch    the socket, lookups in order          racing  out of order   *)
(*   busy     directories written while read        quiet   between reads  *)
(*   levels   the levels a tree shows                                      *)
(*   alone    no operation between another's check and its effect          *)
(*   mixed    overlapping operations, and listings                         *)
(*   history  operations, their undo and redo, and a file's tab            *)
(*   roots    the worktree a session works in                              *)
(*   marks    the page's git status                                        *)
(*   lens     its checkouts, branches and mutations                        *)
(***************************************************************************)
EXTENDS WorkspaceFiles

CONSTANTS Dirs, Conns, NoConn, Variants, Readers, Tabs

VARIABLES
  part,
  wanted, visible, socket, retrying, watching, conn, up, down, lookups, watchers, timers, owed,
  budget,                                                            \* FsWatch's
  disk, unflushed, stored, order, reader, served, floor, trail,      \* DirectoryCache's
  files,                                                             \* WorkspaceFiles', overlapping
  entries, undo, redo, request, tab, failures, removals,             \* TreeHistory's
  folder, exclude, expanded, data, pending, generation, requests, noticed, asked, events,
  log, kept, flights, caller,                                        \* ActiveWorktree's
  rev, acted, registry, slot, answer, mode, carried, held, screen, dirty, batch, failed, \* GitStatusStore's
  scope, repo, chosen, auto, listing, names, confirm, lock, running, gates, gate, loop, active,
  moves, waiting                                                     \* GitLens's

\* Lookups end in order, and a change is seen while the socket holds; and lookups
\* overtake each other and the close, with room for one handle and a failure.
Watched == INSTANCE FsWatch WITH
  MaxMoves <- 3, MaxCuts <- 1, MaxWatches <- 2, MaxFailures <- 0, Races <- FALSE
Racing == INSTANCE FsWatch WITH
  MaxMoves <- 2, MaxCuts <- 0, MaxWatches <- 1, MaxFailures <- 1, Races <- TRUE

\* Directories are written while they are read, through a cache of one entry.
Busy == INSTANCE DirectoryCache WITH
  MaxEntries <- 1, TTL <- 1, MaxWrites <- 1, Overlap <- TRUE,
  Dirs <- {CHOOSE d \in Dirs : TRUE}, cache <- stored

\* No directory is written while it is read.
Quiet == INSTANCE DirectoryCache WITH
  MaxEntries <- 2, TTL <- 2, MaxWrites <- 1, Overlap <- FALSE,
  Dirs <- {CHOOSE d \in Dirs : TRUE}, cache <- stored

Shown == INSTANCE TreeLevels WITH
  Top <- CHOOSE d \in Dirs : TRUE, InOrder <- TRUE, MaxEvents <- 3, MaxFailures <- 1,
  disk <- folder

\* The cfg's own operations run one after the other, with all they can meet and
\* nothing listed; these overlap, and a directory is listed.
Mixed == INSTANCE WorkspaceFiles WITH
  Overlap <- TRUE, Careless <- FALSE, Browsed <- {<<CHOOSE n \in Names : TRUE>>},
  Callers <- Readers, tree <- files

History == INSTANCE TreeHistory WITH
  Limit <- 2, Slots <- {1}, LostAnswers <- FALSE, TabsOnCopies <- FALSE,
  MaxOps <- 3, MaxFailures <- 1

\* One directory is the checkout, the others are worktrees linked to it.
Roots == INSTANCE ActiveWorktree WITH
  Home <- CHOOSE d \in Dirs : TRUE, Linked <- Dirs \ {CHOOSE d \in Dirs : TRUE},
  Callers <- Readers, TTL <- 2, Slow <- 1, MaxEvents <- 2, None <- Nothing, cache <- kept

\* One reader polls and one does not; the page renders before it goes on.
Marks == INSTANCE GitStatusStore WITH
  Consumers <- Readers, Polls <- {CHOOSE r \in Readers : TRUE}, Slots <- {1, 2}, Slowest <- 1,
  LateEffects <- FALSE, MaxRev <- 1, MaxFailures <- 1, Unseen <- Nothing, Failed <- Dir

\* The folder's repository and one more, each with a linked checkout.
Lens == INSTANCE GitLens WITH
  Scopes <- Dirs, Repos <- {Nothing, Dir}, Main <- CHOOSE n \in Names : TRUE,
  Linked <- Names \ {CHOOSE n \in Names : TRUE}, None <- Nothing, Returns <- FALSE,
  Actions <- {1, 2}, MaxMoves <- 3

ASSUME ConstantsAssumption /\ Watched!ConstantsAssumption
ASSUME Racing!ConstantsAssumption /\ Busy!ConstantsAssumption /\ Quiet!ConstantsAssumption
ASSUME Shown!ConstantsAssumption /\ Mixed!ConstantsAssumption
ASSUME History!ConstantsAssumption /\ Roots!ConstantsAssumption /\ Marks!ConstantsAssumption
ASSUME Lens!ConstantsAssumption

watchVars ==
  <<wanted, visible, socket, retrying, watching, conn, up, down, lookups, watchers, timers, owed,
    budget>>
cacheVars == <<disk, unflushed, stored, order, reader, served, floor, trail>>
fileVars == <<tree, cache, call>>
historyVars == <<entries, undo, redo, request, tab, removals>>
levelVars == <<folder, exclude, expanded, data, pending, generation, requests, noticed, asked, events>>
rootVars == <<log, kept, flights, caller>>
markVars == <<rev, acted, registry, slot, answer, mode, carried, held, screen, dirty, batch, failed>>
lensVars ==
  <<scope, repo, chosen, auto, listing, names, confirm, lock, running, gates, gate, loop, active,
    moves, waiting>>
mcVars ==
  <<part, watchVars, cacheVars, fileVars, files, historyVars, levelVars, rootVars, markVars, lensVars,
    ops, failures>>

MCInit ==
  /\ part \in {"watch", "racing", "busy", "quiet", "levels", "alone", "mixed", "history", "roots", "marks", "lens"}
  /\ IF part = "racing" THEN Racing!Init ELSE Watched!Init
  /\ IF part = "quiet" THEN Quiet!Init ELSE Busy!Init
  /\ tree = [p \in Paths |-> Nothing]
  /\ IF part = "alone" THEN Init /\ files = tree ELSE Mixed!Init
  /\ Shown!Init /\ History!Init /\ Roots!Init /\ Marks!Init /\ Lens!Init
  /\ part \notin {"watch", "racing"} => wanted = {}
  /\ part # "history" => entries[<<CHOOSE n \in Names : TRUE>>] = Dir

MCNext ==
  \/ part = "watch" /\ Watched!Next
     /\ UNCHANGED <<part, cacheVars, levelVars, fileVars, files, historyVars, rootVars, markVars,
                    lensVars, ops, failures>>
  \/ part = "racing" /\ Racing!Next
     /\ UNCHANGED <<part, cacheVars, levelVars, fileVars, files, historyVars, rootVars, markVars,
                    lensVars, ops, failures>>
  \/ part = "busy" /\ Busy!Next
     /\ UNCHANGED <<part, watchVars, levelVars, fileVars, files, historyVars, rootVars, markVars,
                    lensVars, ops, failures>>
  \/ part = "quiet" /\ Quiet!Next
     /\ UNCHANGED <<part, watchVars, levelVars, fileVars, files, historyVars, rootVars, markVars,
                    lensVars, ops, failures>>
  \/ part = "levels" /\ Shown!Next
     /\ UNCHANGED <<part, watchVars, cacheVars, fileVars, files, historyVars, rootVars, markVars,
                    lensVars, ops>>
  \/ part = "alone" /\ Next
     /\ UNCHANGED <<part, watchVars, cacheVars, levelVars, files, historyVars, rootVars, markVars,
                    lensVars, failures>>
  \/ part = "mixed" /\ Mixed!Next
     /\ UNCHANGED <<part, watchVars, cacheVars, levelVars, tree, historyVars, rootVars, markVars,
                    lensVars, failures>>
  \/ part = "history" /\ History!Next
     /\ UNCHANGED <<part, watchVars, cacheVars, levelVars, fileVars, files, rootVars, markVars,
                    lensVars>>
  \/ part = "roots" /\ Roots!Next
     /\ UNCHANGED <<part, watchVars, cacheVars, levelVars, fileVars, files, historyVars, markVars,
                    lensVars, ops, failures>>
  \/ part = "marks" /\ Marks!Next
     /\ UNCHANGED <<part, watchVars, cacheVars, levelVars, fileVars, files, historyVars, rootVars,
                    lensVars, ops, failures>>
  \/ part = "lens" /\ Lens!Next
     /\ UNCHANGED <<part, watchVars, cacheVars, levelVars, fileVars, files, historyVars, rootVars,
                    markVars, ops, failures>>

\* Liveness is asked of "watch" only.
MCSpec == MCInit /\ [][MCNext]_mcVars /\ Watched!Fairness

-----------------------------------------------------------------------------
\* The types of every part.  Handles and cached levels stay under their caps,
\* whatever overtakes what; where every lookup ends before the close is seen,
\* no handle outlives its socket.  And git status is polled once, for who asks.
TreeTypeOK ==
  CASE part = "watch" -> Watched!TypeOK /\ Watched!CapRespected /\ Watched!HandlesReleased
    [] part = "racing" -> Racing!TypeOK /\ Racing!CapRespected
    [] part = "busy" -> Busy!TypeOK /\ Busy!CacheBounded
    [] part = "quiet" -> Quiet!TypeOK /\ Quiet!CacheBounded
    [] part = "levels" -> Shown!TypeOK
    [] part = "alone" -> TypeOK
    [] part = "mixed" -> Mixed!TypeOK
    [] part = "history" -> History!TypeOK
    [] part = "roots" -> Roots!TypeOK
    [] part = "marks" -> Marks!TypeOK /\ Marks!OneSlot /\ Marks!TimerFollows
    [] part = "lens" -> Lens!TypeOK

\* In the end every folder on screen is watched, a tree that was parked or
\* unmounted leaves no socket open, and what a handle saw, or happened while
\* parked, is listed if the connection holds.  Who comes to a scope that nobody
\* held has its git status read again; and the Git lens stays where its user is
\* working.
TreeFollows ==
  /\ part = "watch" =>
       /\ Watched!EventuallyWatched
       /\ Watched!HangsUp(CHOOSE c \in Conns : TRUE)
       /\ Watched!NoticeListed(CHOOSE d \in Dirs : TRUE)
  /\ [][part = "marks" => Marks!ReadAgain]_mcVars
  /\ [][part = "lens" => Lens!NeverYanked]_mcVars

\* A listing is never older than the TTL, however slow the read that filled it;
\* and where no directory is written while it is read, no variant of a level
\* is served past the write that changed it, whichever operation that was.
\* Nor is the tree rooted at a worktree the session left, or one it was seen
\* in longer ago than the root's TTL and one resolution; and its git marks are
\* those that followed the user's last action.  The Git lens shows the checkouts
\* and branches of the place it is at, and every refresh the user waits for begins.
ServedFresh ==
  /\ part = "busy" => Busy!ServedFresh
  /\ part = "quiet" => Quiet!ServedFresh
  /\ part = "mixed" => Mixed!ListedIsCurrent
  /\ part = "roots" => Roots!Boundary /\ Roots!Followed
  /\ part = "marks" => Marks!SeesActions /\ Marks!ScreensCurrent /\ Marks!ForgetsUnheld
  /\ part = "lens" => Lens!AnswersFit /\ Lens!NoneDropped

\* No row of the tree is left on "Loading...", and when all is answered the tree
\* shows what is on disk.
RowsSettle == Shown!RowsSettle

\* What can be undone or redone can be, and gives the tree it came from; and the
\* editor's tabs follow their files through all of it.  What the Git lens asks
\* about and confirms hits the checkout of its row, one mutation at a time.
HistoryHolds ==
  /\ part = "history" => History!HistoryHolds /\ History!TabsFollow
  /\ part = "lens" => Lens!DialogFits /\ Lens!HitsItsRow /\ Lens!OneMutation
=============================================================================
