----------------------------- MODULE MCSidechat -----------------------------
(***************************************************************************)
(* Small instances of the side chat: its feed (SidechatFeed), its threads   *)
(* (SidechatThread) and what they inherit (SidechatSeed).  A behaviour is   *)
(* about the one chosen at its start:                                       *)
(*   catches  the feed of one thread, under fairness                        *)
(*   pulls    the feed of a tab moved between two threads                   *)
(*   safe     a thread whose calls and closes overlap                       *)
(*   picks    the same, and single pending rows are dequeued                *)
(*   apart    a thread whose closes overlap no call                         *)
(*   seed     what a thread inherits of turns, steps and calls              *)
(*   frames   what it inherits of text that is being streamed               *)
(* Threads and calls are interchangeable: they are numbered, and used in    *)
(* that order.                                                              *)
(***************************************************************************)
EXTENDS SidechatFeed

CONSTANTS Calls, Models, DefaultModel

VARIABLES
  part,
  made, live, lives, dying, threadLog, picked, step, turn, parked, ref, disposer, call,
  closed, clears, \* those of SidechatThread, its log renamed
  parentLog, executing, stream, buffer, tries, lost  \* those of SidechatSeed

threadVars == <<made, live, lives, dying, threadLog, picked, step, turn, parked, ref, disposer,
                call, closed, clears>>
seedVars == <<parentLog, executing, stream, buffer, tries, lost>>
mcVars == <<part, vars, threadVars, seedVars>>

Safe == INSTANCE SidechatThread WITH
  log <- threadLog, MaxLives <- 3, MaxClears <- 1, Overlaps <- TRUE, PicksOut <- FALSE
Picks == INSTANCE SidechatThread WITH
  log <- threadLog, MaxLives <- 3, MaxClears <- 2, Overlaps <- TRUE, PicksOut <- TRUE
Apart == INSTANCE SidechatThread WITH
  log <- threadLog, MaxLives <- 3, MaxClears <- 1, Overlaps <- FALSE, PicksOut <- FALSE

\* Turns and calls, no frame lost; and one turn, with frames lost.
Inherits == INSTANCE SidechatSeed WITH
  log <- parentLog, running <- executing, Window <- 2, MaxTurns <- 2, MaxSteps <- 2,
  MaxAttempts <- 1, MaxChunks <- 1, MaxCalls <- 2, MaxMoves <- 1, MaxLost <- 0
Frames == INSTANCE SidechatSeed WITH
  log <- parentLog, running <- executing, Window <- 2, MaxTurns <- 1, MaxSteps <- 1,
  MaxAttempts <- 2, MaxChunks <- 4, MaxCalls <- 1, MaxMoves <- 0, MaxLost <- 1

ASSUME Inherits!ConstantsAssumption /\ Frames!ConstantsAssumption
ASSUME Picks!DefaultAssumption /\ Picks!BoundsAssumption

FeedParts == {"catches", "pulls"}

MCInit ==
  /\ part \in FeedParts \cup {"safe", "picks", "apart", "seed", "frames"}
  /\ Init /\ Picks!Init /\ Inherits!Init
  /\ part \notin {"safe", "picks", "apart"} => ~made /\ picked = DefaultModel

\* The first thread bound or run is the first.
FirstIsOne == moves' = 1 => bound' # 2 /\ ~runs'[2]
OneThread == bound' # 2 /\ ~runs'[2]

CallsInTurn ==
  LET made_ == {c \in Calls : call'[c].at # "new"} IN made_ = 1..Cardinality(made_)

MCNext ==
  \/ /\ part = "catches" /\ Next /\ OneThread /\ log'[1] <= 2
     /\ UNCHANGED <<part, threadVars, seedVars>>
  \/ /\ part = "pulls" /\ Next /\ FirstIsOne /\ moves' + cuts' <= 3
     /\ UNCHANGED <<part, threadVars, seedVars>>
  \/ part = "safe" /\ Safe!Next /\ CallsInTurn /\ UNCHANGED <<part, vars, seedVars>>
  \/ part = "picks" /\ Picks!Next /\ CallsInTurn /\ UNCHANGED <<part, vars, seedVars>>
  \/ part = "apart" /\ Apart!Next /\ CallsInTurn /\ UNCHANGED <<part, vars, seedVars>>
  \/ part = "seed" /\ Inherits!Next /\ UNCHANGED <<part, vars, threadVars>>
  \/ part = "frames" /\ Frames!Next /\ UNCHANGED <<part, vars, threadVars>>

\* Liveness is asked of "catches" only.
MCSpec == MCInit /\ [][MCNext]_mcVars /\ (part = "catches" => Fairness)

-----------------------------------------------------------------------------
\* The types of the feed, of a thread and of its parent.
SidechatTypeOK ==
  /\ TypeOK /\ Picks!TypeOK
  /\ part # "frames" => Inherits!TypeOK
  /\ part = "frames" => Frames!TypeOK

\* A visible tab shows its thread's window in the end, and what is logged of a
\* watched thread makes it pull.
ShowsAllInTheEnd == part = "catches" => CatchesUp /\ NoticedWhileWatched

\* What a thread has of its parent it has once.  The boundary is sent once, whatever
\* is dequeued; unless its own pending row is, it opens the log, and the snapshot
\* parked at the creation goes with it.  What sat unclaimed in the parent is never
\* sent, and the user's own queued input survives a resume.  And the seed is one
\* the host takes, told all the log tells once, in its directory, and never from a
\* stream with a hole.
TakenOverOnce ==
  /\ [](Picks!BoundaryOnce /\ Picks!NoGhostDelivered)
  /\ [](part = "safe" => Safe!BoundaryFirst /\ Safe!SnapshotGoesWithBoundary)
  /\ [][part = "safe" => Safe!KeepsOwnInput]_mcVars
  /\ [](part = "seed" => Inherits!SeedIsClosed /\ Inherits!ToldOnce /\ Inherits!SameFolder)
  /\ [](part = "frames" => Frames!ToldOnce /\ Frames!LiveIsWhole)

\* While no close overlaps a call, a closed tab leaves no agent, and a live agent
\* uses the recorded model.
ThreadsHold == part = "apart" => Apart!ThreadsHold
=============================================================================
