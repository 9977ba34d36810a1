------------------------------ MODULE MCAgents ------------------------------
(***************************************************************************)
(* What the model's tools do in the sidebar, on small instances: the pages *)
(* it opens (AgentOpens) and the terminals it runs (AgentPty).  A          *)
(* behaviour is about the one chosen at its start:                         *)
(*   queue    more opens of one session than the queue holds               *)
(*   drains   two sessions, connections that break and come back           *)
(*   slow     the same with fewer breaks, and time between a socket's      *)
(*            closing and the close event                                  *)
(*   waits    one terminal with two overlapping waits                      *)
(*   shells   two terminals, or one and a wait, closed in every way        *)
(* Calls, sockets, terminals and waits are interchangeable: they are       *)
(* numbered, and used in that order.                                       *)
(***************************************************************************)
EXTENDS AgentOpens

CONSTANTS Terminals, Waits

VARIABLES
  part,
  allowed, making, sessions, process, killed, said, active, wait, queue, tabs, banners,
  attached, frames, closed

Queue == INSTANCE AgentOpens WITH
  Calls <- 1..3, QueueMax <- 2, MaxSwitches <- 1, MaxCuts <- 1, MaxToggles <- 1,
  Window <- FALSE

Slow == INSTANCE AgentOpens WITH
  Calls <- 1..2, QueueMax <- 2, MaxSwitches <- 2, MaxCuts <- 1, MaxToggles <- 0, Window <- TRUE

Pty == INSTANCE AgentPty WITH
  MaxPush <- 2, LateCreates <- TRUE, ClosesDetached <- FALSE, socket <- attached, gate <- allowed

Shells == INSTANCE AgentPty WITH
  MaxPush <- 1, LateCreates <- FALSE, ClosesDetached <- TRUE, socket <- attached, gate <- allowed

ASSUME Queue!ConstantsAssumption /\ Slow!ConstantsAssumption
ASSUME Pty!ConstantsAssumption /\ Shells!ConstantsAssumption

ptyVars ==
  <<allowed, making, sessions, process, killed, said, active, wait, queue, tabs, banners,
    attached, frames, closed>>
mcVars == <<part, vars, ptyVars>>

\* Calls begin, and sockets are opened, in the order of their numbers.
Begun == {k \in DOMAIN call : call[k].phase # "idle"}
Opened == {v \in DOMAIN browser : browser[v] # "unused"}
InTurn == Begun' = 1..Cardinality(Begun') /\ Opened' = 1..Cardinality(Opened')

\* So do terminals and waits.
Made == {t \in Terminals : t \in making \/ process[t] # "none"}
Asked == {w \in Waits : wait[w].outcome # "idle"}
PtyInTurn == Made' = 1..Cardinality(Made') /\ Asked' = 1..Cardinality(Asked')
One == Cardinality(Made') <= 1
Two == Cardinality(Made') + Cardinality(Asked') <= 2

MCInit ==
  /\ part \in {"queue", "drains", "slow", "waits", "shells"}
  /\ CASE part = "queue" -> Queue!Init /\ \A k, l \in 1..3 : call[k].session = call[l].session
       [] part = "slow" -> Slow!Init
       [] OTHER -> Init
  /\ Pty!Init
  /\ part \in {"waits", "shells"} => saved /\ \A k \in Calls : call[k].session = CHOOSE s \in Sessions : TRUE

MCNext ==
  \/ part = "queue" /\ Queue!Next /\ InTurn /\ UNCHANGED <<part, ptyVars>>
  \/ part = "drains" /\ Next /\ InTurn /\ UNCHANGED <<part, ptyVars>>
  \/ part = "slow" /\ Slow!Next /\ InTurn /\ UNCHANGED <<part, ptyVars>>
  \/ part = "waits" /\ Pty!Next /\ PtyInTurn /\ One /\ UNCHANGED <<part, vars>>
  \/ part = "shells" /\ Shells!Next /\ PtyInTurn /\ Two /\ UNCHANGED <<part, vars>>

\* Liveness is asked of "drains" and "waits".
MCSpec == MCInit /\ [][MCNext]_mcVars /\ Fairness /\ Pty!Fairness

-----------------------------------------------------------------------------
\* The types of the queue, the calls and both ends of the sockets, and of the
\* terminals, their waits and the banners.
AgentsTypeOK ==
  CASE part = "queue" -> Queue!TypeOK
    [] part = "drains" -> TypeOK
    [] part = "slow" -> Slow!TypeOK
    [] OTHER -> Pty!TypeOK

\* What was reported delivered was sent, where a closed socket is known at once,
\* and the queue of the session on screen empties.  (What arrives does so once
\* and in order, and what waits is the newest: AgentOpens!OpensArrive.)
OpensGetThrough ==
  /\ [](part = "queue" => Queue!DeliveredWasSent)
  /\ [](part = "drains" => DeliveredWasSent)
  /\ part = "drains" => QueueDrains

\* No shell is left running that nobody reaches: not by a close, not by the
\* gate if no create was under way, and in the end not behind a closed tab
\* (asked of one: terminals are alike, and waits are).
NoShellLeft ==
  /\ [](part \in {"waits", "shells"} => Pty!NoLostProcess)
  /\ [](part = "shells" => Shells!OffHasNone)
  /\ part = "waits" => Pty!ClosedReleases(CHOOSE t \in Terminals : TRUE)

\* Every wait is answered, a skip is what it answers, and once no push is under
\* way the banners show the waits that are really open.
WaitsAreAnswered ==
  /\ [](part \in {"waits", "shells"} => Pty!BannersConverge)
  /\ Pty!SkipSpeaks
  /\ part = "waits" => Pty!WaitsEnd(CHOOSE w \in Waits : TRUE)
=============================================================================
