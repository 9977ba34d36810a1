---------------------------- MODULE MCTerminals ----------------------------
(***************************************************************************)
(* What must happen in the end to terminals, to who watches them, and to   *)
(* other processes of the host, on small instances.  The parts share no    *)
(* state: a behaviour is about the one chosen at its start, and in the     *)
(* others nothing begins.                                                  *)
(*   pty        a conversation's own shells, sockets in order (the cfg's   *)
(*              instance of PtyTerminals)                                  *)
(*   workspace  two calls for one workspace terminal (WorkspaceTerminals)  *)
(*   catalog    the catalog pushed over a socket (TerminalSnapshots)       *)
(*   archives   two builds where one may run, from the first on, and their *)
(*              downloads (ArchiveTasks)                                   *)
(***************************************************************************)
EXTENDS PtyTerminals

CONSTANTS
  Terms, Calls, NoSession, NoCall, Timer,
  Sockets,
  Builds

VARIABLES
  part,
  terminals, process, handle, call, locks, sweeping, disposed, wanted,
  catalog, revision, timer, listeners, host, feed, browserEnd, watch, shown, faults,
  tool, phase, waited, tasks, old, temp, doomed, child, children, job, get, unloaded

Manager == INSTANCE WorkspaceTerminals WITH
  Workspaces <- {1}, Sessions <- {1}, WorkspaceOf <- [s \in {1} |-> 1],
  MaxPerWorkspace <- 1, MaxGlobal <- 1, RetainedFactor <- 2, MaxViews <- 0,
  DetachGrace <- 1, ExitRetention <- 1, IdleRetention <- 1, Integrations <- {FALSE}

Catalog == INSTANCE TerminalSnapshots WITH
  Conns <- Sockets, MaxChanges <- 1, MaxFaults <- 2, wire <- feed, browser <- browserEnd

Archives == INSTANCE ArchiveTasks WITH
  MaxBuilding <- 1, FirstUse <- TRUE, LateTeardown <- FALSE, disposed <- unloaded

ASSUME Manager!ConstantsAssumption /\ Catalog!ConstantsAssumption
ASSUME Archives!ConstantsAssumption

managerVars == <<terminals, process, handle, call, locks, sweeping, disposed, wanted>>
catalogVars == <<catalog, revision, timer, listeners, host, feed, browserEnd, watch, shown, faults>>
archiveVars ==
  <<tool, phase, waited, tasks, old, temp, doomed, child, children, job, get, unloaded>>
mcVars == <<part, vars, managerVars, catalogVars, archiveVars>>

\* A watch that was disposed of from the start opens no socket.
MCInit ==
  /\ part \in {"pty", "workspace", "catalog", "archives"}
  /\ Init /\ Manager!Init /\ Archives!Init
  /\ part # "pty" => active = CHOOSE s \in Sessions : TRUE
  /\ Catalog!Begins(part # "catalog")

MCNext ==
  \/ part = "pty" /\ Next /\ UNCHANGED <<part, managerVars, catalogVars, archiveVars>>
  \/ part = "workspace" /\ Manager!Next /\ UNCHANGED <<part, vars, catalogVars, archiveVars>>
  \/ part = "catalog" /\ Catalog!Next /\ UNCHANGED <<part, vars, managerVars, archiveVars>>
  \/ part = "archives" /\ Archives!Next /\ UNCHANGED <<part, vars, managerVars, catalogVars>>

MCSpec ==
  /\ MCInit /\ [][MCNext]_mcVars
  /\ Fairness /\ Manager!Fairness /\ Catalog!Fairness /\ Archives!Fairness

-----------------------------------------------------------------------------
\* Nothing runs that nobody owns: no subscription at the host outlives its
\* socket, no retry its watch, no archive tool and no temp file the task that
\* accounts for it; and the file of a finished archive is there to be fetched.
NothingRunsUnowned ==
  /\ part = "catalog" => Catalog!TypeOK /\ Catalog!NothingRunsUnowned
  /\ part = "archives" => Archives!TypeOK /\ Archives!NothingRunsUnowned

\* Every call for a workspace terminal is answered, a closed tab gives its place
\* in the quota back, and an archive build settles: asked of one call, one tab and
\* one build, as calls, conversations and builds are interchangeable.
NothingWaitsForever ==
  /\ part = "workspace" => Manager!Answered(CHOOSE c \in Calls : TRUE)
  /\ part = "pty" => Released(CHOOSE k \in Keys : TRUE)
  /\ part = "archives" => Archives!Settles(CHOOSE b \in Builds : TRUE)

\* Frames on one socket tell catalogs apart by their revision; once changes and
\* faults end, a watcher that was not refused shows the host's catalog, and one
\* that was disposed of has no socket open.
CatalogConverges ==
  /\ [](part = "catalog" => Catalog!RevisionsDistinguish)
  /\ part = "catalog" => Catalog!Converges /\ Catalog!DisposedHangsUp
=============================================================================
