---------------------------- MODULE ArchiveTasks ----------------------------
(***************************************************************************)
(* The host's table of archive builds (archive-route.ts).  A build is      *)
(* added once the archive tool is known, packs into a temp file in the     *)
(* background, and is polled and downloaded once by the tree that asked    *)
(* for it (FileTree.tsx).  Settled tasks are swept when the table is next  *)
(* looked at after their time, and teardown kills and deletes what it can  *)
(* see.  Removing a file takes time: doomed are the files under removal.   *)
(*                                                                         *)
(* Left out: the selection and its fences, names, bytes, the error texts.  *)
(***************************************************************************)
EXTENDS Naturals, FiniteSets

CONSTANTS
  Builds,
  MaxBuilding,   \* ARCHIVE_MAX_BUILDING
  FirstUse,      \* the tools have not been probed yet
  LateTeardown   \* teardown may come while a build has no child to be killed

ConstantsAssumption ==
  MaxBuilding \in Nat \ {0} /\ FirstUse \in BOOLEAN /\ LateTeardown \in BOOLEAN

VARIABLES
  tool,        \* availability: "unknown", "found" or "missing"
  phase,       \* build -> "idle", "probing", "opening", "packing" or "done"
  waited,      \* builds that asked before the tool was known
  tasks,       \* the table: build -> "none", "building", "ready" or "error"
  old,         \* builds whose expiresAt has passed
  temp,        \* temp files on disk
  doomed,      \* temp files with an rm under way
  child,       \* build -> "none", "running", "ok" or "failed"
  children,    \* the children teardown knows
  job,         \* build -> the tree's job: "none", "polling", "saving" or "over"
  get,         \* build -> its download: "none", "opening", "streaming", "served" or "refused"
  disposed

table == <<tasks, old, temp, doomed>>
client == <<job, get>>
vars == <<tool, phase, waited, table, child, children, client, disposed>>

Settled == {b \in Builds : tasks[b] \in {"ready", "error"}}
Building == {b \in Builds : tasks[b] = "building"}

TypeOK ==
  /\ tool \in {"unknown", "found", "missing"}
  /\ phase \in [Builds -> {"idle", "probing", "opening", "packing", "done"}]
  /\ tasks \in [Builds -> {"none", "building", "ready", "error"}]
  /\ waited \subseteq Builds /\ old \subseteq Builds /\ doomed \subseteq temp /\ temp \subseteq Builds
  /\ child \in [Builds -> {"none", "running", "ok", "failed"}]
  /\ children \subseteq Builds /\ disposed \in BOOLEAN
  /\ job \in [Builds -> {"none", "polling", "saving", "over"}]
  /\ get \in [Builds -> {"none", "opening", "streaming", "served", "refused"}]

Init ==
  /\ tool = IF FirstUse THEN "unknown" ELSE "found"
  /\ phase = [b \in Builds |-> "idle"] /\ tasks = [b \in Builds |-> "none"]
  /\ waited = {} /\ old = {} /\ temp = {} /\ doomed = {} /\ children = {}
  /\ child = [b \in Builds |-> "none"]
  /\ job = [b \in Builds |-> "none"] /\ get = [b \in Builds |-> "none"]
  /\ disposed = FALSE

-----------------------------------------------------------------------------
\* Whose file goes with its task.
\* Mutant: a task leaves the table and its file stays.
FilesOf_Stay(gone) == {}
FilesOf(gone) == {b \in gone : tasks[b] = "ready"}

\* The table without the tasks in gone.
Without(gone) == [b \in Builds |-> IF b \in gone THEN "none" ELSE tasks[b]]
Removed(gone) ==
  /\ tasks' = Without(gone) /\ doomed' = doomed \cup FilesOf(gone) /\ UNCHANGED <<old, temp>>

\* sweep(): what every look at the table drops first.
Swept == old \cap Settled

\* Mutant: one build more than the cap.
LimitReached_Over == Cardinality(Building) > MaxBuilding
LimitReached == Cardinality(Building) >= MaxBuilding

\* start() of the builds bs, once the tool is known, and its refusal.
Added(bs) ==
  /\ phase' = [b \in Builds |-> IF b \in bs THEN "opening" ELSE phase[b]]
  /\ job' = [b \in Builds |-> IF b \in bs THEN "polling" ELSE job[b]]

Refuses(bs) ==
  /\ phase' = [b \in Builds |-> IF b \in bs THEN "done" ELSE phase[b]]
  /\ job' = [b \in Builds |-> IF b \in bs THEN "over" ELSE job[b]]

Start(b) ==
  /\ phase[b] = "idle" /\ ~disposed
  /\ doomed' = doomed \cup FilesOf(Swept)
  /\ \/ (LimitReached \/ tool = "missing") /\ Refuses({b}) /\ tasks' = Without(Swept)
        /\ UNCHANGED waited
     \/ ~LimitReached /\ tool = "unknown" /\ tasks' = Without(Swept)
        /\ phase' = [phase EXCEPT ![b] = "probing"] /\ waited' = waited \cup {b}
        /\ UNCHANGED job
     \/ ~LimitReached /\ tool = "found" /\ Added({b})
        /\ tasks' = [Without(Swept) EXCEPT ![b] = "building"] /\ UNCHANGED waited
  /\ UNCHANGED <<tool, old, temp, child, children, get, disposed>>

\* The probe answers, and whoever waited for it goes on without another look at
\* the number of builds.
Probed(found) ==
  LET bs == {b \in Builds : phase[b] = "probing"} IN
  /\ tool = "unknown" /\ bs # {}
  /\ tool' = IF found THEN "found" ELSE "missing"
  /\ IF found
     THEN Added(bs) /\ tasks' = [b \in Builds |-> IF b \in bs THEN "building" ELSE tasks[b]]
     ELSE Refuses(bs) /\ UNCHANGED tasks
  /\ UNCHANGED <<waited, old, temp, doomed, child, children, get, disposed>>

-----------------------------------------------------------------------------
\* pack(): settle, which also reaches a task that left the table meanwhile.
Settle(b, state) == tasks' = [tasks EXCEPT ![b] = IF @ = "none" THEN "none" ELSE state]

\* The temp file is opened and the tool started on it.
Spawn(b) ==
  /\ phase[b] = "opening"
  /\ phase' = [phase EXCEPT ![b] = "packing"]
  /\ temp' = temp \cup {b}
  /\ child' = [child EXCEPT ![b] = "running"] /\ children' = children \cup {b}
  /\ UNCHANGED <<tool, waited, tasks, old, doomed, client, disposed>>

\* The disk refuses the file, or the tool does not start (opened: the file is
\* there by then).
\* Mutant: the error is not caught.
Caught_Never(b) == UNCHANGED tasks
Caught(b) == Settle(b, "error")
StartFails(b, opened) ==
  /\ phase[b] = "opening" /\ Caught(b)
  /\ phase' = [phase EXCEPT ![b] = "done"]
  /\ temp' = IF opened THEN temp \cup {b} ELSE temp
  /\ doomed' = IF opened THEN doomed \cup {b} ELSE doomed
  /\ UNCHANGED <<tool, waited, old, child, children, client, disposed>>

\* External: the tool ends.
ToolEnds(b, how) ==
  /\ child[b] = "running" /\ child' = [child EXCEPT ![b] = how]
  /\ UNCHANGED <<tool, phase, waited, table, children, client, disposed>>

\* What the tool left behind after it failed.
\* Mutant: half an archive stays.
Discarded_Keep(b) == {}
Discarded(b) == {b}

Finish(b) ==
  /\ phase[b] = "packing" /\ child[b] \in {"ok", "failed"}
  /\ phase' = [phase EXCEPT ![b] = "done"] /\ children' = children \ {b}
  /\ IF child[b] = "ok"
     THEN Settle(b, "ready") /\ UNCHANGED doomed
     ELSE Settle(b, "error") /\ doomed' = doomed \cup Discarded(b)
  /\ UNCHANGED <<tool, waited, old, temp, child, client, disposed>>

Expire(b) ==
  /\ b \in Settled \ old /\ old' = old \cup {b}
  /\ UNCHANGED <<tool, phase, waited, tasks, temp, doomed, child, children, client, disposed>>

Unlink(b) ==
  /\ b \in doomed /\ doomed' = doomed \ {b} /\ temp' = temp \ {b}
  /\ UNCHANGED <<tool, phase, waited, tasks, old, child, children, client, disposed>>

-----------------------------------------------------------------------------
\* The tree polls archive.status; what is ready is handed over once.
Poll(b) ==
  /\ job[b] = "polling" /\ tasks[b] # "building" /\ ~disposed
  /\ Removed(Swept)
  /\ job' = [job EXCEPT ![b] = IF tasks'[b] = "ready" THEN "saving" ELSE "over"]
  /\ UNCHANGED <<tool, phase, waited, child, children, get, disposed>>

\* The tree moves to another session or folder, or a poll fails.
Abandon(b) ==
  /\ job[b] = "polling" /\ job' = [job EXCEPT ![b] = "over"]
  /\ UNCHANGED <<tool, phase, waited, table, child, children, get, disposed>>

\* The download asks for its task, which it leaves in the table.
\* Mutant: it takes the task.
Looked_Takes(b) == Removed(Swept \cup {b})
Looked(b) == Removed(Swept)
Get(b) ==
  /\ job[b] = "saving" /\ job' = [job EXCEPT ![b] = "over"]
  /\ IF disposed THEN UNCHANGED table ELSE Looked(b)
  /\ get' = [get EXCEPT ![b] =
              IF ~disposed /\ b \notin Swept /\ tasks[b] = "ready" THEN "opening" ELSE "refused"]
  /\ UNCHANGED <<tool, phase, waited, child, children, disposed>>

\* The file is opened for streaming, or is no longer there and the task is released.
OpenStream(b) ==
  /\ get[b] = "opening"
  /\ IF b \in temp
     THEN get' = [get EXCEPT ![b] = "streaming"] /\ UNCHANGED table
     ELSE get' = [get EXCEPT ![b] = "refused"] /\ Removed({b})
  /\ UNCHANGED <<tool, phase, waited, child, children, job, disposed>>

\* The stream settles, whole or cut, and consumes the task.
Served(b) ==
  /\ get[b] = "streaming" /\ get' = [get EXCEPT ![b] = "served"]
  /\ Removed({b})
  /\ UNCHANGED <<tool, phase, waited, child, children, job, disposed>>

\* dispose(): running children are killed, and the files of finished tasks
\* removed.  A build that awaits the probe, the temp file or its stat goes on.
\* Mutant: builds are left to end by themselves.
Killed_None == {}
Killed == {b \in children : child[b] = "running"}
Dispose ==
  /\ disposed = FALSE /\ disposed' = TRUE
  /\ LateTeardown \/ \A b \in Builds :
       phase[b] \in {"idle", "done"} \/ (phase[b] = "packing" /\ child[b] # "ok")
  /\ child' = [b \in Builds |-> IF b \in Killed THEN "failed" ELSE child[b]]
  /\ children' = {} /\ Removed(Builds)
  /\ UNCHANGED <<tool, phase, waited, client>>

Next ==
  \/ \E found \in BOOLEAN : Probed(found)
  \/ Dispose
  \/ \E b \in Builds :
       \/ Start(b) \/ Spawn(b) \/ Finish(b) \/ Expire(b) \/ Unlink(b)
       \/ Poll(b) \/ Abandon(b) \/ Get(b) \/ OpenStream(b) \/ Served(b)
       \/ \E opened \in BOOLEAN : StartFails(b, opened)
       \/ \E how \in {"ok", "failed"} : ToolEnds(b, how)

\* The event loop goes on, and a tool that packs a selection ends.
Fairness ==
  /\ WF_vars(\E found \in BOOLEAN : Probed(found))
  /\ \A b \in Builds :
       /\ WF_vars(Spawn(b) \/ StartFails(b, TRUE)) /\ WF_vars(Finish(b)) /\ WF_vars(Unlink(b))
       /\ WF_vars(\E how \in {"ok", "failed"} : ToolEnds(b, how))

Spec == Init /\ [][Next]_vars /\ Fairness

-----------------------------------------------------------------------------
\* archive-route.ts:32, "a temp archive is removed on every exit path": a temp
\* file is offered by its task, being written, or on its way out; and a tool
\* that runs is one teardown would kill.  (With LateTeardown neither holds.)
NothingLeft ==
  /\ \A b \in temp : b \in doomed \/ tasks[b] = "ready" \/ phase[b] = "packing"
  /\ \A b \in Builds : child[b] = "running" => b \in children /\ tasks[b] = "building"

\* What a task offers is there, and a download is refused only for a task that
\* was swept or a table that was torn down.
DownloadsWork ==
  /\ \A b \in Builds : tasks[b] = "ready" => b \in temp \ doomed
  /\ \A b \in Builds : get[b] = "refused" => b \in old \/ disposed

\* The cap on builds at a time (archive-route.ts:52) is exceeded only by builds
\* that all passed it before the tool was known.
CapRespected == Cardinality(Building) > MaxBuilding => Building \subseteq waited

\* Tools and temp files have a task that accounts for them, what is offered is
\* there, and there are as many builds as may be.
NothingRunsUnowned == NothingLeft /\ DownloadsWork /\ CapRespected

\* archive-route.ts:361, "the task must not stay building forever".
Settles(b) == tasks[b] = "building" ~> tasks[b] # "building"
=============================================================================
