------------------------ MODULE WorkspaceTerminals ------------------------
(***************************************************************************)
(* The terminals a workspace's conversations share: WorkspaceTerminalManager*)
(* and its routes (src/workspace-terminal.ts) with the 60 s sweep timer     *)
(* of src/index.ts.                                                        *)
(*                                                                         *)
(* Every route first awaits resolveTerminalWorkspace, then calls the        *)
(* manager; "create", "list" and "cleanup" sweep idle terminals on the way, *)
(* "ensure" runs under a per-workspace lock.  A sweep awaits `ps` twice per *)
(* candidate, and anything may happen to the terminal meanwhile.           *)
(*                                                                         *)
(* Time is kept as ages; one that outgrows the delay it is compared with   *)
(* makes no further difference and saturates (idle) or is forgotten.       *)
(* Publishing the catalog to its watchers is module TerminalSnapshots.     *)
(***************************************************************************)
EXTENDS Integers, FiniteSets, Sequences

CONSTANTS
  Workspaces, Sessions, WorkspaceOf,  \* conversations, each in a workspace
  Terms,                \* terminals that can ever be created
  Calls,                \* route calls under way at once
  MaxPerWorkspace, MaxGlobal,         \* live limits
  RetainedFactor,       \* 4: retained records per live terminal allowed
  MaxViews,             \* sockets attached to one terminal (a bound)
  DetachGrace, ExitRetention, IdleRetention,
  Integrations,         \* shell integration settings create() may meet
  NoSession, NoCall, Timer

ASSUME ConstantsAssumption ==
  /\ IsFiniteSet(Workspaces) /\ IsFiniteSet(Terms)
  /\ WorkspaceOf \in [Sessions -> Workspaces]
  /\ MaxPerWorkspace \in Nat \ {0} /\ MaxGlobal \in Nat \ {0}
  /\ RetainedFactor \in Nat \ {0} /\ MaxViews \in Nat
  /\ DetachGrace \in Nat \ {0} /\ ExitRetention \in Nat \ {0}
  /\ IdleRetention \in Nat \ {0}
  /\ Integrations \subseteq BOOLEAN /\ Integrations # {}
  /\ NoSession \notin Sessions
  /\ NoCall \notin Calls /\ Timer \notin Calls /\ NoCall # Timer

VARIABLES
  terminals,  \* the ids in WorkspaceTerminalManager.terminals
  process,    \* every shell: "none", "running", "killed" or "exited"
  handle,     \* the handle of every terminal
  call,       \* route calls under way
  locks,      \* per workspace, the ensure calls holding or awaiting its lock
  sweeping,   \* the sweep under way
  disposed,
  wanted      \* history: time since a terminal was last handed out or viewed,
              \* since its shell last said or was told something, and exited

vars == <<terminals, process, handle, call, locks, sweeping, disposed, wanted>>

Never == -1
Ages(d) == {Never} \cup 0..d
Kinds == {"create", "ensure", "list"}
Stages == {"none", "locked", "sweep", "sweeping", "swept"}
Hooks == {"off", "unsupported", "silent", "busy", "awaiting", "idle"}
HandleType ==
  [workspace : Workspaces, createdBy : Sessions,
   reservedBy : Sessions \cup {NoSession}, pinned : BOOLEAN,
   views : 0..MaxViews, activity : {"unknown", "idle", "busy", "exited"},
   hook : Hooks, prompt : {"none", "fresh", "settled"},
   idle : Ages(IdleRetention), acquired : Ages(DetachGrace - 1),
   detached : Ages(DetachGrace - 1), exited : Ages(ExitRetention - 1)]
NoTerm == "noTerm"
NoSweep == [by |-> NoCall, scope |-> {}, todo |-> {}, at |-> NoTerm,
            step |-> "next", moved |-> FALSE, proven |-> FALSE]
SweepType ==
  [by : Calls \cup {NoCall, Timer}, scope : SUBSET Workspaces,
   todo : SUBSET Terms, at : Terms \cup {NoTerm},
   step : {"next", "probe1", "judge1", "probe2", "judge2"},
   moved : BOOLEAN, proven : BOOLEAN]

TypeOK ==
  /\ terminals \subseteq Terms
  /\ process \in [Terms -> {"none", "running", "killed", "exited"}]
  /\ \A t \in terminals : handle[t] \in HandleType
  /\ call \in [Calls -> [kind : Kinds, session : Sessions, stage : Stages]]
  /\ locks \in [Workspaces -> Seq(Calls)]
  /\ sweeping \in SweepType
  /\ disposed \in BOOLEAN
  /\ wanted \in [Terms -> [use : 0..DetachGrace, io : 0..IdleRetention, exit : 0..ExitRetention]]

Blank ==
  [workspace |-> CHOOSE w \in Workspaces : TRUE,
   createdBy |-> CHOOSE s \in Sessions : TRUE, reservedBy |-> NoSession,
   pinned |-> FALSE, views |-> 0, activity |-> "unknown", hook |-> "off",
   prompt |-> "none", idle |-> Never, acquired |-> Never, detached |-> 0,
   exited |-> Never]
NoUse == [use |-> 0, io |-> 0, exit |-> 0]
NoRequest ==
  [kind |-> "list", session |-> CHOOSE s \in Sessions : TRUE, stage |-> "none"]

Init ==
  /\ terminals = {}
  /\ process = [t \in Terms |-> "none"]
  /\ handle = [t \in Terms |-> Blank]
  /\ call = [c \in Calls |-> NoRequest]
  /\ locks = [w \in Workspaces |-> << >>]
  /\ sweeping = NoSweep
  /\ disposed = FALSE
  /\ wanted = [t \in Terms |-> NoUse]

-----------------------------------------------------------------------------
(* What the manager reads. *)

Exited(t) == process[t] = "exited"
In(w) == {t \in terminals : handle[t].workspace = w}
Live == {t \in terminals : ~Exited(t)}
LiveIn(w) == In(w) \cap Live

Young(age) == age # Never
Protected(t) ==
  \/ handle[t].pinned
  \/ handle[t].views > 0
  \/ Young(handle[t].acquired)
  \/ Young(handle[t].detached)

HooksValid(h) == h.hook \in {"busy", "awaiting", "idle"}
Presented(h, activity) == IF HooksValid(h) THEN h.activity ELSE activity

\* pruneExited: the exited records old enough to be dropped.
Expired(t) ==
  Exited(t) /\ ~Protected(t) /\ ~Young(handle[t].exited)
ExpiredIn(ws) == {t \in terminals : handle[t].workspace \in ws /\ Expired(t)}

\* Mutant: one terminal too many, and no other limit.
LimitReached_Over(w, ts) ==
  Cardinality({t \in ts : process[t] # "exited" /\ handle[t].workspace = w}) > MaxPerWorkspace
\* The four limits of create(), over the records that survive its prune.
LimitReached(w, ts) ==
  LET mine == {t \in ts : handle[t].workspace = w}
      live == {t \in ts : ~Exited(t)}
  IN  \/ Cardinality(mine \cap live) >= MaxPerWorkspace
      \/ Cardinality(live) >= MaxGlobal
      \/ Cardinality(mine) >= MaxPerWorkspace * RetainedFactor
      \/ Cardinality(ts) >= MaxGlobal * RetainedFactor

\* ensure()'s choice among the live terminals of its workspace.  "Any" stands
\* for the oldest, which the map's order would give.
Preferred(w, s) ==
  LET reserved == {t \in LiveIn(w) : handle[t].reservedBy = s}
      created == {t \in LiveIn(w) : handle[t].createdBy = s}
  IN  IF reserved # {} THEN reserved ELSE IF created # {} THEN created ELSE LiveIn(w)

-----------------------------------------------------------------------------
(* Effects the actions below compose. *)

\* A handle's revision moved: a probe that captured it is void.
Moved(t) == [sweeping EXCEPT !.moved = @ \/ sweeping.at = t]

\* Mutant: terminate() forgets the kill.
KilledWith_Never(ts) == process
KilledWith(ts) ==
  [t \in Terms |-> IF t \in ts /\ process[t] = "running" THEN "killed" ELSE process[t]]
\* terminate() of every terminal of ts: off the map, sockets dropped, killed.
Drop(ts) ==
  /\ terminals' = terminals \ ts
  /\ process' = KilledWith(ts)
  /\ handle' = [t \in Terms |-> IF t \in ts THEN Blank ELSE handle[t]]
  /\ wanted' = [t \in Terms |-> IF t \in ts THEN NoUse ELSE wanted[t]]

Requested(c) == call[c].session
WorkspaceFor(c) == WorkspaceOf[call[c].session]
Goto(c, stage) == [call EXCEPT ![c].stage = stage]
Finish(c) == [call EXCEPT ![c] = NoRequest]
\* The lock passes to the next ensure() of the workspace.
Unlocked(c) ==
  [w \in Workspaces |->
     IF locks[w] # << >> /\ Head(locks[w]) = c THEN Tail(locks[w]) ELSE locks[w]]

-----------------------------------------------------------------------------
(* The routes. *)

\* workspace-terminal.create, .list and .cleanup: straight to the sweep.
RequestSweeping(c, s, kind) ==
  /\ call[c].stage = "none" /\ kind \in {"create", "list"}
  /\ call' = [call EXCEPT ![c] = [kind |-> kind, session |-> s, stage |-> "sweep"]]
  /\ UNCHANGED <<terminals, process, handle, locks, sweeping, disposed, wanted>>

\* workspace-terminal.ensure: queue on the workspace's lock.
RequestEnsure(c, s) ==
  /\ call[c].stage = "none"
  /\ call' = [call EXCEPT ![c] = [kind |-> "ensure", session |-> s, stage |-> "locked"]]
  /\ locks' = [locks EXCEPT ![WorkspaceOf[s]] = Append(@, c)]
  /\ UNCHANGED <<terminals, process, handle, sweeping, disposed, wanted>>

\* Mutant: no per-workspace lock.
HoldsLock_Never(c) == call[c].stage = "locked"
HoldsLock(c) ==
  LET queue == locks[WorkspaceFor(c)] IN
  call[c].stage = "locked" /\ queue # << >> /\ Head(queue) = c

EnsureRefused(c) ==
  /\ HoldsLock(c) /\ disposed
  /\ call' = Finish(c) /\ locks' = Unlocked(c)
  /\ UNCHANGED <<terminals, process, handle, sweeping, disposed, wanted>>

Reserved(h, s) ==
  [h EXCEPT !.reservedBy = IF @ = NoSession THEN s ELSE @,
            !.idle = Never, !.acquired = 0]

EnsureReuses(c) ==
  /\ HoldsLock(c) /\ ~disposed
  /\ \E t \in Preferred(WorkspaceFor(c), Requested(c)) :
       /\ handle' = [handle EXCEPT ![t] = Reserved(@, Requested(c))]
       /\ sweeping' = Moved(t)
       /\ wanted' = [wanted EXCEPT ![t].use = 0]
  /\ call' = Finish(c) /\ locks' = Unlocked(c)
  /\ UNCHANGED <<terminals, process, disposed>>

EnsureFindsNone(c) ==
  /\ HoldsLock(c) /\ ~disposed
  /\ LiveIn(WorkspaceFor(c)) = {}
  /\ call' = Goto(c, "sweep")
  /\ UNCHANGED <<terminals, process, handle, locks, sweeping, disposed, wanted>>

\* The continuation of the route after its sweep: create() throws, having
\* pruned the expired records unless the manager is disposed.
CreateThrows(c) ==
  /\ call[c].stage = "swept" /\ call[c].kind \in {"create", "ensure"}
  /\ IF disposed
     THEN UNCHANGED <<terminals, process, handle, wanted>>
     ELSE Drop(ExpiredIn(Workspaces))
  /\ call' = Finish(c) /\ locks' = Unlocked(c)
  /\ UNCHANGED <<sweeping, disposed>>

Fresh(s, ensured, integrated) ==
  [workspace |-> WorkspaceOf[s], createdBy |-> s,
   reservedBy |-> IF ensured THEN s ELSE NoSession, pinned |-> FALSE,
   views |-> 0, activity |-> "unknown",
   hook |-> IF integrated THEN "silent" ELSE "off", prompt |-> "none",
   idle |-> Never, acquired |-> Never, detached |-> 0, exited |-> Never]

\* Mutant: create() that does not look at the disposed flag.
MayCreate_Disposed(c) ==
  /\ call[c].stage = "swept" /\ call[c].kind \in {"create", "ensure"}
  /\ ~LimitReached(WorkspaceFor(c), terminals \ ExpiredIn(Workspaces))
MayCreate(c) ==
  /\ call[c].stage = "swept" /\ call[c].kind \in {"create", "ensure"}
  /\ ~disposed
  /\ ~LimitReached(WorkspaceFor(c), terminals \ ExpiredIn(Workspaces))

CreateSpawns(c) ==
  /\ MayCreate(c)
  /\ LET gone == ExpiredIn(Workspaces) IN
       \E t \in Terms, integrated \in Integrations :
         /\ process[t] = "none"
         /\ terminals' = (terminals \ gone) \cup {t}
         /\ process' = [process EXCEPT ![t] = "running"]
         /\ handle' = [u \in Terms |->
              IF u = t THEN Fresh(Requested(c), call[c].kind = "ensure", integrated)
              ELSE IF u \in gone THEN Blank ELSE handle[u]]
         /\ wanted' = [u \in Terms |-> IF u \in gone \cup {t} THEN NoUse ELSE wanted[u]]
  /\ call' = Finish(c) /\ locks' = Unlocked(c)
  /\ UNCHANGED <<sweeping, disposed>>

ListAnswers(c) ==
  /\ call[c].stage = "swept" /\ call[c].kind = "list"
  /\ call' = Finish(c)
  /\ UNCHANGED <<terminals, process, handle, locks, sweeping, disposed, wanted>>

-----------------------------------------------------------------------------
(* The sweep: one at a time, two probes before a live terminal is reclaimed. *)

StartSweep(by, scope) ==
  /\ sweeping = NoSweep
  /\ Drop(ExpiredIn(scope))
  /\ sweeping' = [NoSweep EXCEPT !.by = by, !.scope = scope,
                                 !.todo = terminals \ ExpiredIn(scope)]

\* sweep(workspace): await the sweep under way, look again, then run one.
SweepFor(c) ==
  /\ call[c].stage = "sweep" /\ ~disposed
  /\ StartSweep(c, {WorkspaceFor(c)})
  /\ call' = Goto(c, "sweeping")
  /\ UNCHANGED <<locks, disposed>>

SweepWhenDisposed(c) ==
  /\ call[c].stage = "sweep" /\ disposed /\ sweeping = NoSweep
  /\ call' = Goto(c, "swept")
  /\ UNCHANGED <<terminals, process, handle, locks, sweeping, disposed, wanted>>

\* The interval's sweep() of every workspace; one that finds a sweep under
\* way awaits it and returns, which changes nothing.
TimedSweep ==
  /\ ~disposed
  /\ StartSweep(Timer, Workspaces)
  /\ UNCHANGED <<call, locks, disposed>>

\* refresh() up to its await: capture the revision and whether the prompt
\* was proven.
Probing(t, step) ==
  [sweeping EXCEPT !.at = t, !.todo = @ \ {t}, !.step = step, !.moved = FALSE,
                   !.proven = handle[t].hook # "off" /\ handle[t].prompt = "settled"]

Relevant(t) == process[t] # "exited" /\ (t \in terminals => handle[t].workspace \in sweeping.scope)

Onward == [sweeping EXCEPT !.step = "next", !.at = NoTerm, !.moved = FALSE, !.proven = FALSE]
\* The next handle of the snapshot.  One terminated since the snapshot is
\* still probed; refresh() drops the answer.
SweepNext(t) ==
  /\ sweeping.by # NoCall /\ sweeping.step = "next" /\ ~disposed
  /\ t \in sweeping.todo
  /\ sweeping' = IF Relevant(t) THEN Probing(t, "probe1")
                 ELSE [sweeping EXCEPT !.todo = @ \ {t}]
  /\ UNCHANGED <<terminals, process, handle, call, locks, disposed, wanted>>

\* Mutant: a sweep that leaves its flag behind when the manager was disposed.
SweepOver_Disposed == sweeping.todo = {}
SweepOver == sweeping.todo = {} \/ disposed
SweepEnds ==
  /\ sweeping.by # NoCall /\ sweeping.step = "next" /\ SweepOver
  /\ sweeping' = NoSweep
  /\ call' = IF sweeping.by = Timer THEN call ELSE Goto(sweeping.by, "swept")
  /\ UNCHANGED <<terminals, process, handle, locks, disposed, wanted>>

\* refresh() discards an answer that no longer describes the handle.
Void(t) == disposed \/ t \notin terminals \/ sweeping.moved \/ Exited(t)

\* probeTerminalActivity: only a proven prompt makes "idle" possible; a failed
\* or late `ps` answers "unknown".
ProbeResults(proven) == IF proven THEN {"idle", "busy", "unknown"} ELSE {"busy", "unknown"}

Observed(h, result) ==
  [h EXCEPT !.activity = Presented(h, result),
            !.idle = IF result # "idle" THEN Never ELSE IF @ = Never THEN 0 ELSE @]

ProbeAnswers(answer) ==
  /\ sweeping.step \in {"probe1", "probe2"}
  /\ answer \in ProbeResults(sweeping.proven)
  /\ LET t == sweeping.at IN
       IF Void(t)
       THEN /\ sweeping' = Onward
            /\ UNCHANGED handle
       ELSE /\ handle' = [handle EXCEPT ![t] = Observed(@, answer)]
            /\ sweeping' = [sweeping EXCEPT
                 !.step = IF @ = "probe1" THEN "judge1" ELSE "judge2"]
  /\ UNCHANGED <<terminals, process, call, locks, disposed, wanted>>

Reclaimable(t) ==
  /\ t \in terminals
  /\ ~Protected(t)
  /\ handle[t].idle = IdleRetention
  /\ handle[t].activity = "idle"

\* After the first proof: ask again, right before removal.
JudgeFirst ==
  /\ sweeping.step = "judge1"
  /\ LET t == sweeping.at IN
       sweeping' = IF Reclaimable(t) /\ ~disposed
                   THEN Probing(t, "probe2")
                   ELSE Onward
  /\ UNCHANGED <<terminals, process, handle, call, locks, disposed, wanted>>

\* Mutant: the terminal is not looked at again after the second probe.
Reclaims_Blindly(t) == t \in terminals
Reclaims(t) == ~disposed /\ ~sweeping.moved /\ ~Exited(t) /\ Reclaimable(t)
JudgeSecond ==
  /\ sweeping.step = "judge2"
  /\ LET t == sweeping.at IN
       IF Reclaims(t) THEN Drop({t}) ELSE UNCHANGED <<terminals, process, handle, wanted>>
  /\ sweeping' = Onward
  /\ UNCHANGED <<call, locks, disposed>>

-----------------------------------------------------------------------------
(* The terminals themselves. *)

Terminate(t) ==
  /\ t \in terminals
  /\ Drop({t})
  /\ UNCHANGED <<call, locks, sweeping, disposed>>

Pin(t) ==
  /\ t \in terminals
  /\ handle' = [handle EXCEPT ![t].pinned = ~@]
  /\ sweeping' = Moved(t)
  /\ UNCHANGED <<terminals, process, call, locks, disposed, wanted>>

Attach(t) ==
  /\ t \in Live /\ handle[t].views < MaxViews
  /\ handle' = [handle EXCEPT ![t].views = @ + 1]
  /\ sweeping' = Moved(t)
  /\ wanted' = [wanted EXCEPT ![t].use = 0]
  /\ UNCHANGED <<terminals, process, call, locks, disposed>>

Detached(h) ==
  [h EXCEPT !.views = @ - 1, !.detached = IF h.views = 1 THEN 0 ELSE @]
\* A view's socket closes, errs, or sends "close" or "park".
Detach(t) ==
  /\ t \in terminals /\ handle[t].views > 0
  /\ handle' = [handle EXCEPT ![t] = Detached(@)]
  /\ sweeping' = Moved(t)
  /\ wanted' = [wanted EXCEPT ![t].use = 0]
  /\ UNCHANGED <<terminals, process, call, locks, disposed>>

Touched(h) ==
  [h EXCEPT !.idle = Never, !.prompt = "none", !.activity = Presented(h, "unknown")]
\* Input of an attached view, or output of the shell.
Bytes(t) ==
  /\ t \in Live
  /\ handle' = [handle EXCEPT ![t] = Touched(@)]
  /\ sweeping' = Moved(t)
  /\ wanted' = [wanted EXCEPT ![t].io = 0]
  /\ UNCHANGED <<terminals, process, call, locks, disposed>>

\* The zsh integration's marker reached the parser.
\* An unsupported shell stays so.
AfterMarker(h, kind) ==
  LET hook == CASE h.hook = "unsupported" \/ kind = "unsupported" -> "unsupported"
                [] kind = "start" -> "busy"
                [] kind \in {"end", "accept"} -> "awaiting"
                [] OTHER -> "idle"
  IN  [h EXCEPT !.idle = Never, !.hook = hook,
                !.prompt = IF hook = "idle" THEN "fresh" ELSE "none",
                !.activity = IF hook \in {"busy", "idle"} THEN hook ELSE "unknown"]
Marker(t, kind) ==
  /\ t \in Live /\ handle[t].hook # "off"
  /\ handle' = [handle EXCEPT ![t] = AfterMarker(@, kind)]
  /\ sweeping' = Moved(t)
  /\ wanted' = [wanted EXCEPT ![t].io = 0]
  /\ UNCHANGED <<terminals, process, call, locks, disposed>>

\* Two quiet seconds after a prompt.
PromptSettles(t) ==
  /\ t \in Live /\ handle[t].prompt = "fresh"
  /\ handle' = [handle EXCEPT ![t].prompt = "settled"]
  /\ UNCHANGED <<terminals, process, call, locks, sweeping, disposed, wanted>>

ProcessExits(t) ==
  /\ t \in Live
  /\ process' = [process EXCEPT ![t] = "exited"]
  /\ handle' = [handle EXCEPT ![t].idle = Never, ![t].prompt = "none",
                              ![t].activity = "exited", ![t].exited = 0]
  /\ sweeping' = Moved(t)
  /\ UNCHANGED <<terminals, call, locks, disposed, wanted>>

DisposeAll ==
  /\ ~disposed
  /\ disposed' = TRUE
  /\ Drop(terminals)
  /\ UNCHANGED <<call, locks, sweeping>>

Older(age, d) == IF age = Never \/ age >= d THEN age ELSE age + 1
\* Mutant: the delay's comparison is off by one.
Outgrown_Late(age, d) == IF age = Never \/ age + 1 > d THEN Never ELSE age + 1
Outgrown(age, d) == IF age = Never \/ age + 1 >= d THEN Never ELSE age + 1
Tick ==
  /\ handle' = [t \in Terms |->
       IF t \in terminals
       THEN [handle[t] EXCEPT !.idle = Older(@, IdleRetention),
                              !.acquired = Outgrown(@, DetachGrace),
                              !.detached = Outgrown(@, DetachGrace),
                              !.exited = Outgrown(@, ExitRetention)]
       ELSE handle[t]]
  /\ wanted' = [t \in Terms |->
       IF t \in terminals
       THEN [use |-> IF handle[t].views > 0 THEN 0 ELSE Older(wanted[t].use, DetachGrace),
             io |-> Older(wanted[t].io, IdleRetention),
             exit |-> IF Exited(t) THEN Older(wanted[t].exit, ExitRetention) ELSE 0]
       ELSE wanted[t]]
  /\ UNCHANGED <<terminals, process, call, locks, sweeping, disposed>>

-----------------------------------------------------------------------------
HostStep ==
  \/ \E c \in Calls :
       \/ EnsureRefused(c) \/ EnsureReuses(c) \/ EnsureFindsNone(c)
       \/ CreateThrows(c) \/ CreateSpawns(c) \/ ListAnswers(c)
       \/ SweepFor(c) \/ SweepWhenDisposed(c)
  \/ TimedSweep
  \/ \E t \in Terms : SweepNext(t)
  \/ SweepEnds
  \/ \E answer \in {"idle", "busy", "unknown"} : ProbeAnswers(answer)
  \/ JudgeFirst \/ JudgeSecond

WorldStep ==
  \/ \E c \in Calls, s \in Sessions, kind \in Kinds : RequestSweeping(c, s, kind)
  \/ \E c \in Calls, s \in Sessions : RequestEnsure(c, s)
  \/ \E t \in Terms :
       \/ Terminate(t) \/ Pin(t) \/ Attach(t) \/ Detach(t)
       \/ Bytes(t) \/ PromptSettles(t) \/ ProcessExits(t)
       \/ \E kind \in {"unsupported", "start", "end", "accept", "prompt"} : Marker(t, kind)
  \/ DisposeAll
  \/ Tick

Next == HostStep \/ WorldStep
Spec == Init /\ [][Next]_vars

\* The host's steps are continuations, timers and `ps` answers (raced with a
\* 2 s timeout), which the event loop runs sooner or later.  A call awaiting
\* the sweep under way is resumed in the order it began to wait, so it gets
\* its turn even if new sweeps keep coming: strong fairness.
Fairness ==
  /\ \A c \in Calls :
       /\ WF_vars(EnsureRefused(c) \/ EnsureReuses(c) \/ EnsureFindsNone(c))
       /\ WF_vars(CreateThrows(c) \/ CreateSpawns(c) \/ ListAnswers(c))
       /\ SF_vars(SweepFor(c)) /\ WF_vars(SweepWhenDisposed(c))
  /\ WF_vars((\E t \in Terms : SweepNext(t)) \/ SweepEnds)
  /\ WF_vars(\E answer \in {"idle", "busy", "unknown"} : ProbeAnswers(answer))
  /\ WF_vars(JudgeFirst \/ JudgeSecond)
FairSpec == Spec /\ Fairness

-----------------------------------------------------------------------------
(* Properties. *)

\* A shell that still runs is on the manager's map, where limits count it and
\* terminate() finds it: no path drops the record and forgets the process.
NoOrphan == \A t \in DOMAIN process : process[t] = "running" => t \in terminals

\* disposeAll() is final: a route that was awaiting a sweep, or the workspace's
\* lock, when the plugin was torn down starts no shell afterwards.
NothingAfterDispose ==
  disposed => terminals = {} /\ \A t \in DOMAIN process : process[t] # "running"

\* No path forgets a running shell, and none is started after disposeAll().
NoShellLost == NoOrphan /\ NothingAfterDispose

\* However many calls await sweeps at once, the live limits hold: create()
\* counts after its last await.
LiveLimits ==
  /\ \A w \in Workspaces : Cardinality(LiveIn(w)) <= MaxPerWorkspace
  /\ Cardinality(Live) <= MaxGlobal

\* A conversation holds at most one reservation of its workspace, so that
\* opening its terminal again always leads to the same shell.
OneReservation ==
  \A t, u \in Live :
    handle[t].reservedBy = handle[u].reservedBy /\ handle[t].reservedBy # NoSession => t = u

\* create() counts after its last await, and ensure() holds the workspace's
\* lock: no race makes one terminal too many, over a limit or beside a
\* reservation.
NoneTooMany == LiveLimits /\ OneReservation

\* What a sweep or a prune removes: of the exited, those whose record was kept
\* for its retention; of the living, those at a settled prompt whose last byte
\* is IDLE_RETENTION old; and never one that is pinned, in view, or was handed
\* out or viewed within the grace.
RemovesTheUnused ==
  \A t \in terminals \ terminals' :
    \/ disposed' \/ Terminate(t)
    \/ /\ ~handle[t].pinned /\ handle[t].views = 0
       /\ wanted[t].use >= DetachGrace
       /\ IF Exited(t) THEN wanted[t].exit >= ExitRetention
          ELSE /\ wanted[t].io >= IdleRetention
               /\ handle[t].hook = "idle" /\ handle[t].prompt = "settled"

\* Every route call is answered, although it may queue behind the workspace's
\* lock, then behind a sweep, then sweep itself while terminals come and go.
Answered(c) == call[c].stage # "none" ~> call[c].stage = "none"
CallsAnswered == \A c \in Calls : Answered(c)
=============================================================================
