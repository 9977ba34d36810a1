---------------------- MODULE WorkspaceTerminals_proofs ----------------------
(***************************************************************************)
(* Proofs about WorkspaceTerminals, for every number of workspaces,        *)
(* conversations, terminals and calls and every limit.  The type invariant *)
(* is split in what the terminals are (TableOK) and what the routes and    *)
(* the sweep are (RoutesOK); on it rest what is never forgotten or started *)
(* late (NoShellLost), the limits, the single reservation, and what a sweep *)
(* may take (RemovesTheUnused).                                            *)
(***************************************************************************)
EXTENDS WorkspaceTerminals, FiniteSetTheorems, TLAPS

TableOK ==
  /\ terminals \subseteq Terms
  /\ process \in [Terms -> {"none", "running", "killed", "exited"}]
  /\ handle = [t \in Terms |-> handle[t]]
  /\ \A t \in terminals : handle[t] \in HandleType
  /\ wanted \in [Terms -> [use : 0..DetachGrace, io : 0..IdleRetention, exit : 0..ExitRetention]]

RoutesOK ==
  /\ call \in [Calls -> [kind : Kinds, session : Sessions, stage : Stages]]
  /\ locks \in [Workspaces -> Seq(Calls)]
  /\ sweeping \in SweepType
  /\ disposed \in BOOLEAN

Typed == TableOK /\ RoutesOK

\* Terminals go off the map.
LEMMA DropType ==
  ASSUME TableOK, NEW ts, Drop(ts)
  PROVE  TableOK'
<1>1. NoUse \in [use : 0..DetachGrace, io : 0..IdleRetention, exit : 0..ExitRetention]
  BY ConstantsAssumption DEF NoUse
<1>2. wanted' \in [Terms -> [use : 0..DetachGrace, io : 0..IdleRetention, exit : 0..ExitRetention]]
  BY <1>1 DEF TableOK, Drop
<1>3. process' \in [Terms -> {"none", "running", "killed", "exited"}]
  BY DEF TableOK, Drop, KilledWith
<1>4. handle' = [t \in Terms |-> handle'[t]] /\ \A t \in terminals' : handle'[t] \in HandleType
  BY DEF TableOK, Drop
<1> QED BY <1>2, <1>3, <1>4 DEF TableOK, Drop

\* One terminal's handle changes, and perhaps its shell.
LEMMA HandleType1 ==
  ASSUME TableOK, NEW t \in terminals, NEW h \in HandleType, handle' = [handle EXCEPT ![t] = h],
         terminals' = terminals, wanted' = wanted,
         process' = process \/ process' = [process EXCEPT ![t] = "exited"]
  PROVE  TableOK'
BY DEF TableOK

LEMMA WantedType ==
  ASSUME TableOK, NEW t \in Terms
  PROVE  /\ [wanted EXCEPT ![t].use = 0] \in
              [Terms -> [use : 0..DetachGrace, io : 0..IdleRetention, exit : 0..ExitRetention]]
         /\ [wanted EXCEPT ![t].io = 0] \in
              [Terms -> [use : 0..DetachGrace, io : 0..IdleRetention, exit : 0..ExitRetention]]
BY ConstantsAssumption DEF TableOK

\* The ages a handle may have.
LEMMA AgesHold ==
  /\ Never \in Ages(IdleRetention) /\ Never \in Ages(DetachGrace - 1) /\ Never \in Ages(ExitRetention - 1)
  /\ 0 \in Ages(IdleRetention) /\ 0 \in Ages(DetachGrace - 1) /\ 0 \in Ages(ExitRetention - 1)
BY ConstantsAssumption DEF Ages, Never

LEMMA SweepTypes ==
  ASSUME sweeping \in SweepType
  PROVE  /\ NoSweep \in SweepType /\ Onward \in SweepType
         /\ \A t : Moved(t) \in SweepType
         /\ \A t \in Terms : Probing(t, "probe1") \in SweepType /\ Probing(t, "probe2") \in SweepType
BY ZenonT(60) DEF SweepType, NoSweep, Onward, Moved, Probing

LEMMA RouteTypes ==
  ASSUME RoutesOK, Sessions # {}, NEW c \in Calls
  PROVE  /\ Finish(c) \in [Calls -> [kind : Kinds, session : Sessions, stage : Stages]]
         /\ \A g \in Stages : Goto(c, g) \in [Calls -> [kind : Kinds, session : Sessions, stage : Stages]]
         /\ Unlocked(c) \in [Workspaces -> Seq(Calls)]
<1>1. NoRequest \in [kind : Kinds, session : Sessions, stage : Stages]
  BY DEF NoRequest, Kinds, Stages
<1>2. Finish(c) \in [Calls -> [kind : Kinds, session : Sessions, stage : Stages]]
  BY <1>1 DEF RoutesOK, Finish
<1>3. ASSUME NEW g \in Stages
      PROVE  Goto(c, g) \in [Calls -> [kind : Kinds, session : Sessions, stage : Stages]]
  BY DEF RoutesOK, Goto
<1>4. ASSUME NEW w \in Workspaces, locks[w] # << >>
      PROVE  Tail(locks[w]) \in Seq(Calls)
  BY <1>4 DEF RoutesOK
<1>5. Unlocked(c) \in [Workspaces -> Seq(Calls)]
  BY <1>4 DEF RoutesOK, Unlocked
<1> QED BY <1>2, <1>3, <1>5

\* A handle after each thing that may happen to its terminal.
LEMMA HandlesAfter ==
  ASSUME NEW h \in HandleType
  PROVE  /\ \A s \in Sessions : Reserved(h, s) \in HandleType
         /\ \A a \in {"idle", "busy", "unknown"} : Observed(h, a) \in HandleType
         /\ h.views > 0 => Detached(h) \in HandleType
         /\ h.views < MaxViews => [h EXCEPT !.views = @ + 1] \in HandleType
         /\ Touched(h) \in HandleType
         /\ \A k \in {"unsupported", "start", "end", "accept", "prompt"} : AfterMarker(h, k) \in HandleType
         /\ [h EXCEPT !.pinned = ~@] \in HandleType
         /\ [h EXCEPT !.prompt = "settled"] \in HandleType
         /\ [h EXCEPT !.idle = Never, !.prompt = "none", !.activity = "exited", !.exited = 0] \in HandleType
<1> USE AgesHold, ConstantsAssumption DEF HandleType
<1>1. \A s \in Sessions : Reserved(h, s) \in HandleType
  BY DEF Reserved
<1>2. \A a \in {"idle", "busy", "unknown"} : Observed(h, a) \in HandleType
  BY ZenonT(60) DEF Observed, Presented
<1>3. ASSUME h.views > 0 PROVE Detached(h) \in HandleType
  <2>1. h.views - 1 \in 0..MaxViews
    BY <1>3
  <2>2. (IF h.views = 1 THEN 0 ELSE h.detached) \in Ages(DetachGrace - 1)
    OBVIOUS
  <2>3. Detached(h) = [[h EXCEPT !.views = h.views - 1]
                         EXCEPT !.detached = IF h.views = 1 THEN 0 ELSE h.detached]
    BY DEF Detached
  <2> QED BY <2>1, <2>2, <2>3
<1>4. h.views < MaxViews => [h EXCEPT !.views = @ + 1] \in HandleType
  OBVIOUS
<1>5. Touched(h) \in HandleType
  BY DEF Touched, Presented
<1>6. ASSUME NEW k \in {"unsupported", "start", "end", "accept", "prompt"}
      PROVE  AfterMarker(h, k) \in HandleType
  <2> DEFINE hook == CASE h.hook = "unsupported" \/ k = "unsupported" -> "unsupported"
                       [] k = "start" -> "busy"
                       [] k \in {"end", "accept"} -> "awaiting"
                       [] OTHER -> "idle"
  <2>1. hook \in {"unsupported", "busy", "awaiting", "idle"}
    OBVIOUS
  <2>2. AfterMarker(h, k) =
          [h EXCEPT !.idle = Never, !.hook = hook,
                    !.prompt = IF hook = "idle" THEN "fresh" ELSE "none",
                    !.activity = IF hook \in {"busy", "idle"} THEN hook ELSE "unknown"]
    BY DEF AfterMarker
  <2> HIDE DEF hook
  <2> QED BY <2>1, <2>2 DEF Hooks
<1>7. /\ [h EXCEPT !.pinned = ~@] \in HandleType
      /\ [h EXCEPT !.prompt = "settled"] \in HandleType
      /\ [h EXCEPT !.idle = Never, !.prompt = "none", !.activity = "exited", !.exited = 0] \in HandleType
  OBVIOUS
<1> QED BY <1>1, <1>2, <1>3, <1>4, <1>5, <1>6, <1>7

\* What create() adds.
LEMMA SpawnType ==
  ASSUME Typed, NEW c \in Calls, CreateSpawns(c)
  PROVE  TableOK'
<1> DEFINE gone == ExpiredIn(Workspaces)
<1>1. PICK t \in Terms, integrated \in Integrations :
        /\ terminals' = (terminals \ gone) \cup {t}
        /\ process' = [process EXCEPT ![t] = "running"]
        /\ handle' = [u \in Terms |->
              IF u = t THEN Fresh(Requested(c), call[c].kind = "ensure", integrated)
              ELSE IF u \in gone THEN Blank ELSE handle[u]]
        /\ wanted' = [u \in Terms |-> IF u \in gone \cup {t} THEN NoUse ELSE wanted[u]]
  BY DEF CreateSpawns
<1> HIDE DEF gone
<1>2. Fresh(Requested(c), call[c].kind = "ensure", integrated) \in HandleType
  <2>1. call[c].session \in Sessions /\ WorkspaceOf[call[c].session] \in Workspaces
    BY ConstantsAssumption DEF Typed, RoutesOK
  <2> QED BY <2>1, AgesHold, ConstantsAssumption DEF Fresh, Requested, HandleType, Hooks
<1>3. NoUse \in [use : 0..DetachGrace, io : 0..IdleRetention, exit : 0..ExitRetention]
  BY ConstantsAssumption DEF NoUse
<1>4. terminals' \subseteq Terms
      /\ process' \in [Terms -> {"none", "running", "killed", "exited"}]
  BY <1>1 DEF Typed, TableOK
<1>5. handle' = [u \in Terms |-> handle'[u]] /\ \A u \in terminals' : handle'[u] \in HandleType
  BY <1>1, <1>2 DEF Typed, TableOK
<1>6. wanted' \in [Terms -> [use : 0..DetachGrace, io : 0..IdleRetention, exit : 0..ExitRetention]]
  BY <1>1, <1>3 DEF Typed, TableOK
<1> QED BY <1>4, <1>5, <1>6 DEF TableOK

\* Time passes.
LEMMA TickType ==
  ASSUME TableOK, Tick
  PROVE  TableOK'
<1> USE ConstantsAssumption
<1>1. /\ \A a \in Ages(IdleRetention) : Older(a, IdleRetention) \in Ages(IdleRetention)
      /\ \A a \in Ages(DetachGrace - 1) : Outgrown(a, DetachGrace) \in Ages(DetachGrace - 1)
      /\ \A a \in Ages(ExitRetention - 1) : Outgrown(a, ExitRetention) \in Ages(ExitRetention - 1)
  BY DEF Ages, Older, Outgrown, Never
<1>2. \A d \in Nat : \A a \in 0..d : Older(a, d) \in 0..d
  BY DEF Older, Never
<1>3. \A t \in Terms : wanted'[t] \in [use : 0..DetachGrace, io : 0..IdleRetention, exit : 0..ExitRetention]
  <2> SUFFICES ASSUME NEW t \in Terms
               PROVE wanted'[t] \in [use : 0..DetachGrace, io : 0..IdleRetention, exit : 0..ExitRetention]
    OBVIOUS
  <2>1. wanted[t] \in [use : 0..DetachGrace, io : 0..IdleRetention, exit : 0..ExitRetention]
    BY DEF TableOK
  <2>2. /\ Older(wanted[t].use, DetachGrace) \in 0..DetachGrace
        /\ Older(wanted[t].io, IdleRetention) \in 0..IdleRetention
        /\ Older(wanted[t].exit, ExitRetention) \in 0..ExitRetention
    BY <1>2, <2>1
  <2>3. \/ wanted'[t] = wanted[t]
        \/ wanted'[t] = [use |-> IF handle[t].views > 0 THEN 0 ELSE Older(wanted[t].use, DetachGrace),
                         io |-> Older(wanted[t].io, IdleRetention),
                         exit |-> IF Exited(t) THEN Older(wanted[t].exit, ExitRetention) ELSE 0]
    BY DEF Tick
  <2> QED BY <2>1, <2>2, <2>3
<1>4. wanted' \in [Terms -> [use : 0..DetachGrace, io : 0..IdleRetention, exit : 0..ExitRetention]]
  BY <1>3 DEF Tick
<1>5. ASSUME NEW t \in terminals PROVE handle'[t] \in HandleType
  <2>1. handle'[t] = [handle[t] EXCEPT !.idle = Older(@, IdleRetention),
                                       !.acquired = Outgrown(@, DetachGrace),
                                       !.detached = Outgrown(@, DetachGrace),
                                       !.exited = Outgrown(@, ExitRetention)]
    BY DEF Tick, TableOK
  <2>2. handle[t] \in HandleType
    BY DEF TableOK
  <2>3. /\ handle[t].idle \in Ages(IdleRetention) /\ handle[t].acquired \in Ages(DetachGrace - 1)
        /\ handle[t].detached \in Ages(DetachGrace - 1) /\ handle[t].exited \in Ages(ExitRetention - 1)
    BY <2>2 DEF HandleType
  <2>4. /\ Older(handle[t].idle, IdleRetention) \in Ages(IdleRetention)
        /\ Outgrown(handle[t].acquired, DetachGrace) \in Ages(DetachGrace - 1)
        /\ Outgrown(handle[t].detached, DetachGrace) \in Ages(DetachGrace - 1)
        /\ Outgrown(handle[t].exited, ExitRetention) \in Ages(ExitRetention - 1)
    BY <1>1, <2>3
  <2> HIDE DEF Ages, Older, Outgrown
  <2> QED BY ZenonT(60), <2>1, <2>2, <2>4 DEF HandleType
<1> QED BY <1>4, <1>5 DEF TableOK, Tick

-----------------------------------------------------------------------------
(* Type correctness. *)

LEMMA TableNext == Typed /\ [Next]_vars => TableOK'
<1> SUFFICES ASSUME Typed, [Next]_vars PROVE TableOK'
  OBVIOUS
<1> USE DEF Typed
<1>1. ASSUME UNCHANGED <<terminals, process, handle, wanted>> PROVE TableOK'
  BY <1>1 DEF TableOK
<1>2. CASE \E c \in Calls : \/ EnsureRefused(c) \/ EnsureFindsNone(c) \/ ListAnswers(c)
                            \/ SweepWhenDisposed(c)
                            \/ \E s \in Sessions : RequestEnsure(c, s)
                            \/ \E s \in Sessions, kind \in Kinds : RequestSweeping(c, s, kind)
  BY <1>1, <1>2 DEF EnsureRefused, EnsureFindsNone, ListAnswers, SweepWhenDisposed, RequestEnsure,
                    RequestSweeping
<1>3. ASSUME NEW c \in Calls, EnsureReuses(c) PROVE TableOK'
  <2>1. PICK t \in Preferred(WorkspaceFor(c), Requested(c)) :
          /\ handle' = [handle EXCEPT ![t] = Reserved(handle[t], Requested(c))]
          /\ wanted' = [wanted EXCEPT ![t].use = 0]
    BY <1>3 DEF EnsureReuses
  <2>2. t \in terminals /\ t \in Terms
    BY DEF Preferred, LiveIn, In, TableOK
  <2>3. Reserved(handle[t], Requested(c)) \in HandleType
    BY <2>2, HandlesAfter DEF TableOK, RoutesOK, Requested
  <2>4. UNCHANGED <<terminals, process>>
    BY <1>3 DEF EnsureReuses
  <2> QED BY <2>1, <2>2, <2>3, <2>4, WantedType DEF TableOK
<1>4. ASSUME NEW c \in Calls, CreateThrows(c) \/ CreateSpawns(c) PROVE TableOK'
  BY <1>1, <1>4, DropType, SpawnType DEF CreateThrows
<1>5. CASE (\E c \in Calls : SweepFor(c)) \/ TimedSweep
  BY <1>5, DropType DEF SweepFor, TimedSweep, StartSweep
<1>6. CASE (\E t \in Terms : SweepNext(t)) \/ SweepEnds \/ JudgeFirst
  BY <1>1, <1>6 DEF SweepNext, SweepEnds, JudgeFirst
<1>7. CASE JudgeSecond
  BY <1>1, <1>7, DropType DEF JudgeSecond
<1>8. ASSUME NEW answer \in {"idle", "busy", "unknown"}, ProbeAnswers(answer) PROVE TableOK'
  <2>1. CASE Void(sweeping.at)
    BY <1>1, <1>8, <2>1 DEF ProbeAnswers
  <2>2. CASE ~Void(sweeping.at)
    <3>1. sweeping.at \in terminals
      BY <2>2 DEF Void
    <3>2. Observed(handle[sweeping.at], answer) \in HandleType
      BY <3>1, HandlesAfter DEF TableOK
    <3> QED BY <1>8, <2>2, <3>1, <3>2, HandleType1 DEF ProbeAnswers
  <2> QED BY <2>1, <2>2
<1>9. ASSUME NEW t \in Terms, Terminate(t) PROVE TableOK'
  BY <1>9, DropType DEF Terminate
<1>10. CASE DisposeAll
  BY <1>10, DropType DEF DisposeAll
<1>11. CASE Tick
  BY <1>11, TickType
<1>12. ASSUME NEW t \in Terms, Pin(t) \/ PromptSettles(t) PROVE TableOK'
  <2>1. t \in terminals /\ handle[t] \in HandleType
    BY <1>12 DEF Pin, PromptSettles, Live, TableOK
  <2>2. \/ handle' = [handle EXCEPT ![t] = [handle[t] EXCEPT !.pinned = ~@]]
        \/ handle' = [handle EXCEPT ![t] = [handle[t] EXCEPT !.prompt = "settled"]]
    BY <1>12 DEF Pin, PromptSettles, TableOK
  <2> QED BY <1>12, <2>1, <2>2, HandlesAfter, HandleType1 DEF Pin, PromptSettles
<1>13. ASSUME NEW t \in Terms, ProcessExits(t) PROVE TableOK'
  <2>1. t \in terminals /\ handle[t] \in HandleType
    BY <1>13 DEF ProcessExits, Live, TableOK
  <2>2. handle' = [handle EXCEPT ![t] = [handle[t] EXCEPT !.idle = Never, !.prompt = "none",
                                                          !.activity = "exited", !.exited = 0]]
    BY <1>13 DEF ProcessExits, TableOK
  <2> QED BY <1>13, <2>1, <2>2, HandlesAfter, HandleType1 DEF ProcessExits
<1>14. ASSUME NEW t \in Terms, NEW h \in HandleType, t \in terminals, handle' = [handle EXCEPT ![t] = h],
              UNCHANGED <<terminals, process>>,
              wanted' = [wanted EXCEPT ![t].use = 0] \/ wanted' = [wanted EXCEPT ![t].io = 0]
       PROVE  TableOK'
  BY ZenonT(60), <1>14, WantedType DEF TableOK
<1>15. ASSUME NEW t \in Terms, Attach(t) PROVE TableOK'
  <2>1. t \in terminals /\ handle[t] \in HandleType /\ handle[t].views < MaxViews
    BY <1>15 DEF Attach, Live, TableOK
  <2>2. handle' = [handle EXCEPT ![t] = [handle[t] EXCEPT !.views = @ + 1]]
    BY <1>15 DEF Attach, TableOK
  <2> QED BY <1>14, <1>15, <2>1, <2>2, HandlesAfter DEF Attach
<1>16. ASSUME NEW t \in Terms,
              Detach(t) \/ Bytes(t)
                \/ \E kind \in {"unsupported", "start", "end", "accept", "prompt"} : Marker(t, kind)
       PROVE  TableOK'
  <2>1. t \in terminals /\ handle[t] \in HandleType
    BY <1>16 DEF Detach, Bytes, Marker, Live, TableOK
  <2>2. \E h \in HandleType : handle' = [handle EXCEPT ![t] = h]
    BY <1>16, <2>1, HandlesAfter DEF Detach, Bytes, Marker
  <2> QED BY <1>14, <1>16, <2>1, <2>2 DEF Detach, Bytes, Marker
<1>17. CASE UNCHANGED vars
  BY <1>1, <1>17 DEF vars
<1> QED
  BY <1>2, <1>3, <1>4, <1>5, <1>6, <1>7, <1>8, <1>9, <1>10, <1>11, <1>12, <1>13, <1>15, <1>16,
     <1>17 DEF Next, HostStep, WorldStep

LEMMA RoutesNext == ASSUME Sessions # {}, Typed, [Next]_vars PROVE RoutesOK'
<1> USE DEF Typed
<1> DEFINE CallType == [Calls -> [kind : Kinds, session : Sessions, stage : Stages]]
<1>0. sweeping \in SweepType /\ disposed \in BOOLEAN
  BY DEF RoutesOK
<1>1. ASSUME NEW c \in Calls, \E s \in Sessions, kind \in Kinds : RequestSweeping(c, s, kind)
      PROVE  RoutesOK'
  BY <1>1 DEF RequestSweeping, RoutesOK, Stages, Kinds
<1>2. ASSUME NEW c \in Calls, NEW s \in Sessions, RequestEnsure(c, s) PROVE RoutesOK'
  <2>1. call' \in CallType
    BY <1>2 DEF RequestEnsure, RoutesOK, Stages, Kinds
  <2>2. locks' \in [Workspaces -> Seq(Calls)]
    <3>1. locks' = [locks EXCEPT ![WorkspaceOf[s]] = Append(locks[WorkspaceOf[s]], c)]
      BY <1>2 DEF RequestEnsure
    <3>2. Append(locks[WorkspaceOf[s]], c) \in Seq(Calls)
      BY ConstantsAssumption DEF RoutesOK
    <3> QED BY <3>1, <3>2 DEF RoutesOK
  <2> QED BY <1>2, <2>1, <2>2 DEF RequestEnsure, RoutesOK
<1>3. ASSUME NEW c \in Calls,
             EnsureRefused(c) \/ EnsureReuses(c) \/ CreateThrows(c) \/ CreateSpawns(c) \/ ListAnswers(c)
      PROVE  RoutesOK'
  <2>1. call' = Finish(c) /\ (locks' = Unlocked(c) \/ locks' = locks) /\ disposed' = disposed
    BY <1>3 DEF EnsureRefused, EnsureReuses, CreateThrows, CreateSpawns, ListAnswers
  <2>2. sweeping' = sweeping \/ \E t : sweeping' = Moved(t)
    BY <1>3 DEF EnsureRefused, EnsureReuses, CreateThrows, CreateSpawns, ListAnswers
  <2> QED BY <1>0, <2>1, <2>2, RouteTypes, SweepTypes DEF RoutesOK
<1>4. ASSUME NEW c \in Calls, EnsureFindsNone(c) \/ SweepWhenDisposed(c) PROVE RoutesOK'
  <2>1. call' \in CallType
    BY <1>4, RouteTypes DEF EnsureFindsNone, SweepWhenDisposed, Stages
  <2> QED BY <1>4, <2>1 DEF EnsureFindsNone, SweepWhenDisposed, RoutesOK
<1>5. ASSUME NEW by \in Calls \cup {Timer}, NEW scope \in SUBSET Workspaces, StartSweep(by, scope)
      PROVE  sweeping' \in SweepType
  <2>1. terminals \ ExpiredIn(scope) \in SUBSET Terms
    BY DEF TableOK
  <2> QED BY <1>5, <2>1 DEF StartSweep, NoSweep, SweepType
<1>6. ASSUME NEW c \in Calls, SweepFor(c) PROVE RoutesOK'
  <2>1. {WorkspaceFor(c)} \in SUBSET Workspaces
    BY ConstantsAssumption DEF WorkspaceFor, RoutesOK
  <2>2. call' \in CallType
    BY <1>6, RouteTypes DEF SweepFor, Stages
  <2> QED BY <1>5, <1>6, <2>1, <2>2 DEF SweepFor, RoutesOK
<1>7. CASE TimedSweep
  BY <1>5, <1>7 DEF TimedSweep, RoutesOK
<1>8. ASSUME NEW t \in Terms, SweepNext(t) PROVE RoutesOK'
  <2>1. [sweeping EXCEPT !.todo = @ \ {t}] \in SweepType
    BY <1>0 DEF SweepType
  <2> QED BY <1>0, <1>8, <2>1, SweepTypes DEF SweepNext, RoutesOK
<1>9. CASE SweepEnds
  <2>1. sweeping.by \in Calls \/ sweeping.by = Timer
    BY <1>0, <1>9 DEF SweepEnds, SweepType
  <2>2. call' \in CallType
    BY <1>9, <2>1, RouteTypes DEF SweepEnds, Stages, RoutesOK
  <2> QED BY <1>0, <1>9, <2>2, SweepTypes DEF SweepEnds, RoutesOK
<1>10. ASSUME NEW answer \in {"idle", "busy", "unknown"}, ProbeAnswers(answer) PROVE RoutesOK'
  <2>1. [sweeping EXCEPT !.step = IF @ = "probe1" THEN "judge1" ELSE "judge2"] \in SweepType
    BY <1>0 DEF SweepType
  <2> QED BY <1>0, <1>10, <2>1, SweepTypes DEF ProbeAnswers, RoutesOK
<1>11. CASE JudgeFirst
  <2>1. Reclaimable(sweeping.at) => sweeping.at \in Terms
    BY DEF Reclaimable, TableOK
  <2> QED BY <1>0, <1>11, <2>1, SweepTypes DEF JudgeFirst, RoutesOK
<1>12. CASE JudgeSecond
  BY <1>0, <1>12, SweepTypes DEF JudgeSecond, RoutesOK
<1>13. ASSUME NEW t \in Terms,
              \/ Terminate(t) \/ Pin(t) \/ Attach(t) \/ Detach(t)
              \/ Bytes(t) \/ PromptSettles(t) \/ ProcessExits(t)
              \/ \E kind \in {"unsupported", "start", "end", "accept", "prompt"} : Marker(t, kind)
       PROVE  RoutesOK'
  <2>1. UNCHANGED <<call, locks, disposed>> /\ (sweeping' = sweeping \/ sweeping' = Moved(t))
    BY <1>13 DEF Terminate, Pin, Attach, Detach, Bytes, PromptSettles, ProcessExits, Marker
  <2> QED BY <1>0, <2>1, SweepTypes DEF RoutesOK
<1>14. CASE DisposeAll
  BY <1>14 DEF DisposeAll, RoutesOK
<1>15. CASE Tick
  BY <1>15 DEF Tick, RoutesOK
<1>16. CASE UNCHANGED vars
  BY <1>16 DEF vars, RoutesOK
<1> QED
  BY <1>1, <1>2, <1>3, <1>4, <1>6, <1>7, <1>8, <1>9, <1>10, <1>11, <1>12, <1>13, <1>14, <1>15,
     <1>16 DEF Next, HostStep, WorldStep

LEMMA TypedInit == ASSUME Sessions # {}, Init PROVE Typed
<1>1. NoRequest \in [kind : Kinds, session : Sessions, stage : Stages]
  BY DEF NoRequest, Kinds, Stages
<1>2. NoUse \in [use : 0..DetachGrace, io : 0..IdleRetention, exit : 0..ExitRetention]
  BY ConstantsAssumption DEF NoUse
<1>3. NoSweep \in SweepType
  BY DEF NoSweep, SweepType
<1>4. TableOK
  BY <1>2 DEF Init, TableOK
<1>5. [w \in Workspaces |-> << >>] \in [Workspaces -> Seq(Calls)]
  OBVIOUS
<1>6. RoutesOK
  BY <1>1, <1>3, <1>5 DEF Init, RoutesOK
<1> QED BY <1>4, <1>6 DEF Typed

LEMMA TypedHolds == ASSUME Sessions # {} PROVE Spec => []Typed
<1>1. Init => Typed
  BY TypedInit
<1>2. Typed /\ [Next]_vars => Typed'
  BY TableNext, RoutesNext DEF Typed
<1> QED BY <1>1, <1>2, PTL DEF Spec

\* The manager's map, its handles, the calls, locks and the sweep keep their
\* types, whatever interleaves with a sweep's probes.
THEOREM TypeCorrect == ASSUME Sessions # {} PROVE Spec => []TypeOK
<1>1. Typed => TypeOK
  BY DEF Typed, TableOK, RoutesOK, TypeOK
<1> QED BY <1>1, TypedHolds, PTL

-----------------------------------------------------------------------------
(* Shells are never forgotten, and none is started after disposeAll(). *)

\* A step that creates nothing keeps who is where, forgets no running shell and
\* wakes none.
Shrinks ==
  /\ terminals' \subseteq terminals
  /\ \A t \in terminals' :
       /\ handle'[t].workspace = handle[t].workspace
       /\ process[t] = "exited" => process'[t] = "exited"
  /\ \A t \in Terms : process'[t] = "running" =>
       process[t] = "running" /\ (t \in terminals => t \in terminals')

\* ... and most steps leave the reservations alone.
KeepsReservations == \A t \in terminals' : handle'[t].reservedBy = handle[t].reservedBy

LEMMA DropShrinks == ASSUME TableOK, NEW ts, Drop(ts) PROVE Shrinks /\ KeepsReservations
BY DEF Shrinks, KeepsReservations, TableOK, Drop, KilledWith

LEMMA HandleShrinks ==
  ASSUME TableOK, NEW t \in terminals, NEW h \in HandleType, h.workspace = handle[t].workspace,
         handle' = [handle EXCEPT ![t] = h], terminals' = terminals,
         process' = process \/ process' = [process EXCEPT ![t] = "exited"]
  PROVE  Shrinks /\ (h.reservedBy = handle[t].reservedBy => KeepsReservations)
BY DEF Shrinks, KeepsReservations, TableOK

\* What happens to a terminal leaves it in its workspace.
LEMMA WorkspaceKept ==
  ASSUME NEW h \in HandleType
  PROVE  /\ \A s \in Sessions : Reserved(h, s).workspace = h.workspace
         /\ \A a : Observed(h, a).workspace = h.workspace /\ Observed(h, a).reservedBy = h.reservedBy
         /\ Detached(h).workspace = h.workspace /\ Detached(h).reservedBy = h.reservedBy
         /\ Touched(h).workspace = h.workspace /\ Touched(h).reservedBy = h.reservedBy
         /\ \A k : AfterMarker(h, k).workspace = h.workspace
                     /\ AfterMarker(h, k).reservedBy = h.reservedBy
         /\ \A g \in {[h EXCEPT !.views = @ + 1], [h EXCEPT !.pinned = ~@], [h EXCEPT !.prompt = "settled"],
                      [h EXCEPT !.idle = Never, !.prompt = "none", !.activity = "exited", !.exited = 0]} :
              g.workspace = h.workspace /\ g.reservedBy = h.reservedBy
BY DEF HandleType, Reserved, Observed, Detached, Touched, AfterMarker

LEMMA StepShrinks ==
  ASSUME Typed, [Next]_vars
  PROVE  \/ Shrinks /\ (KeepsReservations \/ \E c \in Calls : EnsureReuses(c))
         \/ \E c \in Calls : CreateSpawns(c)
<1> USE DEF Typed
<1> DEFINE Quiet == Shrinks /\ KeepsReservations
<1>1. ASSUME UNCHANGED <<terminals, process, handle>> PROVE Quiet
  BY <1>1 DEF Shrinks, KeepsReservations
<1>2. CASE \E c \in Calls : \/ EnsureRefused(c) \/ EnsureFindsNone(c) \/ ListAnswers(c)
                            \/ SweepWhenDisposed(c)
                            \/ \E s \in Sessions : RequestEnsure(c, s)
                            \/ \E s \in Sessions, kind \in Kinds : RequestSweeping(c, s, kind)
  BY <1>1, <1>2 DEF EnsureRefused, EnsureFindsNone, ListAnswers, SweepWhenDisposed, RequestEnsure,
                    RequestSweeping
<1>3. ASSUME NEW c \in Calls, EnsureReuses(c) PROVE Shrinks
  <2>1. PICK t \in Preferred(WorkspaceFor(c), Requested(c)) :
          handle' = [handle EXCEPT ![t] = Reserved(handle[t], Requested(c))]
    BY <1>3 DEF EnsureReuses
  <2>2. t \in terminals /\ handle[t] \in HandleType /\ Requested(c) \in Sessions
    BY DEF Preferred, LiveIn, In, TableOK, RoutesOK, Requested
  <2> QED BY ZenonT(60), <1>3, <2>1, <2>2, HandlesAfter, WorkspaceKept, HandleShrinks
          DEF EnsureReuses
<1>4. ASSUME NEW c \in Calls, CreateThrows(c) \/ SweepFor(c) PROVE Quiet
  BY <1>1, <1>4, DropShrinks DEF CreateThrows, SweepFor, StartSweep
<1>5. CASE TimedSweep \/ JudgeSecond \/ DisposeAll \/ \E t \in Terms : Terminate(t)
  BY <1>1, <1>5, DropShrinks DEF TimedSweep, StartSweep, JudgeSecond, DisposeAll, Terminate
<1>6. CASE (\E t \in Terms : SweepNext(t)) \/ SweepEnds \/ JudgeFirst
  BY <1>1, <1>6 DEF SweepNext, SweepEnds, JudgeFirst
<1>7. ASSUME NEW answer \in {"idle", "busy", "unknown"}, ProbeAnswers(answer) PROVE Quiet
  <2>1. CASE Void(sweeping.at)
    BY <1>1, <1>7, <2>1 DEF ProbeAnswers
  <2>2. CASE ~Void(sweeping.at)
    <3>1. sweeping.at \in terminals /\ handle[sweeping.at] \in HandleType
      BY <2>2 DEF Void, TableOK
    <3>2. LET h == Observed(handle[sweeping.at], answer) IN
          /\ h \in HandleType /\ h.workspace = handle[sweeping.at].workspace
          /\ h.reservedBy = handle[sweeping.at].reservedBy
      BY ZenonT(60), <3>1, HandlesAfter, WorkspaceKept
    <3>3. /\ handle' = [handle EXCEPT ![sweeping.at] = Observed(handle[sweeping.at], answer)]
          /\ terminals' = terminals /\ process' = process
      BY <1>7, <2>2 DEF ProbeAnswers
    <3> QED BY <3>1, <3>2, <3>3, HandleShrinks
  <2> QED BY <2>1, <2>2
<1>8. CASE Tick
  <2>1. \A t \in terminals : handle'[t].workspace = handle[t].workspace
                              /\ handle'[t].reservedBy = handle[t].reservedBy
    BY <1>8 DEF Tick, TableOK, HandleType
  <2> QED BY <1>8, <2>1 DEF Tick, Shrinks, KeepsReservations
<1>9. ASSUME NEW t \in Terms,
             \/ Pin(t) \/ Attach(t) \/ Detach(t) \/ Bytes(t) \/ PromptSettles(t) \/ ProcessExits(t)
             \/ \E kind \in {"unsupported", "start", "end", "accept", "prompt"} : Marker(t, kind)
      PROVE  Quiet
  <2>1. t \in terminals /\ handle[t] \in HandleType
    BY <1>9 DEF Pin, Attach, Detach, Bytes, PromptSettles, ProcessExits, Marker, Live, TableOK
  <2>2. \E h \in HandleType : /\ h.workspace = handle[t].workspace /\ h.reservedBy = handle[t].reservedBy
                             /\ handle' = [handle EXCEPT ![t] = h]
    <3>1. CASE Pin(t)
      <4>1. handle' = [handle EXCEPT ![t] = [handle[t] EXCEPT !.pinned = ~@]]
        BY <3>1 DEF Pin, TableOK
      <4> QED BY <2>1, <4>1, HandlesAfter, WorkspaceKept
    <3>2. CASE Attach(t)
      <4>1. handle' = [handle EXCEPT ![t] = [handle[t] EXCEPT !.views = @ + 1]]
        BY <3>2 DEF Attach, TableOK
      <4> QED BY <2>1, <3>2, <4>1, HandlesAfter, WorkspaceKept DEF Attach
    <3>3. CASE Detach(t)
      BY <2>1, <3>3, HandlesAfter, WorkspaceKept DEF Detach
    <3>4. CASE Bytes(t)
      BY <2>1, <3>4, HandlesAfter, WorkspaceKept DEF Bytes
    <3>5. CASE PromptSettles(t)
      <4>1. handle' = [handle EXCEPT ![t] = [handle[t] EXCEPT !.prompt = "settled"]]
        BY <3>5 DEF PromptSettles, TableOK
      <4> QED BY <2>1, <4>1, HandlesAfter, WorkspaceKept
    <3>6. CASE ProcessExits(t)
      <4>1. handle' = [handle EXCEPT ![t] = [handle[t] EXCEPT !.idle = Never, !.prompt = "none",
                                                              !.activity = "exited", !.exited = 0]]
        BY <3>6 DEF ProcessExits, TableOK
      <4> QED BY <2>1, <4>1, HandlesAfter, WorkspaceKept
    <3>7. CASE \E kind \in {"unsupported", "start", "end", "accept", "prompt"} : Marker(t, kind)
      BY ZenonT(60), <2>1, <3>7, HandlesAfter, WorkspaceKept DEF Marker
    <3> QED BY <1>9, <3>1, <3>2, <3>3, <3>4, <3>5, <3>6, <3>7
  <2> QED
    BY <1>9, <2>1, <2>2, HandleShrinks
    DEF Pin, Attach, Detach, Bytes, PromptSettles, ProcessExits, Marker
<1>10. CASE UNCHANGED vars
  BY <1>1, <1>10 DEF vars
<1> QED
  BY <1>2, <1>3, <1>4, <1>5, <1>6, <1>7, <1>8, <1>9, <1>10 DEF Next, HostStep, WorldStep

LEMMA NoShellLostNext ==
  ASSUME Typed, NoShellLost, [Next]_vars
  PROVE  NoShellLost'
<1> USE DEF NoShellLost, NoOrphan, NothingAfterDispose, Typed, TableOK
<1>0. DOMAIN process = Terms /\ DOMAIN process' = Terms
  BY TableNext
<1>1. ASSUME NEW c \in Calls, CreateSpawns(c) PROVE NoShellLost'
  <2>1. ~disposed /\ disposed' = disposed
    BY <1>1 DEF CreateSpawns, MayCreate
  <2>2. PICK t \in Terms : /\ terminals' = (terminals \ ExpiredIn(Workspaces)) \cup {t}
                           /\ process' = [process EXCEPT ![t] = "running"]
    BY <1>1 DEF CreateSpawns
  <2>3. \A u \in ExpiredIn(Workspaces) : process[u] = "exited"
    BY DEF ExpiredIn, Expired, Exited
  <2> QED BY <1>0, <2>1, <2>2, <2>3
<1>2. CASE Shrinks
  <2>1. CASE disposed' = disposed
    BY <1>0, <1>2, <2>1 DEF Shrinks
  <2>2. CASE DisposeAll
    <3>1. terminals' = {}
      BY <2>2 DEF DisposeAll, Drop
    <3>2. \A t \in Terms : process'[t] # "running"
      BY <1>0, <1>2, <3>1 DEF Shrinks
    <3> QED BY <1>0, <3>1, <3>2
  <2>3. disposed' = disposed \/ DisposeAll
    BY DEF Next, HostStep, WorldStep, vars, EnsureRefused, EnsureReuses, EnsureFindsNone, CreateThrows,
           CreateSpawns, ListAnswers, SweepFor, SweepWhenDisposed, TimedSweep, SweepNext, SweepEnds,
           ProbeAnswers, JudgeFirst, JudgeSecond, RequestSweeping, RequestEnsure, Terminate, Pin,
           Attach, Detach, Bytes, PromptSettles, ProcessExits, Marker, Tick
  <2> QED BY <2>1, <2>2, <2>3
<1> QED BY <1>1, <1>2, StepShrinks

\* Every running shell is on the manager's map, where terminate() finds it, and
\* none runs once disposeAll() has been called: a route that awaited a sweep or
\* the workspace's lock then refuses (workspace-terminal.ts).
THEOREM NoShellLostHolds == ASSUME Sessions # {} PROVE Spec => []NoShellLost
<1>1. Init => NoShellLost
  BY DEF Init, NoShellLost, NoOrphan, NothingAfterDispose
<1>2. Typed /\ NoShellLost /\ [Next]_vars => NoShellLost'
  BY NoShellLostNext
<1> QED BY <1>1, <1>2, TypedHolds, PTL DEF Spec

-----------------------------------------------------------------------------
(* The live limits. *)

LEMMA LiveLimitsNext ==
  ASSUME Typed, LiveLimits, [Next]_vars
  PROVE  LiveLimits'
<1> USE DEF Typed, TableOK
<1>0. IsFiniteSet(terminals) /\ IsFiniteSet(Live) /\ \A w : IsFiniteSet(LiveIn(w))
  <2>1. IsFiniteSet(terminals)
    BY ConstantsAssumption, FS_Subset
  <2> QED BY <2>1, FS_Subset DEF Live, LiveIn, In
<1>1. CASE Shrinks
  <2>1. Live' \subseteq Live /\ \A w \in Workspaces : LiveIn(w)' \subseteq LiveIn(w)
    BY <1>1 DEF Shrinks, Live, LiveIn, In, Exited
  <2>2. Cardinality(Live') <= Cardinality(Live) /\ Cardinality(Live') \in Nat /\ Cardinality(Live) \in Nat
    BY <1>0, <2>1, FS_Subset, FS_CardinalityType
  <2>3. ASSUME NEW w \in Workspaces
        PROVE  /\ Cardinality(LiveIn(w)') <= Cardinality(LiveIn(w))
               /\ Cardinality(LiveIn(w)') \in Nat /\ Cardinality(LiveIn(w)) \in Nat
    BY <1>0, <2>1, FS_Subset, FS_CardinalityType
  <2> QED BY <2>2, <2>3, ConstantsAssumption DEF LiveLimits
<1>2. ASSUME NEW c \in Calls, CreateSpawns(c) PROVE LiveLimits'
  <2> DEFINE gone == ExpiredIn(Workspaces)
             w == WorkspaceFor(c)
             left == terminals \ gone
  <2>1. PICK t \in Terms, integrated \in Integrations :
          /\ process[t] = "none"
          /\ terminals' = (terminals \ gone) \cup {t}
          /\ process' = [process EXCEPT ![t] = "running"]
          /\ handle' = [u \in Terms |->
                IF u = t THEN Fresh(Requested(c), call[c].kind = "ensure", integrated)
                ELSE IF u \in gone THEN Blank ELSE handle[u]]
    BY ONLY <1>2 DEF CreateSpawns
  <2>2. ~LimitReached(w, left)
    BY <1>2 DEF CreateSpawns, MayCreate
  <2>3. \A u \in gone : Exited(u)
    BY DEF ExpiredIn, Expired
  <2>4. handle'[t].workspace = w
    BY <2>1 DEF Fresh, Requested, WorkspaceFor
  <2> HIDE DEF gone, w, left
  <2>5. {u \in left : ~Exited(u)} = Live
    BY <2>3 DEF left, Live
  <2>6. {u \in left : handle[u].workspace = w} \cap {u \in left : ~Exited(u)} = LiveIn(w)
    BY <2>3 DEF left, LiveIn, Live, In
  <2>7. /\ ~(Cardinality(LiveIn(w)) >= MaxPerWorkspace) /\ ~(Cardinality(Live) >= MaxGlobal)
    BY <2>2, <2>5, <2>6 DEF LimitReached
  <2>8. Live' \subseteq Live \cup {t}
    BY <2>1 DEF Live, Exited
  <2>9. \A v : LiveIn(v)' \subseteq LiveIn(v) \cup {t} /\ (v # w => LiveIn(v)' \subseteq LiveIn(v))
    BY <2>1, <2>4 DEF Live, LiveIn, In, Exited
  <2>10. ASSUME NEW S, IsFiniteSet(S), NEW T, T \subseteq S \cup {t}
         PROVE  /\ Cardinality(T) \in Nat /\ Cardinality(S) \in Nat
                /\ Cardinality(T) <= Cardinality(S) + 1
    <3>1. IsFiniteSet(S \cup {t}) /\ Cardinality(S \cup {t}) <= Cardinality(S) + 1 /\ Cardinality(S) \in Nat
      <4>1. Cardinality(S) \in Nat
        BY <2>10, FS_CardinalityType
      <4>2. /\ IsFiniteSet(S \cup {t})
            /\ Cardinality(S \cup {t}) = IF t \in S THEN Cardinality(S) ELSE Cardinality(S) + 1
        BY <2>10, FS_AddElement
      <4> QED BY <4>1, <4>2
    <3>2. IsFiniteSet(T) /\ Cardinality(T) <= Cardinality(S \cup {t})
      BY <2>10, <3>1, FS_Subset
    <3>3. Cardinality(T) \in Nat /\ Cardinality(S \cup {t}) \in Nat
      BY <3>1, <3>2, FS_CardinalityType
    <3> QED BY <3>1, <3>2, <3>3
  <2>11. Cardinality(Live') <= MaxGlobal
    <3>1. /\ Cardinality(Live') \in Nat /\ Cardinality(Live) \in Nat
          /\ Cardinality(Live') <= Cardinality(Live) + 1
      BY <1>0, <2>8, <2>10
    <3> QED BY <2>7, <3>1, ConstantsAssumption
  <2>12. ASSUME NEW v \in Workspaces PROVE Cardinality(LiveIn(v)') <= MaxPerWorkspace
    <3>1. /\ Cardinality(LiveIn(v)') \in Nat /\ Cardinality(LiveIn(v)) \in Nat
          /\ Cardinality(LiveIn(v)') <= Cardinality(LiveIn(v)) + 1
      BY <1>0, <2>9, <2>10
    <3>2. CASE v = w
      BY <2>7, <3>1, <3>2, ConstantsAssumption
    <3>3. CASE v # w
      <4>1. Cardinality(LiveIn(v)') <= Cardinality(LiveIn(v))
        BY <1>0, <2>9, <3>3, FS_Subset
      <4> QED BY <3>1, <4>1, ConstantsAssumption DEF LiveLimits
    <3> QED BY <3>2, <3>3
  <2> QED BY <2>11, <2>12 DEF LiveLimits
<1> QED BY <1>1, <1>2, StepShrinks

\* The live limits of a workspace and of the host hold, however many calls
\* await their sweeps at once: create() counts after its last await.
THEOREM LiveLimitsHold == ASSUME Sessions # {} PROVE Spec => []LiveLimits
<1>1. Init => LiveLimits
  <2> SUFFICES ASSUME Init PROVE LiveLimits
    OBVIOUS
  <2>1. Live = {} /\ \A w : LiveIn(w) = {}
    BY DEF Init, Live, LiveIn, In
  <2> QED BY <2>1, FS_EmptySet, ConstantsAssumption DEF LiveLimits
<1>2. Typed /\ LiveLimits /\ [Next]_vars => LiveLimits'
  BY LiveLimitsNext
<1> QED BY <1>1, <1>2, TypedHolds, PTL DEF Spec

-----------------------------------------------------------------------------
(* One reservation for a conversation. *)

\* An ensure that found no terminal and is on its way to create one.
Making(c) == call[c].kind = "ensure" /\ call[c].stage \in {"sweep", "sweeping", "swept"}

\* It holds its workspace's lock; who runs a sweep awaits it.
Held ==
  /\ \A c \in Calls : Making(c) => locks[WorkspaceFor(c)] # << >> /\ Head(locks[WorkspaceFor(c)]) = c
  /\ sweeping.by \in Calls => call[sweeping.by].stage = "sweeping"

\* What a step does to a call that is making a terminal, and to its lock.
LEMMA MakingNext ==
  ASSUME Typed, Held, [Next]_vars, NEW c \in Calls, Making(c)'
  PROVE  /\ Requested(c)' = Requested(c)
         /\ Making(c) \/ EnsureFindsNone(c)
<1> USE DEF Typed, RoutesOK
<1>1. ASSUME UNCHANGED call PROVE Making(c) /\ Requested(c)' = Requested(c)
  BY <1>1 DEF Making, Requested
<1>2. ASSUME NEW d \in Calls, call' = Finish(d) PROVE Making(c) /\ Requested(c)' = Requested(c)
  BY <1>2 DEF Making, Requested, Finish, NoRequest
<1>3. ASSUME NEW d \in Calls, NEW g, call' = Goto(d, g), call[d].stage \in {"sweep", "sweeping"}
      PROVE  Making(c) /\ Requested(c)' = Requested(c)
  BY <1>3 DEF Making, Requested, Goto
<1>4. ASSUME NEW d \in Calls,
             EnsureRefused(d) \/ EnsureReuses(d) \/ CreateThrows(d) \/ CreateSpawns(d) \/ ListAnswers(d)
      PROVE  Making(c) /\ Requested(c)' = Requested(c)
  BY <1>2, <1>4 DEF EnsureRefused, EnsureReuses, CreateThrows, CreateSpawns, ListAnswers
<1>5. ASSUME NEW d \in Calls, EnsureFindsNone(d)
      PROVE  Requested(c)' = Requested(c) /\ (Making(c) \/ EnsureFindsNone(c))
  BY <1>5 DEF EnsureFindsNone, Goto, Making, Requested
<1>6. ASSUME NEW d \in Calls, SweepFor(d) \/ SweepWhenDisposed(d) PROVE Making(c) /\ Requested(c)' = Requested(c)
  BY <1>3, <1>6 DEF SweepFor, SweepWhenDisposed
<1>7. CASE SweepEnds
  <2>1. call' = call \/ (sweeping.by \in Calls /\ call' = Goto(sweeping.by, "swept"))
    BY <1>7 DEF SweepEnds, SweepType
  <2> QED BY <1>1, <1>3, <2>1 DEF Held
<1>8. ASSUME NEW d \in Calls, NEW s \in Sessions,
             RequestEnsure(d, s) \/ \E kind \in Kinds : RequestSweeping(d, s, kind)
      PROVE  Making(c) /\ Requested(c)' = Requested(c)
  BY <1>8 DEF RequestEnsure, RequestSweeping, Making, Requested
<1>9. CASE \/ TimedSweep \/ JudgeFirst \/ JudgeSecond \/ DisposeAll \/ Tick \/ UNCHANGED vars
           \/ \E answer \in {"idle", "busy", "unknown"} : ProbeAnswers(answer)
           \/ \E t \in Terms :
                \/ SweepNext(t) \/ Terminate(t) \/ Pin(t) \/ Attach(t) \/ Detach(t)
                \/ Bytes(t) \/ PromptSettles(t) \/ ProcessExits(t)
                \/ \E kind \in {"unsupported", "start", "end", "accept", "prompt"} : Marker(t, kind)
  BY <1>1, <1>9 DEF TimedSweep, JudgeFirst, JudgeSecond, DisposeAll, Tick, vars, ProbeAnswers, SweepNext,
                    Terminate, Pin, Attach, Detach, Bytes, PromptSettles, ProcessExits, Marker
<1> QED BY <1>4, <1>5, <1>6, <1>7, <1>8, <1>9 DEF Next, HostStep, WorldStep

\* Only the holder's end takes the head of a lock away.
LEMMA LocksNext ==
  ASSUME Typed, [Next]_vars, NEW w \in Workspaces, locks[w] # << >>
  PROVE  \/ locks'[w] # << >> /\ Head(locks'[w]) = Head(locks[w])
         \/ Head(locks[w]) \in Calls /\ call' = Finish(Head(locks[w]))
<1> USE DEF Typed, RoutesOK
<1>0. locks[w] \in Seq(Calls) /\ Head(locks[w]) \in Calls
  OBVIOUS
<1>1. ASSUME UNCHANGED locks PROVE locks'[w] # << >> /\ Head(locks'[w]) = Head(locks[w])
  BY <1>1
<1>2. ASSUME NEW d \in Calls, locks' = Unlocked(d), call' = Finish(d)
      PROVE  \/ locks'[w] # << >> /\ Head(locks'[w]) = Head(locks[w])
             \/ Head(locks[w]) \in Calls /\ call' = Finish(Head(locks[w]))
  BY <1>0, <1>2 DEF Unlocked
<1>3. ASSUME NEW d \in Calls, NEW s \in Sessions, RequestEnsure(d, s)
      PROVE  locks'[w] # << >> /\ Head(locks'[w]) = Head(locks[w])
  <2>1. locks'[w] = locks[w] \/ locks'[w] = Append(locks[w], d)
    BY <1>3, ConstantsAssumption DEF RequestEnsure
  <2>2. Append(locks[w], d) # << >> /\ Head(Append(locks[w], d)) = Head(locks[w])
    BY <1>0
  <2> QED BY <2>1, <2>2
<1>4. CASE \E d \in Calls : EnsureRefused(d) \/ EnsureReuses(d) \/ CreateThrows(d) \/ CreateSpawns(d)
  BY <1>2, <1>4 DEF EnsureRefused, EnsureReuses, CreateThrows, CreateSpawns
<1>5. CASE \/ \E d \in Calls : \/ EnsureFindsNone(d) \/ ListAnswers(d) \/ SweepFor(d) \/ SweepWhenDisposed(d)
                               \/ \E s \in Sessions, kind \in Kinds : RequestSweeping(d, s, kind)
           \/ SweepEnds \/ TimedSweep \/ JudgeFirst \/ JudgeSecond \/ DisposeAll \/ Tick \/ UNCHANGED vars
           \/ \E answer \in {"idle", "busy", "unknown"} : ProbeAnswers(answer)
           \/ \E t \in Terms :
                \/ SweepNext(t) \/ Terminate(t) \/ Pin(t) \/ Attach(t) \/ Detach(t)
                \/ Bytes(t) \/ PromptSettles(t) \/ ProcessExits(t)
                \/ \E kind \in {"unsupported", "start", "end", "accept", "prompt"} : Marker(t, kind)
  BY <1>1, <1>5 DEF EnsureFindsNone, ListAnswers, SweepFor, SweepWhenDisposed, RequestSweeping, SweepEnds,
                    TimedSweep, JudgeFirst, JudgeSecond, DisposeAll, Tick, vars, ProbeAnswers, SweepNext,
                    Terminate, Pin, Attach, Detach, Bytes, PromptSettles, ProcessExits, Marker
<1> QED BY <1>3, <1>4, <1>5 DEF Next, HostStep, WorldStep

LEMMA HeldNext == ASSUME Typed, Held, [Next]_vars PROVE Held'
<1>1. ASSUME NEW c \in Calls, Making(c)'
      PROVE  locks'[WorkspaceFor(c)'] # << >> /\ Head(locks'[WorkspaceFor(c)']) = c
  <2> DEFINE w == WorkspaceFor(c)
  <2>1. WorkspaceFor(c)' = w /\ w \in Workspaces /\ (Making(c) \/ EnsureFindsNone(c))
    BY <1>1, MakingNext, ConstantsAssumption DEF WorkspaceFor, Requested, Typed, RoutesOK
  <2>2. CASE EnsureFindsNone(c)
    <3>1. locks[w] # << >> /\ Head(locks[w]) = c /\ locks' = locks
      BY <2>2 DEF EnsureFindsNone, HoldsLock
    <3> QED BY <2>1, <3>1
  <2>3. CASE Making(c)
    <3>1. locks[w] # << >> /\ Head(locks[w]) = c
      BY <2>3 DEF Held
    <3>2. call' # Finish(c)
      BY <1>1 DEF Making, Finish, NoRequest, Typed, RoutesOK
    <3> QED BY <2>1, <3>1, <3>2, LocksNext
  <2> QED BY <2>1, <2>2, <2>3
<1>2. ASSUME sweeping'.by \in Calls PROVE call'[sweeping'.by].stage = "sweeping"
  <2> USE DEF Typed, RoutesOK
  <2>1. NoSweep.by \notin Calls
    BY ConstantsAssumption DEF NoSweep
  <2>2. ASSUME sweeping'.by = sweeping.by,
               call'[sweeping.by] = call[sweeping.by] \/ call'[sweeping.by].stage = "sweeping"
        PROVE  call'[sweeping'.by].stage = "sweeping"
    BY <1>2, <2>2 DEF Held
  <2>3. \A t : Moved(t).by = sweeping.by /\ Probing(t, "probe1").by = sweeping.by
                 /\ Probing(t, "probe2").by = sweeping.by /\ Onward.by = sweeping.by
    BY DEF Moved, Probing, Onward, SweepType
  <2>4. ASSUME NEW d \in Calls, call[d].stage # "sweeping", NEW q \in Calls, call[q].stage = "sweeping"
        PROVE  Finish(d)[q] = call[q] /\ \A g : Goto(d, g)[q] = call[q]
    BY <2>4 DEF Finish, Goto
  <2>5. CASE \E d \in Calls :
               \/ EnsureRefused(d) \/ EnsureReuses(d) \/ EnsureFindsNone(d) \/ CreateThrows(d)
               \/ CreateSpawns(d) \/ ListAnswers(d) \/ SweepWhenDisposed(d)
    <3>1. PICK d \in Calls :
               \/ EnsureRefused(d) \/ EnsureReuses(d) \/ EnsureFindsNone(d) \/ CreateThrows(d)
               \/ CreateSpawns(d) \/ ListAnswers(d) \/ SweepWhenDisposed(d)
      BY <2>5
    <3>2. /\ call[d].stage \in {"locked", "swept", "sweep"}
          /\ call' = Finish(d) \/ \E g : call' = Goto(d, g)
      BY <3>1 DEF EnsureRefused, EnsureReuses, EnsureFindsNone, CreateThrows, CreateSpawns, MayCreate,
                  ListAnswers, SweepWhenDisposed, HoldsLock
    <3>3. sweeping' = sweeping \/ \E t : sweeping' = Moved(t)
      BY <3>1 DEF EnsureRefused, EnsureReuses, EnsureFindsNone, CreateThrows, CreateSpawns,
                  ListAnswers, SweepWhenDisposed
    <3>4. sweeping'.by = sweeping.by
      BY <2>3, <3>3
    <3>5. call[sweeping.by].stage = "sweeping"
      BY <1>2, <3>4 DEF Held
    <3> QED BY <1>2, <2>2, <2>4, <3>2, <3>4, <3>5
  <2>6. ASSUME NEW d \in Calls, SweepFor(d) PROVE call'[sweeping'.by].stage = "sweeping"
    <3>1. sweeping'.by = d
      BY <2>6 DEF SweepFor, StartSweep, NoSweep
    <3> QED BY <2>6, <3>1 DEF SweepFor, Goto
  <2>7. CASE TimedSweep \/ SweepEnds
    <3>1. CASE TimedSweep
      <4>1. sweeping' = [NoSweep EXCEPT !.by = Timer, !.scope = Workspaces,
                                        !.todo = terminals \ ExpiredIn(Workspaces)]
        BY <3>1 DEF TimedSweep, StartSweep
      <4>2. sweeping'.by = Timer
        BY <4>1 DEF NoSweep
      <4> QED BY <1>2, <4>2, ConstantsAssumption
    <3>2. CASE SweepEnds
      <4>1. sweeping'.by = NoCall
        BY <3>2 DEF SweepEnds, NoSweep
      <4> QED BY <1>2, <4>1, ConstantsAssumption
    <3> QED BY <2>7, <3>1, <3>2
  <2>8. ASSUME NEW d \in Calls, NEW s \in Sessions,
               RequestEnsure(d, s) \/ \E kind \in Kinds : RequestSweeping(d, s, kind)
        PROVE  call'[sweeping'.by].stage = "sweeping"
    <3>1. sweeping' = sweeping /\ call[d].stage = "none" /\ \E r : call' = [call EXCEPT ![d] = r]
      BY <2>8 DEF RequestEnsure, RequestSweeping
    <3> QED BY <1>2, <2>2, <3>1 DEF Held
  <2>9. CASE \/ JudgeFirst \/ JudgeSecond \/ DisposeAll \/ Tick \/ UNCHANGED vars
             \/ \E answer \in {"idle", "busy", "unknown"} : ProbeAnswers(answer)
             \/ \E t \in Terms :
                  \/ SweepNext(t) \/ Terminate(t) \/ Pin(t) \/ Attach(t) \/ Detach(t)
                  \/ Bytes(t) \/ PromptSettles(t) \/ ProcessExits(t)
                  \/ \E kind \in {"unsupported", "start", "end", "accept", "prompt"} : Marker(t, kind)
    <3>1. call' = call
      BY <2>9 DEF JudgeFirst, JudgeSecond, DisposeAll, Tick, vars, ProbeAnswers, SweepNext,
                  Terminate, Pin, Attach, Detach, Bytes, PromptSettles, ProcessExits, Marker
    <3>2. \/ sweeping' = sweeping \/ sweeping' = Onward
          \/ \E t : sweeping' = Moved(t) \/ sweeping' = Probing(t, "probe1") \/ sweeping' = Probing(t, "probe2")
          \/ \E step : sweeping' = [sweeping EXCEPT !.step = step]
          \/ \E todo : sweeping' = [sweeping EXCEPT !.todo = todo]
      BY <2>9 DEF JudgeFirst, JudgeSecond, DisposeAll, Tick, vars, ProbeAnswers, SweepNext,
                  Terminate, Pin, Attach, Detach, Bytes, PromptSettles, ProcessExits, Marker
    <3>3. sweeping'.by = sweeping.by
      BY <2>3, <3>2 DEF SweepType
    <3> QED BY <2>2, <3>1, <3>3
  <2> QED BY <2>5, <2>6, <2>7, <2>8, <2>9 DEF Next, HostStep, WorldStep
<1> QED BY <1>1, <1>2 DEF Held

\* A conversation's reservation is in its workspace, and where an ensure is
\* making a terminal no living one is reserved.
Reservations ==
  /\ OneReservation
  /\ \A t \in terminals :
       handle[t].reservedBy # NoSession => WorkspaceOf[handle[t].reservedBy] = handle[t].workspace
  /\ \A c \in Calls : Making(c) =>
       \A t \in LiveIn(WorkspaceFor(c)) : handle[t].reservedBy = NoSession

LEMMA ReservationsNext ==
  ASSUME Typed, Typed', Held, Held', Reservations, [Next]_vars
  PROVE  Reservations'
<1> USE DEF Typed, TableOK
<1>0. ASSUME NEW c \in Calls, Making(c)'
      PROVE  WorkspaceFor(c)' = WorkspaceFor(c) /\ (Making(c) \/ EnsureFindsNone(c))
  BY <1>0, MakingNext DEF WorkspaceFor, Requested
<1>a. ASSUME NEW c \in Calls, Making(c)', NEW t \in LiveIn(WorkspaceFor(c)) PROVE handle[t].reservedBy = NoSession
  BY <1>0, <1>a DEF Reservations, EnsureFindsNone
<1>1. CASE Shrinks /\ KeepsReservations
  <2>1. /\ Live' \subseteq Live /\ terminals' \subseteq terminals
        /\ \A t \in terminals' : handle'[t].workspace = handle[t].workspace
                              /\ handle'[t].reservedBy = handle[t].reservedBy
    BY <1>1 DEF Shrinks, KeepsReservations, Live, Exited
  <2>2. OneReservation'
    BY <2>1 DEF Reservations, OneReservation, Live
  <2>3. ASSUME NEW c \in Calls, Making(c)', NEW t \in LiveIn(WorkspaceFor(c))'
        PROVE  handle'[t].reservedBy = NoSession
    BY ZenonT(60), <1>0, <1>a, <2>1, <2>3 DEF LiveIn, In, Live
  <2> QED BY <2>1, <2>2, <2>3 DEF Reservations
<1>2. ASSUME NEW d \in Calls, EnsureReuses(d) PROVE Reservations'
  <2> DEFINE w == WorkspaceFor(d)
             s == Requested(d)
  <2>1. PICK t \in Preferred(w, s) : handle' = [handle EXCEPT ![t] = Reserved(handle[t], s)]
    BY <1>2 DEF EnsureReuses
  <2>2. /\ terminals' = terminals /\ process' = process /\ Live' = Live
        /\ t \in LiveIn(w) /\ t \in terminals /\ handle[t] \in HandleType /\ handle[t].workspace = w
        /\ s \in Sessions /\ s # NoSession /\ WorkspaceOf[s] = w
    <3>1. terminals' = terminals /\ process' = process
      BY <1>2 DEF EnsureReuses
    <3>2. Live' = Live
      BY <3>1 DEF Live, Exited
    <3>3. t \in LiveIn(w)
      BY DEF Preferred
    <3>4. t \in terminals /\ handle[t].workspace = w
      BY <3>3 DEF LiveIn, In
    <3>5. s \in Sessions /\ WorkspaceOf[s] = w
      BY DEF RoutesOK, Requested, WorkspaceFor
    <3>6. s # NoSession
      BY <3>5, ConstantsAssumption
    <3> QED BY <3>1, <3>2, <3>3, <3>4, <3>5, <3>6
  <2>3. /\ \A u \in terminals \ {t} : handle'[u] = handle[u]
        /\ handle'[t].workspace = w
        /\ handle'[t].reservedBy = IF handle[t].reservedBy = NoSession THEN s ELSE handle[t].reservedBy
    BY <2>1, <2>2 DEF Reserved, HandleType
  <2>4. ASSUME handle[t].reservedBy = NoSession, NEW u \in Live, handle[u].reservedBy = s PROVE FALSE
    <3>1. handle[u].workspace = w
      BY <2>2, <2>4 DEF Reservations, Live
    <3>2. u \in LiveIn(w)
      BY <2>4, <3>1 DEF LiveIn, In, Live
    <3> QED BY <2>1, <2>2, <2>4, <3>2 DEF Preferred
  <2>5. OneReservation'
    <3> SUFFICES ASSUME NEW u \in Live, NEW v \in Live, handle'[u].reservedBy = handle'[v].reservedBy,
                        handle'[u].reservedBy # NoSession
                 PROVE u = v
      BY <2>2 DEF OneReservation
    <3>1. u \in terminals /\ v \in terminals /\ t \in Live
      BY <2>2 DEF Live, LiveIn
    <3>2. CASE u # t /\ v # t
      BY ZenonT(60), <2>3, <3>1, <3>2 DEF Reservations, OneReservation
    <3>3. CASE handle[t].reservedBy # NoSession
      <4>1. handle'[t].reservedBy = handle[t].reservedBy
        BY <2>3, <3>3
      <4>2. handle'[u].reservedBy = handle[u].reservedBy /\ handle'[v].reservedBy = handle[v].reservedBy
        BY <2>3, <3>1, <4>1
      <4> QED BY <4>2 DEF Reservations, OneReservation
    <3>4. CASE handle[t].reservedBy = NoSession /\ (u = t \/ v = t)
      <4>1. handle'[t].reservedBy = s
        BY <2>3, <3>4
      <4>2. \A x \in Live : x # t => handle'[x].reservedBy # s
        BY <2>3, <2>4, <3>4 DEF Live
      <4> QED BY <3>4, <4>1, <4>2
    <3> QED BY <3>2, <3>3, <3>4
  <2>6. ASSUME NEW u \in terminals, handle'[u].reservedBy # NoSession
        PROVE  WorkspaceOf[handle'[u].reservedBy] = handle'[u].workspace
    <3>1. CASE u = t /\ handle[t].reservedBy = NoSession
      BY <2>2, <2>3, <3>1
    <3>2. CASE u # t \/ handle[t].reservedBy # NoSession
      <4>1. handle'[u].reservedBy = handle[u].reservedBy /\ handle'[u].workspace = handle[u].workspace
        BY <2>2, <2>3, <3>2
      <4> QED BY <2>6, <4>1 DEF Reservations
    <3> QED BY <3>1, <3>2
  <2>7. ASSUME NEW c \in Calls, Making(c)', NEW u \in LiveIn(WorkspaceFor(c))'
        PROVE  handle'[u].reservedBy = NoSession
    <3>1. u \in terminals /\ u \in Live /\ handle'[u].workspace = WorkspaceFor(c)
      BY <1>0, <2>2, <2>7 DEF LiveIn, In
    <3>2. c # d
      BY <1>2, <2>7 DEF EnsureReuses, Making, Finish, NoRequest, RoutesOK
    <3>3. call[d].stage = "locked" /\ Head(locks[w]) = d
      BY <1>2 DEF EnsureReuses, HoldsLock
    <3>4. Making(c)
      <4>1. call'[c] = call[c]
        BY <1>2, <3>2 DEF EnsureReuses, Finish, RoutesOK
      <4> QED BY <2>7, <4>1 DEF Making
    <3>5. WorkspaceFor(c) # w
      BY <3>2, <3>3, <3>4 DEF Held
    <3>6. u # t
      BY <2>3, <3>1, <3>5
    <3>7. u \in LiveIn(WorkspaceFor(c))
      BY <2>3, <3>1, <3>6 DEF LiveIn, In
    <3> QED BY <1>a, <2>3, <2>7, <3>1, <3>6, <3>7
  <2> QED BY <2>2, <2>5, <2>6, <2>7 DEF Reservations
<1>3. ASSUME NEW d \in Calls, CreateSpawns(d) PROVE Reservations'
  <2> DEFINE gone == ExpiredIn(Workspaces)
  <2>1. PICK t \in Terms, integrated \in Integrations :
          /\ process[t] = "none"
          /\ terminals' = (terminals \ gone) \cup {t}
          /\ process' = [process EXCEPT ![t] = "running"]
          /\ handle' = [u \in Terms |->
                IF u = t THEN Fresh(Requested(d), call[d].kind = "ensure", integrated)
                ELSE IF u \in gone THEN Blank ELSE handle[u]]
    BY ONLY <1>3 DEF CreateSpawns
  <2> DEFINE w == WorkspaceFor(d)
             s == Requested(d)
  <2>2. /\ handle'[t].workspace = w
        /\ handle'[t].reservedBy = IF call[d].kind = "ensure" THEN s ELSE NoSession
        /\ WorkspaceOf[s] = w
    BY <2>1 DEF Fresh, Requested, WorkspaceFor
  <2> HIDE DEF gone
  <2>3. /\ \A u \in terminals' \ {t} : u \in terminals /\ handle'[u] = handle[u]
        /\ \A u \in Live' \ {t} : u \in Live
    BY <2>1 DEF Live, Exited
  <2>4. call[d].kind = "ensure" => Making(d)
    BY <1>3 DEF CreateSpawns, MayCreate, Making
  <2>5. ASSUME call[d].kind = "ensure", NEW u \in Live, handle[u].reservedBy = s, s # NoSession PROVE FALSE
    <3>1. handle[u].workspace = w
      BY <2>2, <2>5 DEF Reservations, Live
    <3>2. u \in LiveIn(w)
      BY <3>1 DEF LiveIn, In, Live
    <3> QED BY <2>4, <2>5, <3>2 DEF Reservations
  <2>6. OneReservation'
    <3> SUFFICES ASSUME NEW u \in Live', NEW v \in Live', handle'[u].reservedBy = handle'[v].reservedBy,
                        handle'[u].reservedBy # NoSession
                 PROVE u = v
      BY DEF OneReservation
    <3>1. u \in terminals' /\ v \in terminals'
      BY DEF Live
    <3>2. CASE u # t /\ v # t
      <4>1. u \in Live /\ v \in Live /\ handle[u].reservedBy = handle[v].reservedBy /\ handle[u].reservedBy # NoSession
        BY <2>3, <3>1, <3>2
      <4> QED BY <4>1 DEF Reservations, OneReservation
    <3>3. CASE u = t \/ v = t
      <4>1. handle'[t].reservedBy = s /\ s # NoSession /\ call[d].kind = "ensure"
        BY <2>2, <3>3
      <4>2. \A x \in Live' : x # t => handle'[x].reservedBy # s
        BY <2>3, <2>5, <4>1 DEF Live
      <4> QED BY <3>3, <4>1, <4>2
    <3> QED BY <3>2, <3>3
  <2>7. ASSUME NEW u \in terminals', handle'[u].reservedBy # NoSession
        PROVE  WorkspaceOf[handle'[u].reservedBy] = handle'[u].workspace
    BY <2>2, <2>3, <2>7 DEF Reservations
  <2>8. ASSUME NEW c \in Calls, Making(c)', NEW u \in LiveIn(WorkspaceFor(c))'
        PROVE  handle'[u].reservedBy = NoSession
    <3>1. u \in Live' /\ u \in terminals' /\ handle'[u].workspace = WorkspaceFor(c)
      BY <1>0, <2>8 DEF LiveIn, In
    <3>2. c # d
      BY <1>3, <2>8 DEF CreateSpawns, Making, Finish, NoRequest, RoutesOK
    <3>3. Making(c)
      <4>1. call'[c] = call[c]
        BY <1>3, <3>2 DEF CreateSpawns, Finish, RoutesOK
      <4> QED BY <2>8, <4>1 DEF Making
    <3>4. CASE u = t
      <4>1. w = WorkspaceFor(c)
        BY <2>2, <3>1, <3>4
      <4>2. call[d].kind # "ensure"
        BY <2>4, <3>2, <3>3, <4>1 DEF Held
      <4> QED BY <2>2, <3>4, <4>2
    <3>5. CASE u # t
      <4>1. u \in LiveIn(WorkspaceFor(c))
        BY <2>3, <3>1, <3>5 DEF LiveIn, In
      <4> QED BY <1>a, <2>3, <2>8, <3>1, <3>5, <4>1
    <3> QED BY <3>4, <3>5
  <2> QED BY <2>6, <2>7, <2>8 DEF Reservations
<1> QED BY <1>1, <1>2, <1>3, StepShrinks

\* A conversation's ensure calls and others' creations race through sweeps and
\* probes; the workspace's lock still leaves it one reservation at most
\* (ensure() of workspace-terminal.ts).
THEOREM OneReservationHolds == ASSUME Sessions # {} PROVE Spec => []OneReservation
<1>1. Init => Held /\ Reservations
  BY ConstantsAssumption
  DEF Init, Held, Reservations, OneReservation, Live, LiveIn, In, Making, NoRequest, NoSweep
<1>2. Typed /\ Held /\ [Next]_vars => Held'
  BY HeldNext
<1>3. Typed /\ Typed' /\ Held /\ Held' /\ Reservations /\ [Next]_vars => Reservations'
  BY ReservationsNext
<1>4. Reservations => OneReservation
  BY DEF Reservations
<1> QED BY <1>1, <1>2, <1>3, <1>4, TypedHolds, PTL DEF Spec

\* However calls, sweeps and probes race, no terminal is one too many: not over
\* a workspace's or the manager's limit, and not beside a reservation.
THEOREM NoneTooManyHolds == ASSUME Sessions # {} PROVE Spec => []NoneTooMany
<1>1. LiveLimits /\ OneReservation => NoneTooMany
  BY DEF NoneTooMany
<1> QED BY <1>1, LiveLimitsHold, OneReservationHolds, PTL

-----------------------------------------------------------------------------
(* What a sweep removes was unused: the ages a handle keeps are those of    *)
(* its history, and an idle age exists only at a proven prompt.            *)

HistoryType == [use : 0..DetachGrace, io : 0..IdleRetention, exit : 0..ExitRetention]

\* The handle h keeps no age greater than the history u tells: out, whether the
\* shell has exited.
Honest(h, u, out) ==
  /\ h.views > 0 \/ u.use >= DetachGrace \/ u.use \in {h.acquired, h.detached}
  /\ h.idle <= u.io
  /\ IF out THEN u.exit >= ExitRetention \/ h.exited = u.exit ELSE u.exit = 0
  /\ h.idle # Never => h.prompt = "settled"
  /\ h.prompt # "none" => h.hook = "idle"
Honesty == \A t \in terminals : Honest(handle[t], wanted[t], Exited(t))

\* An id is used once, so what a sweep still has to look at, or has a proof of
\* in hand, is never a terminal made since; and a proof that nothing voided
\* still describes the prompt.
ProofStands ==
  /\ \A t \in terminals \cup sweeping.todo : process[t] # "none"
  /\ sweeping.proven =>
       /\ sweeping.at \in Terms /\ process[sweeping.at] # "none"
       /\ sweeping.at \in terminals /\ ~sweeping.moved => handle[sweeping.at].prompt = "settled"

LEMMA HonestAfter ==
  ASSUME NEW h \in HandleType, NEW u \in HistoryType, NEW out \in BOOLEAN, Honest(h, u, out)
  PROVE  /\ \A s \in Sessions : Honest(Reserved(h, s), [u EXCEPT !.use = 0], out)
         /\ \A a \in {"idle", "busy", "unknown"} :
              (a = "idle" => h.prompt = "settled") => Honest(Observed(h, a), u, out)
         /\ h.views > 0 => Honest(Detached(h), [u EXCEPT !.use = 0], out)
         /\ Honest([h EXCEPT !.views = @ + 1], [u EXCEPT !.use = 0], out)
         /\ Honest(Touched(h), [u EXCEPT !.io = 0], out)
         /\ \A k : Honest(AfterMarker(h, k), [u EXCEPT !.io = 0], out)
         /\ Honest([h EXCEPT !.pinned = ~@], u, out)
         /\ h.prompt = "fresh" => Honest([h EXCEPT !.prompt = "settled"], u, out)
         /\ ~out => Honest([h EXCEPT !.idle = Never, !.prompt = "none", !.activity = "exited",
                                     !.exited = 0], u, TRUE)
<1> USE ConstantsAssumption DEF HandleType, HistoryType, Ages, Never, Honest
<1>1. \A s \in Sessions : Honest(Reserved(h, s), [u EXCEPT !.use = 0], out)
  BY DEF Reserved
<1>2. \A a \in {"idle", "busy", "unknown"} :
        (a = "idle" => h.prompt = "settled") => Honest(Observed(h, a), u, out)
  BY DEF Observed
<1>3. h.views > 0 => Honest(Detached(h), [u EXCEPT !.use = 0], out)
  BY DEF Detached
<1>4. Honest([h EXCEPT !.views = @ + 1], [u EXCEPT !.use = 0], out)
  OBVIOUS
<1>5. Honest(Touched(h), [u EXCEPT !.io = 0], out)
  BY DEF Touched
<1>6. \A k : Honest(AfterMarker(h, k), [u EXCEPT !.io = 0], out)
  <2> SUFFICES ASSUME NEW k PROVE Honest(AfterMarker(h, k), [u EXCEPT !.io = 0], out)
    OBVIOUS
  <2>1. \E hook, activity : AfterMarker(h, k) =
          [h EXCEPT !.idle = Never, !.hook = hook,
                    !.prompt = IF hook = "idle" THEN "fresh" ELSE "none", !.activity = activity]
    BY DEF AfterMarker
  <2> QED BY <2>1
<1>7. /\ Honest([h EXCEPT !.pinned = ~@], u, out)
      /\ h.prompt = "fresh" => Honest([h EXCEPT !.prompt = "settled"], u, out)
      /\ ~out => Honest([h EXCEPT !.idle = Never, !.prompt = "none", !.activity = "exited",
                                  !.exited = 0], u, TRUE)
  OBVIOUS
<1> QED BY <1>1, <1>2, <1>3, <1>4, <1>5, <1>6, <1>7

\* Time passes for a handle and its history alike.
LEMMA HonestTick ==
  ASSUME NEW h \in HandleType, NEW u \in HistoryType, NEW out \in BOOLEAN, Honest(h, u, out)
  PROVE  Honest([h EXCEPT !.idle = Older(@, IdleRetention), !.acquired = Outgrown(@, DetachGrace),
                          !.detached = Outgrown(@, DetachGrace), !.exited = Outgrown(@, ExitRetention)],
                [use |-> IF h.views > 0 THEN 0 ELSE Older(u.use, DetachGrace),
                 io |-> Older(u.io, IdleRetention),
                 exit |-> IF out THEN Older(u.exit, ExitRetention) ELSE 0],
                out)
BY ConstantsAssumption DEF HandleType, HistoryType, Ages, Never, Honest, Older, Outgrown

\* One terminal's handle, shell or history changes, the others are left alone.
LEMMA HonestOne ==
  ASSUME TableOK, Honesty, NEW t \in terminals, NEW h, NEW u, Honest(h, u, Exited(t)'),
         terminals' = terminals, handle' = [handle EXCEPT ![t] = h],
         (wanted' = wanted /\ u = wanted[t]) \/ wanted' = [wanted EXCEPT ![t] = u],
         process' = process \/ process' = [process EXCEPT ![t] = "exited"]
  PROVE  Honesty'
<1> SUFFICES ASSUME NEW v \in terminals PROVE Honest(handle'[v], wanted'[v], Exited(v)')
  BY DEF Honesty
<1>1. CASE v = t
  <2>1. handle'[v] = h /\ wanted'[v] = u
    BY <1>1 DEF TableOK
  <2> QED BY <1>1, <2>1
<1>2. CASE v # t
  <2>1. handle'[v] = handle[v] /\ wanted'[v] = wanted[v] /\ process'[v] = process[v]
    BY <1>2 DEF TableOK
  <2> QED BY <2>1 DEF Honesty, Exited
<1> QED BY <1>1, <1>2

LEMMA HonestDrop == ASSUME TableOK, Honesty, NEW ts, Drop(ts) PROVE Honesty'
<1> SUFFICES ASSUME NEW v \in terminals' PROVE Honest(handle'[v], wanted'[v], Exited(v)')
  BY DEF Honesty
<1>1. v \in terminals /\ v \in Terms /\ v \notin ts
  BY DEF Drop, TableOK
<1>2. handle'[v] = handle[v] /\ wanted'[v] = wanted[v] /\ process'[v] = process[v]
  BY <1>1 DEF Drop, KilledWith
<1> QED BY <1>1, <1>2 DEF Honesty, Exited

LEMMA HonestyNext == ASSUME Typed, Honesty, ProofStands, [Next]_vars PROVE Honesty'
<1> USE DEF Typed
<1>0. \A t \in terminals : /\ t \in Terms /\ handle[t] \in HandleType /\ wanted[t] \in HistoryType
                           /\ Honest(handle[t], wanted[t], Exited(t)) /\ Exited(t) \in BOOLEAN
  BY DEF TableOK, Honesty, HistoryType, Exited
<1>a. ASSUME NEW t \in terminals,
             \E h, u : /\ Honest(h, u, Exited(t)) /\ handle' = [handle EXCEPT ![t] = h]
                       /\ (wanted' = wanted /\ u = wanted[t]) \/ wanted' = [wanted EXCEPT ![t] = u],
             UNCHANGED <<terminals, process>>
      PROVE  Honesty'
  <2>1. PICK h, u : /\ Honest(h, u, Exited(t)) /\ handle' = [handle EXCEPT ![t] = h]
                    /\ (wanted' = wanted /\ u = wanted[t]) \/ wanted' = [wanted EXCEPT ![t] = u]
    BY <1>a
  <2>2. Honest(h, u, Exited(t)')
    BY <1>a, <2>1 DEF Exited
  <2> QED BY <1>a, <2>1, <2>2, HonestOne
<1>1. ASSUME UNCHANGED <<terminals, process, handle, wanted>> PROVE Honesty'
  BY <1>1 DEF Honesty, Exited
<1>2. CASE \E c \in Calls : \/ EnsureRefused(c) \/ EnsureFindsNone(c) \/ ListAnswers(c)
                            \/ SweepWhenDisposed(c)
                            \/ \E s \in Sessions : RequestEnsure(c, s)
                            \/ \E s \in Sessions, kind \in Kinds : RequestSweeping(c, s, kind)
  BY <1>1, <1>2 DEF EnsureRefused, EnsureFindsNone, ListAnswers, SweepWhenDisposed, RequestEnsure,
                    RequestSweeping
<1>3. ASSUME NEW c \in Calls, EnsureReuses(c) PROVE Honesty'
  <2>1. PICK t \in Preferred(WorkspaceFor(c), Requested(c)) :
          /\ handle' = [handle EXCEPT ![t] = Reserved(handle[t], Requested(c))]
          /\ wanted' = [wanted EXCEPT ![t] = [wanted[t] EXCEPT !.use = 0]]
    BY <1>3 DEF EnsureReuses
  <2>2. t \in terminals /\ Requested(c) \in Sessions
    BY DEF Preferred, LiveIn, In, RoutesOK, Requested
  <2>3. Honest(Reserved(handle[t], Requested(c)), [wanted[t] EXCEPT !.use = 0], Exited(t))
    BY <1>0, <2>2, HonestAfter
  <2>4. UNCHANGED <<terminals, process>>
    BY <1>3 DEF EnsureReuses
  <2> QED BY <1>a, <2>1, <2>2, <2>3, <2>4
<1>4. ASSUME NEW c \in Calls, CreateThrows(c) \/ SweepFor(c) PROVE Honesty'
  BY <1>1, <1>4, HonestDrop DEF CreateThrows, SweepFor, StartSweep
<1>5. CASE TimedSweep \/ JudgeSecond \/ DisposeAll \/ \E t \in Terms : Terminate(t)
  BY <1>1, <1>5, HonestDrop DEF TimedSweep, StartSweep, JudgeSecond, DisposeAll, Terminate
<1>6. CASE (\E t \in Terms : SweepNext(t)) \/ SweepEnds \/ JudgeFirst
  BY <1>1, <1>6 DEF SweepNext, SweepEnds, JudgeFirst
<1>7. ASSUME NEW c \in Calls, CreateSpawns(c) PROVE Honesty'
  <2> DEFINE gone == ExpiredIn(Workspaces)
  <2>1. PICK t \in Terms, integrated \in Integrations :
          /\ terminals' = (terminals \ gone) \cup {t}
          /\ process' = [process EXCEPT ![t] = "running"]
          /\ handle' = [u \in Terms |->
                IF u = t THEN Fresh(Requested(c), call[c].kind = "ensure", integrated)
                ELSE IF u \in gone THEN Blank ELSE handle[u]]
          /\ wanted' = [u \in Terms |-> IF u \in gone \cup {t} THEN NoUse ELSE wanted[u]]
    BY <1>7 DEF CreateSpawns
  <2> HIDE DEF gone
  <2> SUFFICES ASSUME NEW v \in terminals' PROVE Honest(handle'[v], wanted'[v], Exited(v)')
    BY DEF Honesty
  <2>2. CASE v = t
    <3>1. handle'[v] = Fresh(Requested(c), call[c].kind = "ensure", integrated) /\ wanted'[v] = NoUse
      BY <2>1, <2>2
    <3>2. process'[v] = "running"
      BY <2>1, <2>2 DEF TableOK
    <3> QED BY <3>1, <3>2 DEF Honest, Fresh, NoUse, Exited, Never
  <2>3. CASE v # t
    <3>1. v \in terminals /\ v \in Terms /\ v \notin gone
      BY <2>1, <2>3 DEF TableOK
    <3>2. handle'[v] = handle[v] /\ wanted'[v] = wanted[v] /\ process'[v] = process[v]
      BY <2>1, <2>3, <3>1 DEF TableOK
    <3> QED BY <3>1, <3>2 DEF Honesty, Exited
  <2> QED BY <2>2, <2>3
<1>8. ASSUME NEW answer \in {"idle", "busy", "unknown"}, ProbeAnswers(answer) PROVE Honesty'
  <2>1. CASE Void(sweeping.at)
    BY <1>1, <1>8, <2>1 DEF ProbeAnswers
  <2>2. CASE ~Void(sweeping.at)
    <3>1. sweeping.at \in terminals /\ ~sweeping.moved
      BY <2>2 DEF Void
    <3>2. answer = "idle" => handle[sweeping.at].prompt = "settled"
      BY <1>8, <3>1 DEF ProbeAnswers, ProbeResults, ProofStands
    <3>3. Honest(Observed(handle[sweeping.at], answer), wanted[sweeping.at], Exited(sweeping.at))
      BY <1>0, <3>1, <3>2, HonestAfter
    <3>4. /\ handle' = [handle EXCEPT ![sweeping.at] = Observed(handle[sweeping.at], answer)]
          /\ UNCHANGED <<terminals, process, wanted>>
      BY <1>8, <2>2 DEF ProbeAnswers
    <3> QED BY <1>a, <3>1, <3>3, <3>4
  <2> QED BY <2>1, <2>2
<1>9. CASE Tick
  <2> SUFFICES ASSUME NEW t \in terminals PROVE Honest(handle'[t], wanted'[t], Exited(t)')
    BY <1>9 DEF Honesty, Tick
  <2>1. /\ handle'[t] = [handle[t] EXCEPT !.idle = Older(@, IdleRetention),
                           !.acquired = Outgrown(@, DetachGrace),
                           !.detached = Outgrown(@, DetachGrace), !.exited = Outgrown(@, ExitRetention)]
        /\ wanted'[t] = [use |-> IF handle[t].views > 0 THEN 0 ELSE Older(wanted[t].use, DetachGrace),
                         io |-> Older(wanted[t].io, IdleRetention),
                         exit |-> IF Exited(t) THEN Older(wanted[t].exit, ExitRetention) ELSE 0]
        /\ Exited(t)' = Exited(t)
    BY <1>0, <1>9 DEF Tick, Exited
  <2>2. Honest([handle[t] EXCEPT !.idle = Older(@, IdleRetention), !.acquired = Outgrown(@, DetachGrace),
                                 !.detached = Outgrown(@, DetachGrace), !.exited = Outgrown(@, ExitRetention)],
               [use |-> IF handle[t].views > 0 THEN 0 ELSE Older(wanted[t].use, DetachGrace),
                io |-> Older(wanted[t].io, IdleRetention),
                exit |-> IF Exited(t) THEN Older(wanted[t].exit, ExitRetention) ELSE 0],
               Exited(t))
    BY <1>0, HonestTick
  <2> QED BY <2>1, <2>2
<1>10. ASSUME NEW t \in Terms, Pin(t) \/ PromptSettles(t) \/ ProcessExits(t) PROVE Honesty'
  <2>1. t \in terminals /\ UNCHANGED <<terminals, wanted>>
    BY <1>10 DEF Pin, PromptSettles, ProcessExits, Live
  <2>2. CASE Pin(t)
    <3>1. handle' = [handle EXCEPT ![t] = [handle[t] EXCEPT !.pinned = ~@]] /\ process' = process
      BY <1>0, <2>2 DEF Pin
    <3>2. Honest([handle[t] EXCEPT !.pinned = ~@], wanted[t], Exited(t))
      BY <1>0, <2>1, HonestAfter
    <3> QED BY <1>a, <2>1, <3>1, <3>2
  <2>3. CASE PromptSettles(t)
    <3>1. /\ handle' = [handle EXCEPT ![t] = [handle[t] EXCEPT !.prompt = "settled"]] /\ process' = process
          /\ handle[t].prompt = "fresh"
      BY <2>3 DEF PromptSettles
    <3>2. Honest([handle[t] EXCEPT !.prompt = "settled"], wanted[t], Exited(t))
      BY <1>0, <2>1, <3>1, HonestAfter
    <3> QED BY <1>a, <2>1, <3>1, <3>2
  <2>4. CASE ProcessExits(t)
    <3>1. /\ handle' = [handle EXCEPT ![t] = [handle[t] EXCEPT !.idle = Never, !.prompt = "none",
                                                               !.activity = "exited", !.exited = 0]]
          /\ process' = [process EXCEPT ![t] = "exited"] /\ ~Exited(t) /\ Exited(t)'
      BY <1>0, <2>4 DEF ProcessExits, Live, TableOK, Exited
    <3>2. Honest([handle[t] EXCEPT !.idle = Never, !.prompt = "none", !.activity = "exited",
                                   !.exited = 0], wanted[t], Exited(t)')
      BY <1>0, <2>1, <3>1, HonestAfter DEF Exited
    <3> QED BY <2>1, <3>1, <3>2, HonestOne
  <2> QED BY <1>10, <2>2, <2>3, <2>4
<1>11. ASSUME NEW t \in Terms, Attach(t) \/ Detach(t) PROVE Honesty'
  <2>1. /\ t \in terminals /\ UNCHANGED <<terminals, process>>
        /\ wanted' = [wanted EXCEPT ![t] = [wanted[t] EXCEPT !.use = 0]]
    BY <1>11 DEF Attach, Detach, Live
  <2>2. CASE Attach(t)
    <3>1. handle' = [handle EXCEPT ![t] = [handle[t] EXCEPT !.views = @ + 1]]
      BY <2>2 DEF Attach
    <3>2. Honest([handle[t] EXCEPT !.views = @ + 1], [wanted[t] EXCEPT !.use = 0], Exited(t))
      BY <1>0, <2>1, HonestAfter
    <3> QED BY <1>a, <2>1, <3>1, <3>2
  <2>3. CASE Detach(t)
    <3>1. handle' = [handle EXCEPT ![t] = Detached(handle[t])] /\ handle[t].views > 0
      BY <2>3 DEF Detach
    <3>2. Honest(Detached(handle[t]), [wanted[t] EXCEPT !.use = 0], Exited(t))
      BY <1>0, <2>1, <3>1, HonestAfter
    <3> QED BY <1>a, <2>1, <3>1, <3>2
  <2> QED BY <1>11, <2>2, <2>3
<1>12. ASSUME NEW t \in Terms,
              Bytes(t) \/ \E kind \in {"unsupported", "start", "end", "accept", "prompt"} : Marker(t, kind)
       PROVE  Honesty'
  <2>1. /\ t \in terminals /\ UNCHANGED <<terminals, process>>
        /\ wanted' = [wanted EXCEPT ![t] = [wanted[t] EXCEPT !.io = 0]]
        /\ \/ handle' = [handle EXCEPT ![t] = Touched(handle[t])]
           \/ \E k : handle' = [handle EXCEPT ![t] = AfterMarker(handle[t], k)]
    BY <1>12 DEF Bytes, Marker, Live
  <2>2. /\ Honest(Touched(handle[t]), [wanted[t] EXCEPT !.io = 0], Exited(t))
        /\ \A k : Honest(AfterMarker(handle[t], k), [wanted[t] EXCEPT !.io = 0], Exited(t))
    BY ZenonT(60), <1>0, <2>1, HonestAfter
  <2> QED BY <1>a, <2>1, <2>2
<1>13. CASE UNCHANGED vars
  BY <1>1, <1>13 DEF vars
<1> QED
  BY <1>2, <1>3, <1>4, <1>5, <1>6, <1>7, <1>8, <1>9, <1>10, <1>11, <1>12, <1>13
  DEF Next, HostStep, WorldStep

\* An id is used once: no shell is ever forgotten to have been started, and what
\* comes on the map was never started before.
LEMMA IdsSpent ==
  ASSUME Typed, ProofStands, [Next]_vars
  PROVE  /\ \A t \in Terms : process[t] # "none" => process'[t] # "none"
         /\ \A t \in terminals' : process'[t] # "none" /\ (t \in terminals \/ process[t] = "none")
<1> USE DEF Typed, TableOK
<1>1. CASE \E c \in Calls : CreateSpawns(c)
  <2>1. PICK t \in Terms :
          /\ process[t] = "none" /\ terminals' = (terminals \ ExpiredIn(Workspaces)) \cup {t}
          /\ process' = [process EXCEPT ![t] = "running"]
    BY <1>1 DEF CreateSpawns
  <2> QED BY <2>1 DEF ProofStands
<1>2. ASSUME terminals' \subseteq terminals,
             \/ process' = process \/ \E ts : process' = KilledWith(ts)
             \/ \E t : process' = [process EXCEPT ![t] = "exited"]
      PROVE  /\ \A t \in Terms : process[t] # "none" => process'[t] # "none"
             /\ \A t \in terminals' : process'[t] # "none" /\ (t \in terminals \/ process[t] = "none")
  <2>1. \A t \in Terms : process[t] # "none" => process'[t] # "none"
    BY <1>2 DEF KilledWith
  <2> QED BY <1>2, <2>1 DEF ProofStands
<1>3. CASE \E c \in Calls : CreateThrows(c) \/ SweepFor(c)
  BY <1>2, <1>3 DEF CreateThrows, SweepFor, StartSweep, Drop
<1>4. CASE TimedSweep \/ JudgeSecond \/ DisposeAll \/ \E t \in Terms : Terminate(t)
  BY <1>2, <1>4 DEF TimedSweep, StartSweep, JudgeSecond, DisposeAll, Terminate, Drop
<1>5. CASE \E c \in Calls :
             \/ EnsureRefused(c) \/ EnsureReuses(c) \/ EnsureFindsNone(c) \/ ListAnswers(c)
             \/ SweepWhenDisposed(c) \/ \E s \in Sessions : RequestEnsure(c, s)
             \/ \E s \in Sessions, kind \in Kinds : RequestSweeping(c, s, kind)
  BY <1>2, <1>5 DEF EnsureRefused, EnsureReuses, EnsureFindsNone, ListAnswers, SweepWhenDisposed,
                    RequestEnsure, RequestSweeping
<1>6. CASE \/ SweepEnds \/ JudgeFirst \/ Tick \/ UNCHANGED vars \/ \E t \in Terms : SweepNext(t)
           \/ \E answer \in {"idle", "busy", "unknown"} : ProbeAnswers(answer)
  BY <1>2, <1>6 DEF SweepEnds, JudgeFirst, Tick, vars, SweepNext, ProbeAnswers
<1>7. CASE \E t \in Terms :
             \/ Pin(t) \/ Attach(t) \/ Detach(t) \/ Bytes(t) \/ PromptSettles(t) \/ ProcessExits(t)
             \/ \E kind \in {"unsupported", "start", "end", "accept", "prompt"} : Marker(t, kind)
  BY <1>2, <1>7 DEF Pin, Attach, Detach, Bytes, PromptSettles, ProcessExits, Marker
<1> QED BY <1>1, <1>3, <1>4, <1>5, <1>6, <1>7 DEF Next, HostStep, WorldStep

\* A step keeps the proof in hand where it only voids it or leaves its prompt.
LEMMA ProofKept ==
  ASSUME Typed, ProofStands, [Next]_vars, sweeping'.todo \subseteq sweeping.todo \cup terminals,
         sweeping'.proven =>
           /\ sweeping.proven /\ sweeping'.at = sweeping.at
           /\ ~sweeping'.moved /\ sweeping.at \in terminals \cap terminals' =>
                ~sweeping.moved /\ handle'[sweeping.at].prompt \in {handle[sweeping.at].prompt, "settled"}
  PROVE  ProofStands'
<1>1. \A t \in terminals' \cup sweeping'.todo : process'[t] # "none"
  BY IdsSpent DEF ProofStands, Typed, TableOK, RoutesOK, SweepType
<1>2. ASSUME sweeping'.proven
      PROVE  /\ sweeping'.at \in Terms /\ process'[sweeping'.at] # "none"
             /\ sweeping'.at \in terminals' => sweeping.at \in terminals
  BY <1>2, IdsSpent DEF ProofStands
<1> QED BY <1>1, <1>2 DEF ProofStands

LEMMA ProofStandsNext == ASSUME Typed, ProofStands, [Next]_vars PROVE ProofStands'
<1> USE DEF Typed, TableOK
<1>0. sweeping \in SweepType /\ \A t \in terminals : t \in Terms /\ handle[t] \in HandleType
  BY DEF RoutesOK
<1>1. ASSUME sweeping' = sweeping \/ \E t : sweeping' = Moved(t),
             \A t \in terminals \cap terminals' : \/ handle'[t].prompt \in {handle[t].prompt, "settled"}
                                                 \/ sweeping' = Moved(t)
      PROVE  ProofStands'
  <2>1. sweeping'.todo = sweeping.todo /\ sweeping'.proven = sweeping.proven /\ sweeping'.at = sweeping.at
    BY <1>0, <1>1 DEF SweepType, Moved
  <2>2. ~sweeping'.moved => ~sweeping.moved
    BY <1>0, <1>1 DEF SweepType, Moved
  <2>3. sweeping' = Moved(sweeping.at) => sweeping'.moved
    BY <1>0 DEF SweepType, Moved
  <2> QED BY <1>1, <2>1, <2>2, <2>3, ProofKept
<1>2. CASE \E c \in Calls : \/ EnsureRefused(c) \/ EnsureFindsNone(c) \/ ListAnswers(c)
                            \/ SweepWhenDisposed(c)
                            \/ \E s \in Sessions : RequestEnsure(c, s)
                            \/ \E s \in Sessions, kind \in Kinds : RequestSweeping(c, s, kind)
  BY <1>1, <1>2 DEF EnsureRefused, EnsureFindsNone, ListAnswers, SweepWhenDisposed, RequestEnsure,
                    RequestSweeping
<1>3. ASSUME NEW c \in Calls, EnsureReuses(c) PROVE ProofStands'
  BY <1>1, <1>3 DEF EnsureReuses
<1>4. CASE (\E c \in Calls : CreateThrows(c)) \/ DisposeAll \/ \E t \in Terms : Terminate(t)
  BY <1>1, <1>4 DEF CreateThrows, DisposeAll, Terminate, Drop
<1>5. CASE \E c \in Calls : CreateSpawns(c)
  <2> DEFINE gone == ExpiredIn(Workspaces)
  <2>1. PICK t \in Terms : /\ process[t] = "none" /\ terminals' = (terminals \ gone) \cup {t}
                           /\ \A u \in Terms : u \notin gone \cup {t} => handle'[u] = handle[u]
                           /\ sweeping' = sweeping
    BY <1>5 DEF CreateSpawns
  <2>2. t \notin terminals
    BY <2>1 DEF ProofStands
  <2> QED BY <1>1, <2>1, <2>2
<1>6. CASE Tick \/ UNCHANGED vars
  <2>1. \A t \in terminals : handle'[t].prompt = handle[t].prompt
    BY ZenonT(60), <1>0, <1>6 DEF Tick, vars, HandleType
  <2> QED BY <1>1, <1>6, <2>1 DEF Tick, vars
<1>7. ASSUME NEW t \in Terms,
             \/ Pin(t) \/ Attach(t) \/ Detach(t) \/ Bytes(t) \/ PromptSettles(t) \/ ProcessExits(t)
             \/ \E kind \in {"unsupported", "start", "end", "accept", "prompt"} : Marker(t, kind)
      PROVE  ProofStands'
  <2>1. CASE PromptSettles(t)
    <3>1. sweeping' = sweeping /\ \A u \in terminals : handle'[u].prompt \in {handle[u].prompt, "settled"}
      BY <1>0, <2>1 DEF PromptSettles, HandleType
    <3> QED BY <1>1, <3>1
  <2>2. CASE ~PromptSettles(t)
    <3>1. sweeping' = Moved(t) /\ \A u \in terminals \ {t} : handle'[u] = handle[u]
      BY <1>0, <1>7, <2>2 DEF Pin, Attach, Detach, Bytes, ProcessExits, Marker
    <3> QED BY <1>1, <3>1
  <2> QED BY <2>1, <2>2
<1>8. ASSUME sweeping'.todo \subseteq sweeping.todo \cup terminals, ~sweeping'.proven PROVE ProofStands'
  BY <1>8, ProofKept
<1>9. CASE (\E c \in Calls : SweepFor(c)) \/ TimedSweep
  <2>1. \E by, scope : sweeping' = [NoSweep EXCEPT !.by = by, !.scope = scope,
                                                   !.todo = terminals \ ExpiredIn(scope)]
    BY <1>9 DEF SweepFor, TimedSweep, StartSweep
  <2> QED BY <1>8, <2>1 DEF NoSweep
<1>10. CASE SweepEnds \/ JudgeSecond
  <2>1. sweeping' = NoSweep \/ sweeping' = Onward
    BY <1>10 DEF SweepEnds, JudgeSecond
  <2>2. NoSweep.todo = {} /\ ~NoSweep.proven /\ Onward.todo = sweeping.todo /\ ~Onward.proven
    BY <1>0 DEF NoSweep, Onward, SweepType
  <2>3. sweeping'.todo \subseteq sweeping.todo \cup terminals /\ ~sweeping'.proven
    BY <2>1, <2>2
  <2> QED BY <1>8, <2>3
<1>11. ASSUME NEW t \in Terms, process[t] # "none", NEW step, sweeping' = Probing(t, step),
              UNCHANGED <<terminals, process, handle>>
       PROVE  ProofStands'
  <2>1. /\ sweeping'.todo \subseteq sweeping.todo /\ sweeping'.at = t
        /\ sweeping'.proven => handle[t].prompt = "settled"
    BY <1>0, <1>11 DEF Probing, SweepType
  <2> QED BY <1>11, <2>1 DEF ProofStands
<1>12. ASSUME NEW t \in Terms, SweepNext(t) PROVE ProofStands'
  <2>1. CASE Relevant(t)
    <3>1. process[t] # "none"
      BY <1>12 DEF SweepNext, ProofStands
    <3> QED BY <1>11, <1>12, <2>1, <3>1 DEF SweepNext
  <2>2. CASE ~Relevant(t)
    <3>1. sweeping' = [sweeping EXCEPT !.todo = @ \ {t}] /\ handle' = handle
      BY <1>12, <2>2 DEF SweepNext
    <3>2. /\ sweeping'.todo \subseteq sweeping.todo /\ sweeping'.proven = sweeping.proven
          /\ sweeping'.at = sweeping.at /\ sweeping'.moved = sweeping.moved
      BY <1>0, <3>1 DEF SweepType
    <3> QED BY <3>1, <3>2, ProofKept
  <2> QED BY <2>1, <2>2
<1>13. CASE JudgeFirst
  <2>1. CASE Reclaimable(sweeping.at) /\ ~disposed
    <3>1. sweeping.at \in Terms /\ process[sweeping.at] # "none"
      BY <2>1 DEF Reclaimable, ProofStands
    <3> QED BY <1>11, <1>13, <2>1, <3>1 DEF JudgeFirst
  <2>2. CASE ~(Reclaimable(sweeping.at) /\ ~disposed)
    <3>1. sweeping' = Onward
      BY <1>13, <2>2 DEF JudgeFirst
    <3> QED BY <1>0, <1>8, <3>1 DEF Onward, SweepType
  <2> QED BY <2>1, <2>2
<1>14. ASSUME NEW answer \in {"idle", "busy", "unknown"}, ProbeAnswers(answer) PROVE ProofStands'
  <2>1. CASE Void(sweeping.at)
    <3>1. sweeping' = Onward
      BY <1>14, <2>1 DEF ProbeAnswers
    <3> QED BY <1>0, <1>8, <3>1 DEF Onward, SweepType
  <2>2. CASE ~Void(sweeping.at)
    <3>1. /\ sweeping' = [sweeping EXCEPT !.step = IF @ = "probe1" THEN "judge1" ELSE "judge2"]
          /\ handle' = [handle EXCEPT ![sweeping.at] = Observed(handle[sweeping.at], answer)]
          /\ sweeping.at \in terminals
      BY <1>14, <2>2 DEF ProbeAnswers, Void
    <3>2. /\ sweeping'.todo = sweeping.todo /\ sweeping'.proven = sweeping.proven
          /\ sweeping'.at = sweeping.at /\ sweeping'.moved = sweeping.moved
      BY <1>0, <3>1 DEF SweepType
    <3>3. handle'[sweeping.at].prompt = handle[sweeping.at].prompt
      BY <1>0, <3>1 DEF Observed, HandleType
    <3> QED BY <3>2, <3>3, ProofKept
  <2> QED BY <2>1, <2>2
<1> QED
  BY <1>2, <1>3, <1>4, <1>5, <1>6, <1>7, <1>9, <1>10, <1>12, <1>13, <1>14 DEF Next, HostStep, WorldStep

LEMMA HonestInit == ASSUME Init PROVE Honesty /\ ProofStands
BY DEF Init, Honesty, ProofStands, NoSweep

\* What a step takes off the map, unless it was told to.
LEMMA RemovesTheUnusedStep ==
  ASSUME Typed, Honesty, [Next]_vars
  PROVE  RemovesTheUnused
<1> USE ConstantsAssumption DEF Typed, TableOK
<1> SUFFICES ASSUME NEW t \in terminals, t \notin terminals', ~disposed', ~Terminate(t)
             PROVE  /\ ~handle[t].pinned /\ handle[t].views = 0 /\ wanted[t].use >= DetachGrace
                    /\ IF Exited(t) THEN wanted[t].exit >= ExitRetention
                       ELSE /\ wanted[t].io >= IdleRetention
                            /\ handle[t].hook = "idle" /\ handle[t].prompt = "settled"
  BY DEF RemovesTheUnused
<1>1. /\ handle[t] \in HandleType /\ wanted[t] \in HistoryType
      /\ Honest(handle[t], wanted[t], Exited(t))
  BY DEF Honesty, HistoryType
<1>2. ASSUME ~Protected(t)
      PROVE  ~handle[t].pinned /\ handle[t].views = 0 /\ wanted[t].use >= DetachGrace
  BY <1>1, <1>2 DEF Protected, Young, Honest, HandleType, HistoryType, Ages, Never
<1>3. ASSUME NEW ws, t \in ExpiredIn(ws)
      PROVE  ~Protected(t) /\ Exited(t) /\ wanted[t].exit >= ExitRetention
  BY <1>1, <1>3 DEF ExpiredIn, Expired, Young, Honest, HistoryType, Never
<1>4. ASSUME Reclaims(t)
      PROVE  /\ ~Protected(t) /\ ~Exited(t) /\ wanted[t].io >= IdleRetention
             /\ handle[t].hook = "idle" /\ handle[t].prompt = "settled"
  BY <1>1, <1>4 DEF Reclaims, Reclaimable, Honest, HandleType, HistoryType, Never
<1>5. (\E ws : t \in ExpiredIn(ws)) \/ Reclaims(t)
  <2>1. CASE \E c \in Calls : CreateThrows(c) \/ SweepFor(c)
    BY <2>1 DEF CreateThrows, SweepFor, StartSweep, Drop
  <2>2. CASE TimedSweep \/ \E c \in Calls : CreateSpawns(c)
    BY <2>2 DEF TimedSweep, StartSweep, Drop, CreateSpawns
  <2>3. CASE JudgeSecond
    BY <2>3 DEF JudgeSecond, Drop
  <2>4. CASE \E u \in Terms : Terminate(u)
    BY <2>4 DEF Terminate, Drop
  <2>5. CASE DisposeAll
    BY <2>5 DEF DisposeAll
  <2>6. CASE \E c \in Calls :
               \/ EnsureRefused(c) \/ EnsureReuses(c) \/ EnsureFindsNone(c) \/ ListAnswers(c)
               \/ SweepWhenDisposed(c) \/ \E s \in Sessions : RequestEnsure(c, s)
               \/ \E s \in Sessions, kind \in Kinds : RequestSweeping(c, s, kind)
    BY <2>6 DEF EnsureRefused, EnsureReuses, EnsureFindsNone, ListAnswers, SweepWhenDisposed,
                RequestEnsure, RequestSweeping
  <2>7. CASE \/ SweepEnds \/ JudgeFirst \/ Tick \/ UNCHANGED vars \/ \E u \in Terms : SweepNext(u)
             \/ \E answer \in {"idle", "busy", "unknown"} : ProbeAnswers(answer)
    BY <2>7 DEF SweepEnds, JudgeFirst, Tick, vars, SweepNext, ProbeAnswers
  <2>8. CASE \E u \in Terms :
               \/ Pin(u) \/ Attach(u) \/ Detach(u) \/ Bytes(u) \/ PromptSettles(u) \/ ProcessExits(u)
               \/ \E kind \in {"unsupported", "start", "end", "accept", "prompt"} : Marker(u, kind)
    BY <2>8 DEF Pin, Attach, Detach, Bytes, PromptSettles, ProcessExits, Marker
  <2> QED BY <2>1, <2>2, <2>3, <2>4, <2>5, <2>6, <2>7, <2>8 DEF Next, HostStep, WorldStep
<1> QED BY <1>2, <1>3, <1>4, <1>5

\* A sweep looks at a terminal, awaits `ps`, looks again, awaits again; whatever
\* its user, its shell, other calls and the clock do meanwhile, what it takes off
\* the map was unused for as long as the retention asks (sweep(), refresh() and
\* pruneExited() of workspace-terminal.ts).
THEOREM RemovesTheUnusedHolds == ASSUME Sessions # {} PROVE Spec => [][RemovesTheUnused]_vars
<1>1. Init => Honesty /\ ProofStands
  BY HonestInit
<1>2. Typed /\ Honesty /\ ProofStands /\ [Next]_vars => Honesty' /\ ProofStands'
  BY HonestyNext, ProofStandsNext
<1>3. Typed /\ Honesty /\ [Next]_vars => [RemovesTheUnused]_vars
  BY RemovesTheUnusedStep
<1> QED BY <1>1, <1>2, <1>3, TypedHolds, PTL DEF Spec

-----------------------------------------------------------------------------
(* The catalog pushed to a browser (TerminalSnapshots): for any number of     *)
(* sockets in succession, changes and faults.  While a socket is subscribed,  *)
(* what is on its wire was sent in the order of revisions, none past the      *)
(* host's own (Upto); before that the wire is empty, and a restarted host,    *)
(* which counts from 0 again, is subscribed to by none.                       *)

CONSTANTS Conns, MaxChanges, MaxFaults, NoConn
VARIABLES catalog, revision, timer, listeners, host, wire, browser, watch, shown, faults
Catalog == INSTANCE TerminalSnapshots

Catalogs == 0..(MaxChanges + MaxFaults)
FrameSet == [kind : {"snapshot", "policy", "error"}, revision : Nat, catalog : Catalogs]
WatchSet == [socket : Conns \cup {NoConn}, revision : Int, retrying : BOOLEAN,
             stopped : BOOLEAN, disposed : BOOLEAN]
HostStages == {"none", "resolving", "subscribed", "closing", "closed"}
BrowserStages == {"unused", "connecting", "open", "closing", "closed"}

CatalogTyped ==
  /\ catalog \in Nat /\ catalog <= MaxChanges + faults /\ revision \in 0..MaxChanges
  /\ faults \in 0..MaxFaults
  /\ timer \in BOOLEAN /\ listeners \subseteq Conns
  /\ host \in [Conns -> HostStages] /\ wire \in [Conns -> Seq(FrameSet)]
  /\ browser \in [Conns -> BrowserStages]
  /\ watch \in WatchSet
  /\ shown \in -1..(MaxChanges + MaxFaults)

\* Frames in the order they were sent, the last of them not after revision r of
\* catalog k.
Upto(w, r, k) ==
  /\ \A i \in 1..Len(w) : w[i].revision <= r /\ (w[i].revision = r => w[i].catalog = k)
  /\ \A i, j \in 1..Len(w) :
       i < j => /\ w[i].revision <= w[j].revision
                /\ w[i].revision = w[j].revision => w[i].catalog = w[j].catalog

\* What is on a subscribed socket's wire was sent up to now; before the subscription
\* nothing is.
WireOf(c) ==
  /\ host[c] = "subscribed" => Upto(wire[c], revision, catalog)
  /\ host[c] \in {"none", "resolving"} => wire[c] = <<>>

CatalogInv ==
  /\ CatalogTyped
  /\ \A c \in listeners : host[c] \in {"subscribed", "closing"}
  /\ timer => listeners # {}
  /\ Catalog!RetriesAlone
  /\ \A c \in Conns : WireOf(c)

LEMMA FramesOf ==
  ASSUME NEW w \in Seq(FrameSet)
  PROVE  \A i \in 1..Len(w) : w[i] \in FrameSet /\ w[i].revision \in Nat
<1>1. \A S : \A q \in Seq(S) : \A i \in 1..Len(q) : q[i] \in S
  OBVIOUS
<1>2. \A i \in 1..Len(w) : w[i] \in FrameSet
  BY <1>1
<1>3. \A f \in FrameSet : f.revision \in Nat
  BY DEF FrameSet
<1> QED BY <1>2, <1>3

\* One frame more, or one less, and an empty wire.
LEMMA FrameMore ==
  ASSUME NEW w \in Seq(FrameSet), NEW f \in FrameSet, NEW r \in Nat, NEW k, Upto(w, r, k),
         f.revision > r \/ (f.revision = r /\ f.catalog = k)
  PROVE  /\ Append(w, f) \in Seq(FrameSet) /\ Upto(Append(w, f), f.revision, f.catalog)
<1>1. PICK v : v = Append(w, f)
  OBVIOUS
<1>2. v \in Seq(FrameSet) /\ Len(v) = Len(w) + 1 /\ v[Len(w) + 1] = f /\ Len(w) \in Nat
      /\ \A i \in 1..Len(w) : v[i] = w[i]
  <2>1. PICK T : T = FrameSet
    OBVIOUS
  <2>2. w \in Seq(T) /\ f \in T
    BY <2>1
  <2>3. v \in Seq(T) /\ Len(v) = Len(w) + 1 /\ v[Len(w) + 1] = f /\ Len(w) \in Nat
        /\ \A i \in 1..Len(w) : v[i] = w[i]
    BY <1>1, <2>2
  <2> QED BY <2>1, <2>3
<1>3. \A i \in 1..Len(w) : w[i].revision \in Nat
  BY FramesOf
<1>4. f.revision \in Nat
  BY DEF FrameSet
<1>5. ASSUME NEW i \in 1..Len(v)
      PROVE  v[i].revision <= f.revision /\ (v[i].revision = f.revision => v[i].catalog = f.catalog)
  <2>1. CASE i = Len(w) + 1
    BY <1>2, <1>4, <2>1
  <2>2. CASE i \in 1..Len(w)
    BY <1>2, <1>3, <1>4, <2>2 DEF Upto
  <2> QED BY <1>2, <2>1, <2>2
<1>6. ASSUME NEW i \in 1..Len(v), NEW j \in 1..Len(v), i < j
      PROVE  /\ v[i].revision <= v[j].revision
             /\ v[i].revision = v[j].revision => v[i].catalog = v[j].catalog
  <2>1. CASE j = Len(w) + 1
    BY <1>2, <1>5, <2>1
  <2>2. CASE i \in 1..Len(w) /\ j \in 1..Len(w)
    BY <1>2, <1>6, <2>2 DEF Upto
  <2> QED BY <1>2, <1>6, <2>1, <2>2
<1> QED BY <1>1, <1>2, <1>5, <1>6 DEF Upto

LEMMA Later ==
  ASSUME NEW w \in Seq(FrameSet), NEW r \in Nat, NEW n \in Nat, n > r, NEW k, NEW l, Upto(w, r, k)
  PROVE  Upto(w, n, l)
<1>3. \A i \in 1..Len(w) : w[i].revision \in Nat
  BY FramesOf
<1> QED BY <1>3 DEF Upto

LEMMA FrameLess ==
  ASSUME NEW w \in Seq(FrameSet), w # <<>>, NEW r, NEW k
  PROVE  /\ Tail(w) \in Seq(FrameSet) /\ Head(w) \in FrameSet
         /\ Upto(w, r, k) => Upto(Tail(w), r, k)
<1>1. PICK v : v = Tail(w)
  OBVIOUS
<1>2. /\ v \in Seq(FrameSet) /\ Head(w) \in FrameSet /\ Len(v) = Len(w) - 1 /\ Len(w) \in Nat
      /\ \A i \in 1..Len(v) : v[i] = w[i + 1]
  <2>1. PICK T : T = FrameSet
    OBVIOUS
  <2>2. w \in Seq(T) /\ w # <<>>
    BY <2>1
  <2>3. /\ v \in Seq(T) /\ Head(w) \in T /\ Len(v) = Len(w) - 1 /\ Len(w) \in Nat
        /\ \A i \in 1..Len(v) : v[i] = w[i + 1]
    BY <1>1, <2>2
  <2> QED BY <2>1, <2>3
<1>3. ASSUME Upto(w, r, k) PROVE Upto(v, r, k)
  <2>1. ASSUME NEW i \in 1..Len(v)
        PROVE  v[i].revision <= r /\ (v[i].revision = r => v[i].catalog = k)
    <3>1. i + 1 \in 1..Len(w)
      BY <1>2
    <3> QED BY <1>2, <1>3, <3>1 DEF Upto
  <2>2. ASSUME NEW i \in 1..Len(v), NEW j \in 1..Len(v), i < j
        PROVE  /\ v[i].revision <= v[j].revision
               /\ v[i].revision = v[j].revision => v[i].catalog = v[j].catalog
    <3>1. i + 1 \in 1..Len(w) /\ j + 1 \in 1..Len(w) /\ i + 1 < j + 1
      BY <1>2, <2>2
    <3> QED BY ZenonT(60), <1>2, <1>3, <3>1 DEF Upto
  <2> QED BY <2>1, <2>2 DEF Upto
<1> QED BY <1>1, <1>2, <1>3

LEMMA NoFrames == ASSUME NEW r, NEW k PROVE <<>> \in Seq(FrameSet) /\ Upto(<<>>, r, k)
  BY DEF Upto

\* A frame is published: every wire is as good as it was, up to now.
LEMMA Publishes ==
  ASSUME CatalogInv, MaxChanges \in Nat, MaxFaults \in Nat, NEW r \in Nat, NEW k \in Catalogs,
         r > revision \/ (r = revision /\ k = catalog),
         NEW ws, ws = Catalog!Published(Catalog!Snapshot(r, k))
  PROVE  /\ ws \in [Conns -> Seq(FrameSet)]
         /\ \A c \in Conns : host[c] = "subscribed" => Upto(ws[c], r, k)
         /\ \A c \in Conns : host[c] \in {"none", "resolving"} => ws[c] = <<>>
<1>1. PICK f \in FrameSet : f = Catalog!Snapshot(r, k) /\ f.revision = r /\ f.catalog = k
  BY DEF Catalog!Snapshot, FrameSet
<1>2. /\ wire \in [Conns -> Seq(FrameSet)] /\ revision \in Nat
      /\ \A c \in Conns : WireOf(c)
  BY DEF CatalogInv, CatalogTyped
<1>3. ws = [c \in Conns |-> IF c \in listeners /\ host[c] = "subscribed" THEN Append(wire[c], f)
                            ELSE wire[c]]
  BY <1>1 DEF Catalog!Published
<1>4. ASSUME NEW c \in Conns
      PROVE  /\ ws[c] \in Seq(FrameSet)
             /\ host[c] = "subscribed" => Upto(ws[c], r, k)
             /\ host[c] \in {"none", "resolving"} => ws[c] = <<>>
  <2>1. wire[c] \in Seq(FrameSet) /\ WireOf(c)
    BY <1>2
  <2>2. CASE c \in listeners /\ host[c] = "subscribed"
    <3>1. ws[c] = Append(wire[c], f)
      BY <1>3, <2>2
    <3> QED BY <1>1, <1>2, <2>1, <2>2, <3>1, FrameMore DEF WireOf
  <2>3. CASE ~(c \in listeners /\ host[c] = "subscribed")
    <3>1. ws[c] = wire[c]
      BY <1>3, <2>3
    <3>2. host[c] = "subscribed" => Upto(wire[c], r, k)
      BY <1>2, <2>1, Later DEF WireOf
    <3> QED BY <2>1, <3>1, <3>2 DEF WireOf
  <2> QED BY <2>2, <2>3
<1> QED BY <1>3, <1>4

LEMMA CatalogChanges ==
  ASSUME Catalog!ConstantsAssumption, CatalogInv,
         Catalog!ChangeNow \/ Catalog!ChangeSoon \/ Catalog!TimerPublishes
  PROVE  CatalogInv'
<1>0. MaxChanges \in Nat /\ MaxFaults \in Nat
  BY DEF Catalog!ConstantsAssumption
<1>1. /\ host' = host /\ listeners' = listeners /\ browser' = browser /\ watch' = watch
      /\ shown' = shown /\ faults' = faults
      /\ \/ catalog' = catalog + 1 /\ revision' = revision + 1 /\ catalog < MaxChanges
            /\ revision < MaxChanges
            /\ wire' = Catalog!Published(Catalog!Snapshot(revision', catalog')) /\ timer' = FALSE
         \/ catalog' = catalog + 1 /\ revision' = revision + 1 /\ catalog < MaxChanges
            /\ revision < MaxChanges
            /\ wire' = wire /\ timer' = (timer \/ listeners # {})
         \/ catalog' = catalog /\ revision' = revision /\ timer' = FALSE
            /\ wire' = Catalog!Published(Catalog!Snapshot(revision, catalog))
  BY DEF Catalog!ChangeNow, Catalog!ChangeSoon, Catalog!TimerPublishes, Catalog!browserVars,
         Catalog!Due
<1>2. /\ catalog \in Nat /\ revision \in Nat /\ catalog <= MaxChanges + faults /\ faults \in Nat
      /\ faults <= MaxFaults /\ revision <= MaxChanges
  BY <1>0 DEF CatalogInv, CatalogTyped
<1>3. /\ catalog' \in Catalogs /\ revision' \in 0..MaxChanges /\ catalog' <= MaxChanges + faults
      /\ catalog' \in Nat /\ revision' \in Nat
      /\ revision' > revision \/ (revision' = revision /\ catalog' = catalog)
  BY <1>0, <1>1, <1>2 DEF Catalogs
<1>4. /\ wire' \in [Conns -> Seq(FrameSet)]
      /\ \A c \in Conns : host[c] = "subscribed" => Upto(wire'[c], revision', catalog')
      /\ \A c \in Conns : host[c] \in {"none", "resolving"} => wire'[c] = <<>>
  <2>1. CASE wire' = Catalog!Published(Catalog!Snapshot(revision', catalog'))
    <3>1. PICK r \in Nat, k \in Catalogs : r = revision' /\ k = catalog'
      BY <1>3
    <3>2. PICK ws : ws = wire'
      OBVIOUS
    <3>3. r > revision \/ (r = revision /\ k = catalog)
      BY <1>3, <3>1
    <3>4. ws = Catalog!Published(Catalog!Snapshot(r, k))
      BY <2>1, <3>1, <3>2
    <3> HIDE <3>2
    <3>5. /\ ws \in [Conns -> Seq(FrameSet)]
          /\ \A c \in Conns : host[c] = "subscribed" => Upto(ws[c], r, k)
          /\ \A c \in Conns : host[c] \in {"none", "resolving"} => ws[c] = <<>>
      BY <1>0, <3>3, <3>4, Publishes
    <3> QED BY <3>1, <3>2, <3>5
  <2>2. CASE wire' = wire /\ revision' = revision + 1
    <3>1. ASSUME NEW c \in Conns, host[c] = "subscribed"
          PROVE  Upto(wire[c], revision', catalog')
      <4>1. Upto(wire[c], revision, catalog) /\ wire[c] \in Seq(FrameSet)
        BY <3>1 DEF CatalogInv, CatalogTyped, WireOf
      <4> QED BY <1>2, <1>3, <2>2, <4>1, Later
    <3> QED BY <2>2, <3>1 DEF CatalogInv, CatalogTyped, WireOf
  <2> QED BY <1>1, <2>1, <2>2
<1>5. CatalogTyped'
  BY <1>0, <1>1, <1>3, <1>4 DEF CatalogInv, CatalogTyped
<1>6. \A c \in Conns : WireOf(c)'
  BY <1>1, <1>4 DEF WireOf
<1>7. (timer => listeners # {})' /\ (\A c \in listeners : host[c] \in {"subscribed", "closing"})'
  BY <1>1 DEF CatalogInv
<1> QED BY <1>1, <1>5, <1>6, <1>7 DEF CatalogInv, Catalog!RetriesAlone

\* The host's end of one socket.
LEMMA HostOfOne ==
  ASSUME Catalog!ConstantsAssumption, CatalogInv, NEW c \in Conns,
         \/ Catalog!Upgrade(c) \/ Catalog!Subscribe(c) \/ Catalog!Backpressure(c)
         \/ Catalog!HostSeesClose(c) \/ \E code \in {"policy", "error"} : Catalog!Refuse(c, code)
  PROVE  CatalogInv'
<1>0. MaxChanges \in Nat /\ MaxFaults \in Nat
  BY DEF Catalog!ConstantsAssumption
<1>1. /\ CatalogTyped /\ Catalog!RetriesAlone /\ (timer => listeners # {})
      /\ \A d \in listeners : host[d] \in {"subscribed", "closing"}
      /\ \A d \in Conns : WireOf(d)
  BY DEF CatalogInv
<1>2. /\ host \in [Conns -> HostStages] /\ wire \in [Conns -> Seq(FrameSet)]
      /\ listeners \subseteq Conns /\ timer \in BOOLEAN /\ catalog \in Catalogs
      /\ catalog \in Nat /\ catalog <= MaxChanges + faults /\ faults \in 0..MaxFaults
      /\ revision \in 0..MaxChanges /\ revision \in Nat
  BY <1>0, <1>1 DEF CatalogTyped, Catalogs
<1>3. /\ catalog' = catalog /\ revision' = revision /\ browser' = browser /\ watch' = watch
      /\ shown' = shown
  BY DEF Catalog!Upgrade, Catalog!Subscribe, Catalog!Backpressure, Catalog!HostSeesClose,
         Catalog!Refuse, Catalog!browserVars
<1>4. /\ faults' = faults \/ (faults' = faults + 1 /\ faults < MaxFaults)
      /\ \E h \in HostStages : host' = [host EXCEPT ![c] = h]
      /\ listeners' \subseteq Conns /\ timer' \in BOOLEAN
  <2>1. CASE Catalog!Upgrade(c)
    BY <1>2, <2>1 DEF Catalog!Upgrade, HostStages
  <2>2. CASE Catalog!Subscribe(c)
    BY <1>2, <2>2 DEF Catalog!Subscribe, HostStages
  <2>3. CASE Catalog!Backpressure(c)
    BY <1>2, <2>3 DEF Catalog!Backpressure, HostStages
  <2>4. CASE Catalog!HostSeesClose(c)
    <3>1. timer' \in BOOLEAN
      BY <2>4 DEF Catalog!HostSeesClose
    <3> QED BY <1>2, <2>4, <3>1 DEF Catalog!HostSeesClose, Catalog!Unsubscribed, HostStages
  <2>5. CASE \E code \in {"policy", "error"} : Catalog!Refuse(c, code)
    BY <1>2, <2>5 DEF Catalog!Refuse, HostStages
  <2> QED BY <2>1, <2>2, <2>3, <2>4, <2>5
<1>5. /\ \A d \in Conns : d # c => host'[d] = host[d]
      /\ host' \in [Conns -> HostStages]
  BY <1>2, <1>4
<1>6. /\ wire' \in [Conns -> Seq(FrameSet)] /\ WireOf(c)'
      /\ \A d \in Conns : d # c => wire'[d] = wire[d]
  <2>1. wire[c] \in Seq(FrameSet) /\ WireOf(c)
    BY <1>1, <1>2
  <2>2. CASE Catalog!Upgrade(c)
    BY <1>2, <2>1, <2>2 DEF Catalog!Upgrade, WireOf
  <2>3. CASE Catalog!Subscribe(c)
    <3>1. PICK f \in FrameSet : f = Catalog!Snapshot(revision, catalog) /\ f.revision = revision
                                /\ f.catalog = catalog
      <4>1. Catalog!Snapshot(revision, catalog) \in FrameSet
        BY <1>2 DEF Catalog!Snapshot, FrameSet
      <4> QED BY <4>1 DEF Catalog!Snapshot
    <3>2. wire[c] = <<>>
      BY <2>1, <2>3 DEF Catalog!Subscribe, WireOf
    <3>3. Append(wire[c], f) \in Seq(FrameSet) /\ Upto(Append(wire[c], f), revision, catalog)
      <4>1. Upto(wire[c], revision, catalog)
        BY <3>2, NoFrames
      <4> QED BY <1>2, <2>1, <3>1, <4>1, FrameMore
    <3>4. wire' = [wire EXCEPT ![c] = Append(wire[c], f)]
      BY <2>3, <3>1 DEF Catalog!Subscribe
    <3>5. host'[c] = "subscribed"
      BY <1>2, <2>3 DEF Catalog!Subscribe
    <3> QED BY <1>2, <1>3, <3>3, <3>4, <3>5 DEF WireOf
  <2>4. ASSUME NEW code \in {"policy", "error"},
               wire' = [wire EXCEPT ![c] = Append(@, Catalog!Close(code))],
               host'[c] \in {"closing", "closed"}
        PROVE  /\ wire' \in [Conns -> Seq(FrameSet)] /\ WireOf(c)'
               /\ \A d \in Conns : d # c => wire'[d] = wire[d]
    <3>1. PICK f \in FrameSet : f = Catalog!Close(code)
      <4>1. 0 \in Catalogs
        BY <1>0 DEF Catalogs
      <4>2. Catalog!Close(code) \in FrameSet
        BY <4>1 DEF Catalog!Close, FrameSet
      <4> QED BY <4>2
    <3>2. Append(wire[c], f) \in Seq(FrameSet)
      <4>1. PICK S : S = FrameSet
        OBVIOUS
      <4>2. Append(wire[c], f) \in Seq(S)
        BY <2>1, <3>1, <4>1
      <4> QED BY <4>1, <4>2
    <3> QED BY <1>2, <2>4, <3>1, <3>2 DEF WireOf
  <2>5. CASE Catalog!Backpressure(c)
    BY <1>2, <2>4, <2>5 DEF Catalog!Backpressure
  <2>6. CASE Catalog!HostSeesClose(c)
    <3>1. wire' = [wire EXCEPT ![c] = <<>>] /\ host'[c] = "closed"
      BY <1>2, <2>6 DEF Catalog!HostSeesClose
    <3> QED BY <1>2, <3>1, NoFrames DEF WireOf
  <2>7. CASE \E code \in {"policy", "error"} : Catalog!Refuse(c, code)
    BY <1>2, <2>4, <2>7 DEF Catalog!Refuse
  <2> QED BY <2>2, <2>3, <2>5, <2>6, <2>7
<1>7. CatalogTyped'
  <2>1. faults' \in 0..MaxFaults /\ catalog' <= MaxChanges + faults'
    BY <1>0, <1>2, <1>3, <1>4
  <2> QED BY <1>1, <1>2, <1>3, <1>4, <1>5, <1>6, <2>1 DEF CatalogTyped
<1>8. \A d \in Conns : WireOf(d)'
  BY <1>1, <1>3, <1>5, <1>6 DEF WireOf
<1>9. (timer => listeners # {})' /\ (\A d \in listeners : host[d] \in {"subscribed", "closing"})'
  <2>1. CASE Catalog!Upgrade(c)
    BY <1>1, <1>2, <1>5, <2>1 DEF Catalog!Upgrade
  <2>2. CASE Catalog!Subscribe(c)
    BY <1>1, <1>2, <1>5, <2>2 DEF Catalog!Subscribe
  <2>3. CASE Catalog!Backpressure(c)
    BY <1>1, <1>2, <1>5, <2>3 DEF Catalog!Backpressure
  <2>4. CASE Catalog!HostSeesClose(c)
    <3>1. listeners' = listeners \ {c} /\ (timer' => listeners' # {})
      BY <2>4 DEF Catalog!HostSeesClose, Catalog!Unsubscribed
    <3> QED BY <1>1, <1>2, <1>5, <3>1
  <2>5. CASE \E code \in {"policy", "error"} : Catalog!Refuse(c, code)
    BY <1>1, <1>2, <1>5, <2>5 DEF Catalog!Refuse
  <2> QED BY <2>1, <2>2, <2>3, <2>4, <2>5
<1> QED BY <1>1, <1>3, <1>7, <1>8, <1>9 DEF CatalogInv, Catalog!RetriesAlone

LEMMA HostRestarts ==
  ASSUME Catalog!ConstantsAssumption, CatalogInv, Catalog!Restart
  PROVE  CatalogInv'
<1>0. MaxChanges \in Nat /\ MaxFaults \in Nat
  BY DEF Catalog!ConstantsAssumption
<1>1. /\ catalog' = catalog + 1 /\ revision' = 0 /\ timer' = FALSE /\ listeners' = {}
      /\ host' = [c \in Conns |-> IF host[c] = "none" THEN "none" ELSE "closed"]
      /\ faults < MaxFaults /\ faults' = faults + 1
      /\ wire' = wire /\ browser' = browser /\ watch' = watch /\ shown' = shown
  BY DEF Catalog!Restart, Catalog!browserVars
<1>2. CatalogTyped'
  <2>1. faults' \in 0..MaxFaults /\ catalog' \in Nat /\ catalog' <= MaxChanges + faults'
    BY <1>0, <1>1 DEF CatalogInv, CatalogTyped
  <2>2. host' \in [Conns -> HostStages]
    BY <1>1 DEF HostStages
  <2>3. revision' \in 0..MaxChanges /\ listeners' \subseteq Conns
    BY <1>0, <1>1
  <2>4. timer' \in BOOLEAN
    BY <1>1
  <2> QED BY <1>1, <2>1, <2>2, <2>3, <2>4 DEF CatalogInv, CatalogTyped
<1>3. \A c \in Conns : WireOf(c)'
  <2>1. ASSUME NEW c \in Conns PROVE WireOf(c)'
    <3>1. host'[c] \in {"none", "closed"} /\ (host'[c] = "none" => host[c] = "none")
      BY <1>1
    <3> QED BY <1>1, <3>1 DEF CatalogInv, WireOf
  <2> QED BY <2>1
<1> QED BY <1>1, <1>2, <1>3 DEF CatalogInv, Catalog!RetriesAlone

\* The browser's end, and the watch: AfterClose never schedules a retry of a watch that
\* ended or has another socket.
LEMMA ClosesAlone ==
  ASSUME Catalog!ConstantsAssumption, CatalogInv, NEW c \in Conns, NEW code, NEW w, w = Catalog!AfterClose(c, code)
  PROVE  /\ w \in WatchSet
         /\ w.retrying => w.socket = NoConn /\ ~w.disposed /\ ~w.stopped
<1>1. watch \in WatchSet /\ Catalog!RetriesAlone
  BY DEF CatalogInv, CatalogTyped
<1>2. PICK s, r, t, x, d : /\ watch = [socket |-> s, revision |-> r, retrying |-> t,
                                       stopped |-> x, disposed |-> d]
                           /\ s \in Conns \cup {NoConn} /\ r \in Int /\ t \in BOOLEAN
                           /\ x \in BOOLEAN /\ d \in BOOLEAN
  BY <1>1 DEF WatchSet
<1>3. CASE ~Catalog!LiveSocket(c)
  BY <1>1, <1>3 DEF Catalog!AfterClose, Catalog!RetriesAlone
<1>4. CASE Catalog!LiveSocket(c) /\ code = "policy"
  <2>1. w = [watch EXCEPT !.socket = NoConn, !.stopped = TRUE]
    BY <1>4 DEF Catalog!AfterClose
  <2>2. ~watch.retrying
    BY <1>1, <1>4 DEF Catalog!RetriesAlone, Catalog!LiveSocket, Catalog!ConstantsAssumption
  <2>3. w.retrying = watch.retrying
    BY <1>2, <2>1
  <2>4. w \in WatchSet
    BY <1>2, <2>1 DEF WatchSet
  <2> QED BY <2>2, <2>3, <2>4
<1>5. CASE Catalog!LiveSocket(c) /\ code # "policy"
  <2>1. w = [watch EXCEPT !.socket = NoConn, !.retrying = TRUE]
    BY <1>5 DEF Catalog!AfterClose
  <2> QED BY <1>1, <1>2, <1>5, <2>1 DEF WatchSet, Catalog!LiveSocket
<1> QED BY <1>3, <1>4, <1>5

LEMMA BrowserSteps ==
  ASSUME Catalog!ConstantsAssumption, CatalogInv, NEW c \in Conns,
         \/ Catalog!Connect(c) \/ Catalog!SeeOpen(c) \/ Catalog!Receive(c)
         \/ Catalog!SeeClose(c) \/ Catalog!Cut(c)
  PROVE  CatalogInv'
<1>0. MaxChanges \in Nat /\ MaxFaults \in Nat
  BY DEF Catalog!ConstantsAssumption
<1>1. /\ CatalogTyped /\ Catalog!RetriesAlone /\ (timer => listeners # {})
      /\ \A d \in listeners : host[d] \in {"subscribed", "closing"}
      /\ \A d \in Conns : WireOf(d)
  BY DEF CatalogInv
<1>2. /\ wire \in [Conns -> Seq(FrameSet)] /\ browser \in [Conns -> BrowserStages]
      /\ watch \in WatchSet /\ shown \in -1..(MaxChanges + MaxFaults)
      /\ catalog <= MaxChanges + faults /\ catalog \in Nat /\ faults \in 0..MaxFaults
  BY <1>1 DEF CatalogTyped
<1>3. /\ catalog' = catalog /\ revision' = revision /\ timer' = timer /\ listeners' = listeners
      /\ host' = host
  BY DEF Catalog!Connect, Catalog!SeeOpen, Catalog!Receive, Catalog!SeeClose, Catalog!Cut,
         Catalog!hostVars
<1>4. browser' \in [Conns -> BrowserStages]
  BY <1>2 DEF Catalog!Connect, Catalog!SeeOpen, Catalog!AfterOpen, Catalog!Receive,
              Catalog!SeeClose, Catalog!Cut, BrowserStages
<1>5. faults' \in 0..MaxFaults /\ catalog' <= MaxChanges + faults'
  BY <1>0, <1>2, <1>3 DEF Catalog!Connect, Catalog!SeeOpen, Catalog!Receive,
              Catalog!SeeClose, Catalog!Cut
<1>6. /\ watch' \in WatchSet /\ shown' \in -1..(MaxChanges + MaxFaults)
      /\ Catalog!RetriesAlone'
  <2>1. CASE Catalog!Connect(c)
    <3>1. watch' = [watch EXCEPT !.socket = c, !.revision = -1, !.retrying = FALSE]
          /\ shown' = shown
      BY <2>1 DEF Catalog!Connect, Catalog!Baseline
    <3>2. PICK s, r, t, x, d : /\ watch = [socket |-> s, revision |-> r, retrying |-> t,
                                           stopped |-> x, disposed |-> d]
                               /\ s \in Conns \cup {NoConn} /\ r \in Int /\ t \in BOOLEAN
                               /\ x \in BOOLEAN /\ d \in BOOLEAN
      BY <1>2 DEF WatchSet
    <3>3. watch' = [socket |-> c, revision |-> -1, retrying |-> FALSE,
                    stopped |-> x, disposed |-> d]
      BY <3>1, <3>2
    <3>4. watch' \in WatchSet /\ ~watch'.retrying
      BY <3>2, <3>3 DEF WatchSet
    <3> QED BY <1>2, <3>1, <3>4 DEF Catalog!RetriesAlone
  <2>2. CASE Catalog!SeeOpen(c)
    BY <1>1, <1>2, <2>2 DEF Catalog!SeeOpen, Catalog!RetriesAlone
  <2>3. CASE Catalog!Receive(c)
    <3>1. PICK f : f = Head(wire[c])
      OBVIOUS
    <3>2. f \in FrameSet
      BY <1>2, <2>3, <3>1, FrameLess DEF Catalog!Receive
    <3>3. \/ watch' = [watch EXCEPT !.revision = f.revision] /\ shown' = f.catalog
          \/ watch' = watch /\ shown' = shown
      BY <2>3, <3>1 DEF Catalog!Receive
    <3>4. f.revision \in Nat /\ f.catalog \in -1..(MaxChanges + MaxFaults)
      <4>1. f.revision \in Nat /\ f.catalog \in Catalogs
        BY <3>2 DEF FrameSet
      <4> QED BY <1>0, <4>1 DEF Catalogs
    <3>5. CASE watch' = [watch EXCEPT !.revision = f.revision] /\ shown' = f.catalog
      <4>1. PICK n \in Int : n = f.revision
        BY <3>4
      <4>2. watch' \in WatchSet /\ watch'.retrying = watch.retrying
            /\ watch'.socket = watch.socket /\ watch'.disposed = watch.disposed
            /\ watch'.stopped = watch.stopped
        BY <1>2, <3>5, <4>1 DEF WatchSet
      <4> QED BY <1>1, <3>4, <3>5, <4>2 DEF Catalog!RetriesAlone
    <3> QED BY <1>1, <1>2, <3>3, <3>5 DEF Catalog!RetriesAlone
  <2>4. CASE Catalog!SeeClose(c) \/ Catalog!Cut(c)
    <3>1. shown' = shown /\ \E code : watch' = Catalog!AfterClose(c, code)
      BY <2>4 DEF Catalog!SeeClose, Catalog!Cut
    <3>2. PICK code : watch' = Catalog!AfterClose(c, code)
      BY <3>1
    <3>3. PICK w : w = watch'
      OBVIOUS
    <3>4. w = Catalog!AfterClose(c, code)
      BY <3>2, <3>3
    <3>5. w \in WatchSet /\ (w.retrying => w.socket = NoConn /\ ~w.disposed /\ ~w.stopped)
      BY <3>4, ClosesAlone
    <3> QED BY <1>2, <3>1, <3>3, <3>5 DEF Catalog!RetriesAlone
  <2> QED BY <2>1, <2>2, <2>3, <2>4
<1>7. wire' \in [Conns -> Seq(FrameSet)] /\ \A d \in Conns : WireOf(d)'
  <2>1. CASE wire' = wire
    BY <1>1, <1>2, <1>3, <2>1 DEF WireOf
  <2>2. CASE wire' = [wire EXCEPT ![c] = <<>>]
    <3>1. wire' \in [Conns -> Seq(FrameSet)]
      BY <1>2, <2>2, NoFrames
    <3>2. ASSUME NEW d \in Conns PROVE WireOf(d)'
      <4>1. wire'[d] = <<>> \/ wire'[d] = wire[d]
        BY <1>2, <2>2
      <4>2. Upto(<<>>, revision, catalog)
        BY NoFrames
      <4>3. WireOf(d)
        BY <1>1
      <4> QED BY <1>3, <4>1, <4>2, <4>3 DEF WireOf
    <3> QED BY <3>1, <3>2
  <2>3. CASE wire' = [wire EXCEPT ![c] = Tail(@)] /\ wire[c] # <<>>
    <3>1. PICK v : v = Tail(wire[c])
      OBVIOUS
    <3>2. v \in Seq(FrameSet) /\ (Upto(wire[c], revision, catalog) => Upto(v, revision, catalog))
      <4>1. PICK q \in Seq(FrameSet) : q = wire[c] /\ q # <<>> /\ v = Tail(q)
        BY <1>2, <2>3, <3>1
      <4> QED BY <4>1, FrameLess
    <3>3. wire' = [wire EXCEPT ![c] = v]
      BY <2>3, <3>1
    <3>4. wire' \in [Conns -> Seq(FrameSet)]
      BY <1>2, <3>2, <3>3
    <3>5. ASSUME NEW d \in Conns PROVE WireOf(d)'
      <4>1. WireOf(d) /\ WireOf(c)
        BY <1>1
      <4>2. CASE d = c
        <5>1. wire'[d] = v
          BY <1>2, <3>3, <4>2
        <5> QED BY <1>3, <2>3, <3>2, <4>1, <4>2, <5>1 DEF WireOf
      <4>3. CASE d # c
        <5>1. wire'[d] = wire[d]
          BY <1>2, <3>3, <4>3
        <5> QED BY <1>3, <4>1, <5>1 DEF WireOf
      <4> QED BY <4>2, <4>3
    <3> QED BY <3>4, <3>5
  <2> QED BY <2>1, <2>2, <2>3 DEF Catalog!Connect, Catalog!SeeOpen, Catalog!Receive,
                                  Catalog!SeeClose, Catalog!Cut
<1>8. CatalogTyped'
  BY <1>1, <1>3, <1>4, <1>5, <1>6, <1>7 DEF CatalogTyped
<1> QED BY <1>1, <1>3, <1>6, <1>7, <1>8 DEF CatalogInv

LEMMA Disposal ==
  ASSUME Catalog!ConstantsAssumption, CatalogInv, Catalog!Dispose
  PROVE  CatalogInv'
<1>1. /\ catalog' = catalog /\ revision' = revision /\ timer' = timer /\ listeners' = listeners
      /\ host' = host /\ wire' = wire /\ shown' = shown /\ faults' = faults
  BY DEF Catalog!Dispose, Catalog!hostVars
<1>2. watch' \in WatchSet /\ ~watch'.retrying
  <2>1. PICK s, r, t, x, d : /\ watch = [socket |-> s, revision |-> r, retrying |-> t,
                                         stopped |-> x, disposed |-> d]
                             /\ s \in Conns \cup {NoConn} /\ r \in Int /\ t \in BOOLEAN
                             /\ x \in BOOLEAN /\ d \in BOOLEAN
    BY DEF CatalogInv, CatalogTyped, WatchSet
  <2>2. watch' = [socket |-> s, revision |-> r, retrying |-> FALSE,
                  stopped |-> x, disposed |-> TRUE]
    BY <2>1 DEF Catalog!Dispose
  <2> QED BY <2>1, <2>2 DEF WatchSet
<1>3. browser' \in [Conns -> BrowserStages]
  BY DEF Catalog!Dispose, CatalogInv, CatalogTyped, BrowserStages
<1>4. CatalogTyped'
  BY <1>1, <1>2, <1>3 DEF CatalogInv, CatalogTyped
<1> QED BY <1>1, <1>2, <1>4 DEF CatalogInv, WireOf, Catalog!RetriesAlone

\* The invariant of host, wire and watch that the three facts below rest on.
THEOREM CatalogInvHolds ==
  ASSUME Catalog!ConstantsAssumption
  PROVE  Catalog!Spec => []CatalogInv
<1>1. ASSUME Catalog!Init PROVE CatalogInv
  <2>1. MaxChanges \in Nat /\ MaxFaults \in Nat
    BY DEF Catalog!ConstantsAssumption
  <2>2. CatalogTyped
    <3>1. wire \in [Conns -> Seq(FrameSet)]
      BY <1>1, NoFrames DEF Catalog!Init, Catalog!Begins
    <3>2. watch \in WatchSet
      BY <1>1 DEF Catalog!Init, Catalog!Begins, WatchSet
    <3>3. host \in [Conns -> HostStages] /\ browser \in [Conns -> BrowserStages]
      BY <1>1 DEF Catalog!Init, Catalog!Begins, HostStages, BrowserStages
    <3>4. timer \in BOOLEAN /\ listeners \subseteq Conns
      BY <1>1 DEF Catalog!Init, Catalog!Begins
    <3>5. /\ catalog \in Nat /\ catalog <= MaxChanges + faults /\ revision \in 0..MaxChanges
          /\ faults \in 0..MaxFaults /\ shown \in -1..(MaxChanges + MaxFaults)
      BY <1>1, <2>1 DEF Catalog!Init, Catalog!Begins
    <3> QED BY <3>1, <3>2, <3>3, <3>4, <3>5 DEF CatalogTyped
  <2>3. \A c \in Conns : WireOf(c)
    BY <1>1 DEF Catalog!Init, Catalog!Begins, WireOf
  <2>4. Catalog!RetriesAlone
    BY <1>1 DEF Catalog!Init, Catalog!Begins, Catalog!RetriesAlone
  <2> QED BY <1>1, <2>2, <2>3, <2>4 DEF Catalog!Init, Catalog!Begins, CatalogInv
<1>2. ASSUME CatalogInv, [Catalog!Next]_(Catalog!vars) PROVE CatalogInv'
  <2>1. CASE UNCHANGED Catalog!vars
    BY <1>2, <2>1 DEF Catalog!vars, CatalogInv, CatalogTyped, Catalog!RetriesAlone, WireOf
  <2>2. CASE Catalog!ChangeNow \/ Catalog!ChangeSoon \/ Catalog!TimerPublishes
    BY <1>2, <2>2, CatalogChanges
  <2>3. ASSUME NEW c \in Conns,
               \/ Catalog!Upgrade(c) \/ Catalog!Subscribe(c) \/ Catalog!Backpressure(c)
               \/ Catalog!HostSeesClose(c) \/ \E code \in {"policy", "error"} : Catalog!Refuse(c, code)
        PROVE CatalogInv'
    BY <1>2, <2>3, HostOfOne
  <2>4. ASSUME NEW c \in Conns,
               \/ Catalog!Connect(c) \/ Catalog!SeeOpen(c) \/ Catalog!Receive(c)
               \/ Catalog!SeeClose(c) \/ Catalog!Cut(c)
        PROVE CatalogInv'
    BY <1>2, <2>4, BrowserSteps
  <2>5. CASE Catalog!Restart
    BY <1>2, <2>5, HostRestarts
  <2>6. CASE Catalog!Dispose
    BY <1>2, <2>6, Disposal
  <2> QED BY <1>2, <2>1, <2>2, <2>3, <2>4, <2>5, <2>6 DEF Catalog!Next
<1> QED BY <1>1, <1>2, PTL DEF Catalog!Spec

\* The types of sockets, frames and the watch, for every number of them
\* (SubscriptionState of workspace-terminal.ts, watchWorkspaceTerminals).
THEOREM CatalogTypeCorrect ==
  ASSUME Catalog!ConstantsAssumption
  PROVE  Catalog!Spec => []Catalog!TypeOK
<1>0. MaxChanges \in Nat /\ MaxFaults \in Nat
  BY DEF Catalog!ConstantsAssumption
<1>1. FrameSet \subseteq Catalog!Frames
  <2>1. Catalogs \subseteq Nat
    BY <1>0 DEF Catalogs
  <2> QED BY <2>1 DEF FrameSet, Catalog!Frames
<1>2. Seq(FrameSet) \subseteq Seq(Catalog!Frames)
  <2>1. PICK S, T : S = FrameSet /\ T = Catalog!Frames
    OBVIOUS
  <2>2. Seq(S) \subseteq Seq(T)
    BY <1>1, <2>1
  <2> QED BY <2>1, <2>2
<1>3. CatalogInv => Catalog!TypeOK
  <2> SUFFICES ASSUME CatalogInv PROVE Catalog!TypeOK
    OBVIOUS
  <2>1. CatalogTyped
    BY DEF CatalogInv
  <2>2. wire \in [Conns -> Seq(Catalog!Frames)]
    BY <1>2, <2>1 DEF CatalogTyped
  <2>3. catalog \in 0..(MaxChanges + MaxFaults)
    BY <1>0, <2>1 DEF CatalogTyped
  <2> QED BY <2>1, <2>2, <2>3
          DEF CatalogTyped, Catalog!TypeOK, HostStages, BrowserStages, WatchSet
<1> QED BY <1>3, CatalogInvHolds, PTL

\* Whenever in its life a socket closes, during the lookup too, nobody listens for
\* it afterwards, and no timer runs for nobody; and a watch has a retry scheduled
\* only while it has no socket and has not ended (dispose() of
\* workspace-terminal-watch.ts; retry() and the disposer of the client's).
THEOREM NothingRunsUnownedHolds ==
  ASSUME Catalog!ConstantsAssumption
  PROVE  Catalog!Spec => []Catalog!NothingRunsUnowned
<1>1. CatalogInv => Catalog!NothingRunsUnowned
  BY DEF CatalogInv, Catalog!NothingRunsUnowned, Catalog!NoLeakedListener
<1> QED BY <1>1, CatalogInvHolds, PTL

\* On one subscription revisions never go back, and one revision never stands for
\* two catalogs, however publications are coalesced: that the browser drops a frame
\* that is not newer loses nothing (onmessage, src/client/workspace-terminal-watch.ts).
THEOREM RevisionsDistinguishHolds ==
  ASSUME Catalog!ConstantsAssumption
  PROVE  Catalog!Spec => []Catalog!RevisionsDistinguish
<1>1. CatalogInv => Catalog!RevisionsDistinguish
  BY DEF CatalogInv, WireOf, Upto, Catalog!RevisionsDistinguish
<1> QED BY <1>1, CatalogInvHolds, PTL
=============================================================================
