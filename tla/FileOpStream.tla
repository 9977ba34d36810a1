--------------------------- MODULE FileOpStream ---------------------------
(***************************************************************************)
(* The file-operation stream that refreshes open previews                  *)
(* (client/ops-stream.ts, changes-ops.ts, client/use-polling.ts): one      *)
(* session's event log at the host; the route that answers a delta, or     *)
(* parks the request until the next tool event; the stream record the      *)
(* session's editor tabs share; and the election of the one tab that pulls.*)
(*                                                                         *)
(* An event is [op, type]; its seq is its place in the log, and the cursor *)
(* 0 stands for the code's -1.  Reads, which publish nothing, and the paths   *)
(* an operation touches are left out: publishing raises the revision.  Left   *)
(* out too: the route's cap on one delta and the touch window, both above  *)
(* the bounds here; the cold read of a session that is not live.           *)
(***************************************************************************)
EXTENDS Integers, FiniteSets, Sequences, SequencesExt

CONSTANTS
  Tabs,          \* the mounted editor tabs of the session
  Ops,           \* write and edit operations of the model
  Ptc,           \* those dispatched from code: their row is self-contained
  EventWindow,   \* EVENT_WINDOW: events the record retains
  IdleWindow,    \* IDLE_EVENT_WINDOW: what it retains with nobody watching
  Evicts,        \* whether newer sessions may push the record out of the store
  MaxFailures,   \* bound: pulls that fail
  MaxLeaves,     \* bound: tabs that are parked
  None

ConstantsAssumption ==
  /\ Ptc \subseteq Ops /\ None \notin Tabs
  /\ EventWindow \in Nat \ {0} /\ IdleWindow \in 0 .. EventWindow
  /\ Evicts \in BOOLEAN /\ MaxFailures \in Nat /\ MaxLeaves \in Nat

VARIABLES
  log,       \* the session's event log
  snap,      \* how much of it the snapshot shows: all, or all but the last event
  stream,    \* the record in the store
  gen,       \* which record that is: an eviction makes way for a fresh one
  members,   \* the tabs that joined, in the order of the Set
  leader,    \* the tab whose hook runs the poll
  pull,      \* the leader's request
  sub,       \* tab -> the record its hook listens to
  shown,     \* tab -> the revision it rendered last
  fired,     \* history: op -> how often it was published
  base,      \* history: the log's length the baseline covered
  failures, leaves

vars == <<log, snap, stream, gen, members, leader, pull, sub, shown, fired, base,
          failures, leaves>>

Seqs == 0 .. 2 * Cardinality(Ops)
Events == [op: Ops, type: {"call", "ok", "err"}]
Idle == [stage |-> "idle", after |-> 0, wait |-> FALSE, heard |-> {}, last |-> 0]
Fresh == [rev |-> 0, seq |-> 0, primed |-> FALSE, events |-> <<>>, published |-> {}]

TypeOK ==
  /\ log \in Seq(Events) /\ Len(log) \in Seqs /\ snap \in {Len(log), Len(log) - 1}
  /\ stream \in [rev: Seqs, seq: Seqs, primed: BOOLEAN, events: Seq(Events),
                 published: SUBSET Ops]
  /\ Len(stream.events) <= EventWindow
  /\ gen \in 1 .. 2
  /\ members \in Seq(Tabs) /\ IsInjective(members) /\ leader \in Tabs \cup {None}
  /\ pull \in [stage: {"idle", "sent", "parked", "woken", "answered"}, after: Seqs,
               wait: BOOLEAN, heard: SUBSET Seqs, last: Seqs]
  /\ sub \in [Tabs -> 1 .. 2] /\ shown \in [Tabs -> Seqs]
  /\ fired \in [Ops -> Seqs] /\ base \in Seqs \cup {-1}
  /\ failures \in 0 .. MaxFailures /\ leaves \in 0 .. MaxLeaves

Joined(t) == Contains(members, t)

Init ==
  /\ log = <<>> /\ snap = 0 /\ stream = Fresh /\ gen = 1
  /\ members = <<>> /\ leader = None /\ pull = Idle
  /\ sub = [t \in Tabs |-> 1] /\ shown = [t \in Tabs |-> 0]
  /\ fired = [o \in Ops |-> 0] /\ base = -1 /\ failures = 0 /\ leaves = 0

-----------------------------------------------------------------------------
(* The operations a run of events shows (extractFileOps)                    *)

\* The self-contained row of a dispatch opens its operation too.
Opens(e) == e.type = "call" \/ e.op \in Ptc
Present(es) == {o \in Ops : \E i \in DOMAIN es : es[i].op = o /\ Opens(es[i])}

\* A result counts for an operation that is in view.
Outcome(es, o) ==
  LET ends == {i \in DOMAIN es : es[i].op = o /\ es[i].type # "call"}
  IN  IF ends = {} THEN "running" ELSE es[CHOOSE i \in ends : \A j \in ends : j <= i].type

LastOf(es, n) == SubSeq(es, IF Len(es) > n THEN Len(es) - n + 1 ELSE 1, Len(es))

-----------------------------------------------------------------------------
(* The session's log and the host's route                                   *)

Called(o) == \E i \in DOMAIN log : log[i].op = o
Settled(o) == \E i \in DOMAIN log : log[i].op = o /\ log[i].type # "call"

\* An event is announced before the snapshot shows it; a parked request hears it.
Append1(e) ==
  /\ snap = Len(log)
  /\ log' = Append(log, e)
  /\ pull' = IF pull.stage \in {"parked", "woken"}
             THEN [pull EXCEPT !.stage = "woken", !.heard = @ \cup {Len(log) + 1}]
             ELSE pull
  /\ UNCHANGED <<snap, stream, gen, members, leader, sub, shown, fired, base, failures,
                 leaves>>

ToolCall(o) == ~Called(o) /\ Append1([op |-> o, type |-> "call"])
ToolResult(o) ==
  /\ Called(o) /\ ~Settled(o)
  /\ \E t \in {"ok", "err"} : Append1([op |-> o, type |-> t])

SnapshotRefresh ==
  /\ snap < Len(log)
  /\ snap' = Len(log)
  /\ UNCHANGED <<log, stream, gen, members, leader, pull, sub, shown, fired, base, failures,
                 leaves>>

\* The request subscribes and reads; with nothing new and leave to wait it is
\* parked, else it answers.
Arrive ==
  /\ pull.stage = "sent"
  /\ pull' = IF pull.wait /\ snap <= pull.after
             THEN [pull EXCEPT !.stage = "parked"]
             ELSE [pull EXCEPT !.stage = "answered",
                               !.last = IF snap > pull.after THEN snap ELSE pull.after]
  /\ UNCHANGED <<log, snap, stream, gen, members, leader, sub, shown, fired, base, failures,
                 leaves>>

\* The wait's ceiling.
WaitEnds ==
  /\ pull.stage = "parked"
  /\ pull' = [pull EXCEPT !.stage = "woken"]
  /\ UNCHANGED <<log, snap, stream, gen, members, leader, sub, shown, fired, base, failures,
                 leaves>>

\* Woken, it reads again and adds what it heard and the snapshot lacks.
Answer ==
  /\ pull.stage = "woken"
  /\ LET seen == ({n \in 1 .. snap : n > pull.after} \cup pull.heard) \cup {pull.after}
     IN  pull' = [pull EXCEPT !.stage = "answered", !.heard = {},
                              !.last = CHOOSE n \in seen : \A k \in seen : k <= n]
  /\ UNCHANGED <<log, snap, stream, gen, members, leader, sub, shown, fired, base, failures,
                 leaves>>

-----------------------------------------------------------------------------
(* The stream in the page                                                   *)

\* The leader's loop: a fresh stream asks for everything and does not wait.
Pull ==
  /\ leader # None /\ pull.stage = "idle"
  /\ pull' = [Idle EXCEPT !.stage = "sent", !.wait = stream.primed,
                          !.after = IF stream.primed THEN stream.seq ELSE 0]
  /\ UNCHANGED <<log, snap, stream, gen, members, leader, sub, shown, fired, base, failures,
                 leaves>>

PullFails ==
  /\ pull.stage \in {"sent", "answered"} /\ failures < MaxFailures
  /\ failures' = failures + 1
  /\ pull' = Idle
  /\ UNCHANGED <<log, snap, stream, gen, members, leader, sub, shown, fired, base, leaves>>

\* What a fold publishes: settled successes that were not published before.
\* The window after a delta.
\* Mutants: the delta replaces it; it grows without bound.
Window_Replaced(s, delta) == LastOf(delta, EventWindow)
Window_Unbounded(s, delta) == s.events \o delta
Window(s, delta) == LastOf(s.events \o delta, EventWindow)

\* What a delta publishes: settled successes that were not published before.
\* Mutant: a call that has not settled counts too.
ToPublish_Unsettled(s, delta) ==
  IF ~s.primed \/ delta = <<>> THEN {}
  ELSE {o \in Present(Window(s, delta)) \ s.published : Outcome(Window(s, delta), o) # "err"}
ToPublish(s, delta) ==
  IF ~s.primed \/ delta = <<>> THEN {}
  ELSE {o \in Present(Window(s, delta)) \ s.published : Outcome(Window(s, delta), o) = "ok"}

\* The record after a delta: the baseline only marks; marks outside the window go.
Folded(s, delta, last) ==
  LET marked == IF s.primed THEN ToPublish(s, delta) ELSE Present(Window(s, delta))
  IN  [rev |-> IF ToPublish(s, delta) = {} THEN s.rev ELSE s.rev + 1,
       seq |-> last, primed |-> TRUE,
       events |-> IF delta = <<>> THEN s.events ELSE Window(s, delta),
       published |-> IF delta = <<>> THEN s.published
                     ELSE (s.published \cup marked) \cap Present(Window(s, delta))]

\* The listeners of this record render its revision.
\* Mutant: only the leader does.
Rendered_Leader(rev) == [t \in Tabs |-> IF t = leader THEN rev ELSE shown[t]]
Rendered(rev) == [t \in Tabs |-> IF sub[t] = gen THEN rev ELSE shown[t]]

Receive ==
  /\ pull.stage = "answered"
  /\ LET delta == SubSeq(log, pull.after + 1, pull.last)
         now == ToPublish(stream, delta)
     IN  /\ stream' = Folded(stream, delta,
                            IF pull.last > stream.seq THEN pull.last ELSE stream.seq)
         /\ shown' = IF now = {} THEN shown ELSE Rendered(stream.rev + 1)
         /\ fired' = [o \in Ops |-> IF o \in now THEN fired[o] + 1 ELSE fired[o]]
         /\ base' = IF stream.primed THEN base ELSE pull.last
  /\ pull' = Idle
  /\ UNCHANGED <<log, snap, gen, members, leader, sub, failures, leaves>>

\* A tab comes on screen: it renders, joins, and leads if nobody does.
Join(t) ==
  /\ ~Joined(t)
  /\ members' = Append(members, t)
  /\ leader' = IF leader = None THEN t ELSE leader
  /\ shown' = [shown EXCEPT ![t] = stream.rev]
  /\ UNCHANGED <<log, snap, stream, gen, pull, sub, fired, base, failures, leaves>>

\* The record a leaving tab leaves behind: short, when it was the last.
\* Mutant: what was published is forgotten with nobody watching.
Left_Forgets(s, left) ==
  IF left = <<>> THEN [s EXCEPT !.events = LastOf(@, IdleWindow), !.published = {}] ELSE s

Left(s, left) ==
  IF left = <<>> THEN [s EXCEPT !.events = LastOf(@, IdleWindow)] ELSE s

\* A tab is parked.  A leader's loop ends with its request, whose answer is
\* ignored, and the first of the remaining tabs leads.
\* Mutant: nobody is asked to lead on.
Leave_NoHeir(t) ==
  /\ Joined(t) /\ leaves < MaxLeaves
  /\ leaves' = leaves + 1
  /\ members' = Remove(members, t)
  /\ stream' = Left(stream, members')
  /\ IF leader = t THEN leader' = None /\ pull' = Idle
                   ELSE UNCHANGED <<leader, pull>>
  /\ UNCHANGED <<log, snap, gen, sub, shown, fired, base, failures>>

Leave(t) ==
  /\ Joined(t) /\ leaves < MaxLeaves
  /\ leaves' = leaves + 1
  /\ members' = Remove(members, t)
  /\ stream' = Left(stream, members')
  /\ IF leader = t
     THEN /\ leader' = IF members' = <<>> THEN None ELSE members'[1]
          /\ pull' = Idle
     ELSE UNCHANGED <<leader, pull>>
  /\ UNCHANGED <<log, snap, gen, sub, shown, fired, base, failures>>

\* Newer sessions push a record without members out of the store; the session's
\* hooks stay on its listeners.
EvictStream ==
  /\ Evicts /\ members = <<>> /\ gen = 1
  /\ gen' = 2
  /\ stream' = Fresh
  /\ base' = -1
  /\ UNCHANGED <<log, snap, members, leader, pull, sub, shown, fired, failures, leaves>>

-----------------------------------------------------------------------------
Host == SnapshotRefresh \/ Arrive \/ WaitEnds \/ Answer
Next ==
  \/ \E o \in Ops : ToolCall(o) \/ ToolResult(o)
  \/ Host
  \/ Pull \/ PullFails \/ Receive
  \/ \E t \in Tabs : Join(t) \/ Leave(t)
  \/ EvictStream

\* The host refreshes its snapshot and answers, a parked request's timer fires,
\* the poll's timer fires, and an answer is delivered.
Fairness ==
  /\ WF_vars(SnapshotRefresh) /\ WF_vars(Arrive) /\ WF_vars(WaitEnds) /\ WF_vars(Answer)
  /\ WF_vars(Pull) /\ WF_vars(Receive)

Spec == Init /\ [][Next]_vars /\ Fairness

-----------------------------------------------------------------------------
(* Properties                                                               *)

PlaceOf(o, types) ==
  CHOOSE i \in DOMAIN log : log[i].op = o /\ log[i].type \in types
SettledOk(o) == \E i \in DOMAIN log : log[i].op = o /\ log[i].type = "ok"

\* Only a settled success of a write fires, once, and none the baseline covered.
FiresOnce ==
  \A o \in Ops : fired[o] > 0 =>
    /\ SettledOk(o) /\ fired[o] = 1
    /\ ~Evicts => PlaceOf(o, {"ok"}) > base

\* One tab pulls while any is on screen, and nobody pulls for an empty room.
OneLeads ==
  /\ (leader = None) = (members = <<>>)
  /\ leader # None => Joined(leader)
  /\ pull.stage # "idle" => leader # None

\* With windows that hold the whole log, every write called after the baseline
\* whose success the cursor has passed was published.
SettledIsPublished ==
  \A o \in Ops :
    (IdleWindow >= 2 * Cardinality(Ops) /\ SettledOk(o) /\ stream.primed
       /\ PlaceOf(o, {"ok"}) <= stream.seq /\ PlaceOf(o, {"call"}) > base) => fired[o] = 1

\* "Only an op that settles while someone is watching can refresh anything": an
\* op the first pull found running settles after it, and should refresh.
RunningAtBaselineFires ==
  \A o \in Ops :
    (SettledOk(o) /\ stream.primed /\ PlaceOf(o, {"ok"}) <= stream.seq
       /\ PlaceOf(o, {"ok"}) > base) => fired[o] = 1

\* A publication reaches every tab that joined.
MembersHear == ~Evicts => \A t \in Tabs : Joined(t) => shown[t] = stream.rev

\* While a tab stays on screen, the stream comes to the end of the log and the
\* tab shows it.
TouchesArrive(t) ==
  <>[]Joined(t) => <>[](stream.seq = Len(log) /\ shown[t] = stream.rev)
=============================================================================
