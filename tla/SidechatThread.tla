--------------------------- MODULE SidechatThread ---------------------------
(* One side chat thread on the host (src/sidechat-routes.ts): the session the   *)
(* plugin forks off a parent, its live agent, and the module-level maps the     *)
(* routes keep about it (threadDisposers, pendingSnapshots, threadModelRefs).   *)
(* The maps are keyed by thread and no route reads two keys, so one thread is   *)
(* modelled.                                                                    *)
(*                                                                              *)
(* A route runs to its next await in one action. The awaits that matter are     *)
(* agents.resume (a prompt or a model switch on a cold thread), the model       *)
(* normalisation before a switch, and the agent's dispose.                      *)
(* Left out: an agent that the host ends otherwise than by the routes (the      *)
(* activity of an archived session), which leaves its entry in threadModelRefs. *)
EXTENDS Naturals, Sequences, FiniteSets, SequencesExt

CONSTANTS
  Calls,          \* identities of prompt and model calls, each made once
  Models,         \* model routes
  DefaultModel,   \* the route an agent requests with when no ref is installed
  MaxLives,       \* bound: agents created or resumed for the thread
  MaxClears,      \* bound: dequeue calls
  Overlaps,       \* a close may overlap a call on the same thread
  PicksOut        \* the user may dequeue a single pending row

\* What is assumed of the constants.
DefaultAssumption == DefaultModel \in Models
BoundsAssumption == MaxLives \in Nat /\ MaxClears \in Nat

VARIABLES
  made,      \* the thread's session exists
  live,      \* the live agent (0: cold); agents are numbered as they come
  lives,     \* agents so far
  dying,     \* a dispose of the live agent is awaited
  log,       \* the user messages of the thread's own log
  picked,    \* the log's effective model selection
  step,      \* the agent's next-step inbox, durable
  turn,      \* the agent's next-turn inbox, durable
  parked,    \* pendingSnapshots holds the creation snapshot
  ref,       \* threadModelRefs: the agent it is installed on, and its route
  disposer,  \* threadDisposers: the agent it disposes (0: none)
  call,      \* the calls' progress
  closed,    \* the tab was closed and no call was made since
  clears     \* dequeue calls so far

runtime == <<live, lives, dying>>
inbox == <<step, turn>>
maps == <<parked, ref, disposer>>
vars == <<made, runtime, log, picked, inbox, maps, call, closed, clears>>

Message == {"boundary", "question", "ghost"}
NoRef == [on |-> 0, current |-> DefaultModel]
CallState ==
  {[at |-> "new"], [at |-> "done"], [at |-> "resuming", does |-> "prompt"]}
  \cup [at: {"checking", "resuming"}, does: {"model"}, route: Models]

\* A thread is new, or was left by an earlier build, without the inbox fence:
\* then its inbox still holds what the seed inherited from the parent.
Init ==
  /\ made \in BOOLEAN
  /\ log \in IF made THEN {<<>>, <<"boundary", "question">>} ELSE {<<>>}
  /\ turn \in IF made THEN {<<"ghost">>, <<"ghost", "question">>} ELSE {<<>>}
  /\ turn = <<"ghost", "question">> => log # <<>>
  /\ picked \in Models
  /\ live = 0 /\ lives = 0 /\ dying = FALSE
  /\ step = <<>> /\ parked = FALSE /\ ref = NoRef /\ disposer = 0
  /\ call = [c \in Calls |-> [at |-> "new"]]
  /\ closed = FALSE /\ clears = 0

-----------------------------------------------------------------------------
(* The helpers of the routes.                                                 *)

Done(c) == [call EXCEPT ![c] = [at |-> "done"]]

InFlight == {c \in Calls : call[c].at \in {"checking", "resuming"}}

\* A call may arrive now.
Admitted(c) ==
  /\ made /\ call[c].at = "new"
  /\ dying => Overlaps

\* boundaryDelivered reads the log.
BoundaryDelivered == Contains(log, "boundary")

\* Mutant: only the log is looked at.
BoundaryPending_Never(s, t) == FALSE
\* boundaryPending reads the live inbox, which a claim has not logged yet.
BoundaryPending(s, t) == Contains(s \o t, "boundary")

\* Mutant: the resume does not sweep.
Swept_Not(messages) == messages
\* Mutant: the resume clears, as the create does.
Swept_Clear(messages) == <<>>

\* dropInheritedGhosts: the swept inbox keeps the user's own input.
Swept(messages) == SelectSeq(messages, LAMBDA m : m # "ghost")

\* The inbox after the create path's inbox.clear().
Fenced(messages) == <<>>

\* Mutant: the new ref starts with no selection.
EnsuredRef_Empty(agent) ==
  IF ref.on # 0 THEN ref ELSE [on |-> agent, current |-> "undefined"]

\* ensureModelSelection: an existing ref is returned as it is, installed or not.
EnsuredRef(agent) == IF ref.on # 0 THEN ref ELSE [on |-> agent, current |-> picked]

\* Mutant: the parked snapshot is read and not taken.
Delivery_Keep(s, t) ==
  /\ turn' = Append(t, "question")
  /\ step' = IF BoundaryDelivered \/ BoundaryPending(s, t)
               THEN s ELSE Append(s, "boundary")
  /\ UNCHANGED parked

\* Mutant: the boundary is queued as a turn behind the question.
Delivery_Behind(s, t) ==
  IF BoundaryDelivered \/ BoundaryPending(s, t)
    THEN turn' = Append(t, "question") /\ step' = s /\ UNCHANGED parked
    ELSE turn' = t \o <<"question", "boundary">> /\ step' = s /\ parked' = FALSE

\* The prompt's delivery: a follow-up once the boundary was sent, the first
\* contact (boundary, then question) before.
Delivery(s, t) ==
  /\ turn' = Append(t, "question")
  /\ IF BoundaryDelivered \/ BoundaryPending(s, t)
       THEN step' = s /\ UNCHANGED parked
       ELSE step' = Append(s, "boundary") /\ parked' = FALSE

\* Mutant: the switch is logged and the ref left alone.
Selection_LogOnly(ensured, route) == picked' = route /\ ref' = ensured

\* The switch's commit: the durable intent, then the ref.
Selection(ensured, route) ==
  /\ picked' = route
  /\ ref' = [ensured EXCEPT !.current = route]

-----------------------------------------------------------------------------
(* The routes.                                                                *)

\* Mutant: a resumed agent's disposer is not recorded.
Registered_NoDisposer ==
  /\ lives < MaxLives
  /\ lives' = lives + 1 /\ live' = lives + 1 /\ dying' = FALSE
  /\ disposer' = IF made THEN disposer ELSE lives + 1

\* The host handed out an agent: it is live, and its disposer is recorded.
Registered ==
  /\ lives < MaxLives
  /\ lives' = lives + 1 /\ live' = lives + 1 /\ dying' = FALSE
  /\ disposer' = lives + 1

\* sidechat.start. The child's name is not known before it answers, so its
\* await is one step. The inbox the host's create replays may hold input that
\* sat unclaimed in the parent. A question makes the first contact at once.
Start ==
  /\ ~made /\ made' = TRUE
  /\ Registered
  /\ ref' = EnsuredRef(lives + 1)
  /\ \E inherited \in {<<>>, <<"ghost">>}, asked, snapshot \in BOOLEAN :
       /\ turn' = Fenced(inherited) \o IF asked THEN <<"question">> ELSE <<>>
       /\ step' = IF asked THEN <<"boundary">> ELSE <<>>
       /\ parked' = (snapshot /\ ~asked)
  /\ UNCHANGED <<log, picked, call, closed, clears>>

\* sidechat.prompt: delivered at once to a live agent.
Prompt(c) ==
  /\ Admitted(c)
  /\ closed' = FALSE
  /\ IF live # 0
       THEN /\ Delivery(step, turn)
            /\ call' = Done(c)
       ELSE /\ call' = [call EXCEPT ![c] = [at |-> "resuming", does |-> "prompt"]]
            /\ UNCHANGED <<inbox, parked>>
  /\ UNCHANGED <<made, runtime, log, picked, ref, disposer, clears>>

\* sidechat.model: the selection is normalised first.
Model(c, route) ==
  /\ Admitted(c)
  /\ closed' = FALSE
  /\ call' = [call EXCEPT ![c] = [at |-> "checking", does |-> "model", route |-> route]]
  /\ UNCHANGED <<made, runtime, log, picked, inbox, maps, clears>>

\* The normalised selection: committed on a live agent, or a resume is awaited.
Normalized(c) ==
  /\ call[c].at = "checking"
  /\ IF live # 0
       THEN /\ Selection(EnsuredRef(live), call[c].route)
            /\ call' = Done(c)
       ELSE /\ call' = [call EXCEPT ![c].at = "resuming"]
            /\ UNCHANGED <<picked, ref>>
  /\ UNCHANGED <<made, runtime, log, inbox, parked, disposer, closed, clears>>

\* agents.resume answered (ensureLiveThread), and the call goes on: a session
\* has one live agent, so a second resume is refused.
Resumed(c) ==
  /\ call[c].at = "resuming" /\ live = 0
  /\ Registered
  /\ call' = Done(c)
  /\ IF call[c].does = "prompt"
       THEN /\ Delivery(Swept(step), Swept(turn))
            /\ ref' = EnsuredRef(lives + 1)
            /\ UNCHANGED picked
       ELSE /\ Selection(EnsuredRef(lives + 1), call[c].route)
            /\ step' = Swept(step) /\ turn' = Swept(turn)
            /\ UNCHANGED parked
  /\ UNCHANGED <<made, log, closed, clears>>

\* A call is refused: the route is unavailable, or the resume failed.
Refused(c) ==
  /\ c \in InFlight
  /\ call' = Done(c)
  /\ UNCHANGED <<made, runtime, log, picked, inbox, maps, closed, clears>>

\* sidechat.dispose up to its await; the tab's onClose calls it. The agent
\* stays in the registry until the dispose is through.
Dispose ==
  /\ made /\ ~closed
  /\ InFlight # {} => Overlaps
  /\ closed' = TRUE
  /\ parked' = FALSE /\ ref' = NoRef /\ disposer' = 0
  /\ dying' = (dying \/ (disposer # 0 /\ disposer = live))
  /\ UNCHANGED <<made, live, lives, log, picked, inbox, call, clears>>

\* The host let the disposed agent go.
Gone ==
  /\ dying
  /\ dying' = FALSE /\ live' = 0
  /\ UNCHANGED <<made, lives, log, picked, inbox, maps, call, closed, clears>>

\* sidechat.dequeue: the whole queue, or one row of either half.
Dequeue ==
  /\ live # 0 /\ clears < MaxClears
  /\ clears' = clears + 1
  /\ \/ step' = <<>> /\ turn' = <<>>
     \/ /\ PicksOut
        /\ \/ \E i \in DOMAIN step : step' = RemoveAt(step, i) /\ UNCHANGED turn
           \/ \E i \in DOMAIN turn : turn' = RemoveAt(turn, i) /\ UNCHANGED step
  /\ UNCHANGED <<made, runtime, log, picked, maps, call, closed>>

-----------------------------------------------------------------------------
(* The host.                                                                  *)

\* The agent's driver claims its inbox: next-step first, all of it, and one
\* queued turn. A turn already running claims next-step at its step boundary.
Claim ==
  /\ live # 0
  /\ \/ /\ turn # <<>>
        /\ log' = log \o step \o <<Head(turn)>>
        /\ turn' = Tail(turn)
     \/ /\ step # <<>> /\ log # <<>>
        /\ log' = log \o step
        /\ UNCHANGED turn
  /\ step' = <<>>
  /\ UNCHANGED <<made, runtime, picked, maps, call, closed, clears>>

\* The host restarts: the maps and the agents are lost, the session stays.
Restart ==
  /\ live # 0
  /\ live' = 0 /\ dying' = FALSE
  /\ parked' = FALSE /\ ref' = NoRef /\ disposer' = 0
  /\ call' = [c \in Calls |-> IF c \in InFlight THEN [at |-> "done"] ELSE call[c]]
  /\ UNCHANGED <<made, lives, log, picked, inbox, closed, clears>>

Next ==
  \/ Start
  \/ \E c \in Calls : Prompt(c) \/ Normalized(c) \/ Resumed(c) \/ Refused(c)
  \/ \E c \in Calls, route \in Models : Model(c, route)
  \/ Dispose \/ Gone \/ Dequeue \/ Claim \/ Restart

Spec == Init /\ [][Next]_vars

-----------------------------------------------------------------------------
(* Properties.                                                                *)

\* Every variable keeps its type.
TypeOK ==
  /\ made \in BOOLEAN /\ dying \in BOOLEAN /\ parked \in BOOLEAN /\ closed \in BOOLEAN
  /\ live \in 0..MaxLives /\ lives \in 0..MaxLives /\ disposer \in 0..MaxLives
  /\ log \in Seq(Message) /\ step \in Seq(Message) /\ turn \in Seq(Message)
  /\ picked \in Models
  /\ ref \in [on: 0..MaxLives, current: Models]
  /\ call \in [Calls -> CallState]
  /\ clears \in 0..MaxClears

\* The boundary is sent once: however prompts, claims, resumes and restarts
\* interleave, the log and the inbox together hold at most one.
BoundaryOnce ==
  Cardinality({i \in DOMAIN (log \o step \o turn) :
                 (log \o step \o turn)[i] = "boundary"}) <= 1

\* The first contact opens the thread's log with the boundary: the model never
\* reads a question of the side chat without it (admitFirstContact).
BoundaryFirst == log # <<>> => log[1] = "boundary"

\* What sat unclaimed in the parent is never sent as the thread's own input.
NoGhostDelivered == ~ Contains(log, "ghost")

\* The user's own queued input survives a resume: what a step takes out of the
\* inbox without logging it was inherited, or was dequeued.
KeepsOwnInput ==
  clears' = clears =>
    LET questions(s) == Len(SelectSeq(s, LAMBDA m : m = "question"))
    IN  questions(log \o turn)' >= questions(log \o turn)
OwnInputKept == [][KeepsOwnInput]_vars

\* A parked snapshot waits for the first contact and goes with it: none is left
\* for a thread whose boundary is on its way.
SnapshotGoesWithBoundary ==
  parked => ~ Contains(log \o step, "boundary")

\* A live agent requests with the model the thread's log records, also after a
\* resume (ensureModelSelection).
SelectionHonoured ==
  live # 0 /\ ~dying =>
    picked = IF ref.on = live THEN ref.current ELSE DefaultModel

\* Closing the tab releases the thread's agent: once its dispose is through and
\* no later call was made, the thread is cold.
ClosedIsReleased == closed /\ ~dying /\ InFlight = {} => live = 0

\* A thread that is open has the agent its log describes, one that is closed none.
ThreadsHold == ClosedIsReleased /\ SelectionHonoured
=============================================================================
