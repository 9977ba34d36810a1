----------------------------- MODULE AgentOpens -----------------------------
(***************************************************************************)
(* Pages the model opens in the sidebar: the sidebar_open tool and its       *)
(* delivery queue (src/agent-opens.ts), the setting that registers the       *)
(* tool and the socket that carries the opens (src/index.ts), and the        *)
(* browser's push loop (src/client/sidebar/use-host-feeds.ts).              *)
(*                                                                         *)
(* An open is consumed when it is sent, so it must never be applied twice;   *)
(* without an attached view it waits, in a queue that keeps the newest.      *)
(***************************************************************************)
EXTENDS Naturals, FiniteSets, Sequences, SequencesExt

CONSTANTS
  Sessions, Calls,
  Views,         \* sockets the browser can ever open
  QueueMax,      \* AGENT_OPEN_QUEUE_MAX
  FailureLimit,  \* FAILURE_LIMIT
  MaxSwitches,   \* sessions shown one after the other (a bound)
  MaxCuts,       \* connections that break or are refused (a bound)
  MaxToggles,    \* changes of the setting (a bound)
  Window,        \* is there time between a socket's closing and its close event?
  None

ASSUME ConstantsAssumption ==
  /\ QueueMax \in Nat \ {0} /\ FailureLimit \in Nat \ {0}
  /\ MaxSwitches \in Nat /\ MaxCuts \in Nat /\ MaxToggles \in Nat
  /\ Window \in BOOLEAN /\ Sessions # {} /\ None \notin Sessions \cup Views

VARIABLES
  saved,        \* agentOpenTools in the settings document
  prefs,        \* the same, as the browser last read it
  registered,   \* the tool is registered (openToolsDisposers)
  pending, subscribers,                 \* AgentOpenRegistry
  call,         \* each tool call's phase and session
  mounted,      \* the session the browser shows
  socket, failures, retrying,           \* its push loop
  browser, host,                        \* both ends of every socket
  session,      \* the session a socket was opened for
  wire,         \* opens under way to the browser
  down,         \* the plugin was torn down
  budget,
  enqueued,     \* history: the calls in the order of their enqueue
  applied,      \* history: the calls in the order their page was opened
  unsent        \* history: calls no open socket took

loop == <<mounted, socket, failures, retrying>>
links == <<browser, host, session, wire>>
registry == <<pending, subscribers>>
gate == <<saved, prefs, registered>>
history == <<enqueued, applied, unsent>>
vars == <<gate, registry, call, loop, links, down, budget, history>>

Phases == {"idle", "asking", "refused", "queued", "delivered"}
Queued == UNION {ToSet(pending[s]) : s \in Sessions}

TypeOK ==
  /\ saved \in BOOLEAN /\ prefs \in BOOLEAN /\ registered \in BOOLEAN /\ down \in BOOLEAN
  /\ \A s \in Sessions : pending[s] \in Seq(Calls)
  /\ subscribers \in [Sessions -> SUBSET Views]
  /\ call \in [Calls -> [phase : Phases, session : Sessions]]
  /\ mounted \in Sessions \cup {None} /\ socket \in Views \cup {None}
  /\ failures \in Nat /\ retrying \in BOOLEAN
  /\ browser \in [Views -> {"unused", "connecting", "open", "closed"}]
  /\ host \in [Views -> {"none", "open", "closing", "gone"}]
  /\ session \in [Views -> Sessions]
  /\ \A v \in Views : wire[v] \in Seq(Calls)
  /\ \A s \in Sessions, v \in Views :
       v \in subscribers[s] => session[v] = s /\ host[v] \in {"open", "closing"}

Init ==
  /\ saved \in BOOLEAN /\ prefs = saved /\ registered = saved
  /\ pending = [s \in Sessions |-> << >>] /\ subscribers = [s \in Sessions |-> {}]
  /\ call \in [Calls -> [phase : {"idle"}, session : Sessions]]
  /\ mounted = None /\ socket = None /\ failures = 0 /\ retrying = FALSE
  /\ browser = [v \in Views |-> "unused"] /\ host = [v \in Views |-> "none"]
  /\ session = [v \in Views |-> CHOOSE s \in Sessions : TRUE]
  /\ wire = [v \in Views |-> << >>]
  /\ down = FALSE /\ budget = [switches |-> 0, cuts |-> 0, toggles |-> 0]
  /\ enqueued = << >> /\ applied = << >> /\ unsent = {}

Spend(what, max) == /\ budget[what] < max
                    /\ budget' = [budget EXCEPT ![what] = @ + 1]

-----------------------------------------------------------------------------
(* The setting and its gate. *)

\* Somebody saves the setting; the gate follows only when it is read.
Save ==
  /\ Spend("toggles", MaxToggles) /\ ~down
  /\ saved' = ~saved
  /\ UNCHANGED <<prefs, registered, registry, call, loop, links, down, history>>

\* settingsFace.get after the document's update: syncOpenToolsGate, and the
\* browser's own copy.
ReadSettings ==
  /\ ~down /\ prefs # saved
  /\ registered' = saved /\ prefs' = saved
  /\ pending' = IF saved \/ ~registered THEN pending ELSE [s \in Sessions |-> << >>]
  /\ UNCHANGED <<saved, subscribers, call, loop, links, down, budget, history>>

-----------------------------------------------------------------------------
(* The tool. *)

\* execute() begins and awaits the session's folder and the target's kind.
Ask(k) ==
  /\ registered /\ call[k].phase = "idle"
  /\ call' = [call EXCEPT ![k].phase = "asking"]
  /\ UNCHANGED <<gate, registry, loop, links, down, budget, history>>

\* The target is no file, or its tab type is turned off.
Refuse(k) ==
  /\ call[k].phase = "asking"
  /\ call' = [call EXCEPT ![k].phase = "refused"]
  /\ UNCHANGED <<gate, registry, loop, links, down, budget, history>>

\* Mutant: past the cap the newest open is dropped.
Kept_Oldest(q) == IF Len(q) > QueueMax THEN SubSeq(q, 1, QueueMax) ELSE q
\* Past the cap the oldest opens are dropped.
Kept(q) == IF Len(q) > QueueMax THEN SubSeq(q, Len(q) - QueueMax + 1, Len(q)) ELSE q

\* What a send to these views puts on their wires: only an open socket takes it.
Sent(views, calls) ==
  [v \in Views |-> IF v \in views /\ host[v] = "open" THEN wire[v] \o calls ELSE wire[v]]

\* Consumed on send.
AfterSend(q) == << >>

\* Mutant: a session with a view under way counts as attached.
Attached_Ever(s) == {v \in Views : session[v] = s /\ browser[v] # "unused"}
\* The views an open is sent to.
Attached(s) == subscribers[s]
\* enqueue(): to every attached view, or into the queue.
Enqueue(k) ==
  /\ call[k].phase = "asking"
  /\ LET s == call[k].session
         views == Attached(s)
         queue == Kept(Append(pending[s], k)) IN
       /\ call' = [call EXCEPT ![k].phase = IF views # {} THEN "delivered" ELSE "queued"]
       /\ pending' = [pending EXCEPT ![s] = IF views # {} THEN AfterSend(queue) ELSE queue]
       /\ wire' = Sent(views, <<k>>)
       /\ unsent' = IF \E v \in views : host[v] = "open" THEN unsent ELSE unsent \cup {k}
  /\ enqueued' = Append(enqueued, k)
  /\ UNCHANGED <<gate, subscribers, loop, browser, host, session, down, budget,
                 applied>>

-----------------------------------------------------------------------------
(* The browser's push loop. *)

\* Mutant: the effect's cleanup leaves the old socket open.
Left_Open(v) == browser[v]
\* The effect's cleanup closes the socket of the session shown before.
Left(v) == "closed"
\* The effect of the session shown: the old socket is closed, one is opened.
Switch(s, v) ==
  /\ Spend("switches", MaxSwitches) /\ s # mounted /\ browser[v] = "unused"
  /\ mounted' = s /\ socket' = v /\ failures' = 0 /\ retrying' = FALSE
  /\ browser' = [u \in Views |-> IF u = v THEN "connecting"
                                 ELSE IF u = socket THEN Left(u) ELSE browser[u]]
  /\ session' = [session EXCEPT ![v] = s]
  /\ UNCHANGED <<gate, registry, call, host, wire, down, enqueued, applied, unsent>>

\* The retry timer of the loop: connect().
Retry(v) ==
  /\ retrying /\ browser[v] = "unused"
  /\ retrying' = FALSE /\ socket' = v
  /\ browser' = [browser EXCEPT ![v] = "connecting"]
  /\ session' = [session EXCEPT ![v] = mounted]
  /\ UNCHANGED <<gate, registry, call, mounted, failures, host, wire, down, budget, history>>

\* Mutant: the limit counts the first connection too.
MayRetry_Less(count) == count + 1 < FailureLimit
\* Another try, until the limit.
MayRetry(count) == count < FailureLimit
\* onclose of the loop's socket.
OnClose(v) ==
  IF v = socket
  THEN /\ socket' = None /\ failures' = failures + 1
       /\ retrying' = MayRetry(failures + 1)
  ELSE UNCHANGED <<socket, failures, retrying>>

\* The connection breaks; the host notices later. The frames under way are lost.
Cut(v) ==
  /\ Spend("cuts", MaxCuts) /\ browser[v] = "open"
  /\ browser' = [browser EXCEPT ![v] = "closed"] /\ wire' = [wire EXCEPT ![v] = << >>]
  /\ OnClose(v)
  /\ UNCHANGED <<gate, registry, call, mounted, host, session, down, enqueued, applied, unsent>>

\* The connection is never established.
Refused(v) ==
  /\ Spend("cuts", MaxCuts) /\ browser[v] = "connecting"
  /\ browser' = [browser EXCEPT ![v] = "closed"] /\ host' = [host EXCEPT ![v] = "gone"]
  /\ OnClose(v)
  /\ UNCHANGED <<gate, registry, call, mounted, session, wire, down, enqueued, applied, unsent>>

\* onmessage: the page opens, unless the setting is off.
Receive(v) ==
  /\ browser[v] = "open" /\ wire[v] # << >>
  /\ wire' = [wire EXCEPT ![v] = Tail(@)]
  /\ applied' = IF prefs THEN Append(applied, Head(wire[v])) ELSE applied
  /\ UNCHANGED <<gate, registry, call, loop, browser, host, session, down, budget,
                 enqueued, unsent>>

-----------------------------------------------------------------------------
(* The host's end of the socket. *)

\* Mutant: the newest open is replayed first.
Replayed_Reversed(s) == Reverse(pending[s])
\* What attach() replays, oldest first.
Replayed(s) == pending[s]

\* Mutant: a replayed queue of one is left for the next view.
Consumed_Later(q) == IF Len(q) = 1 THEN q ELSE << >>
\* A replayed queue is deleted.
Consumed(q) == << >>

\* The upgrade: attach(), which replays what waits. The browser may have given
\* the socket up meanwhile.
Accept(v) ==
  /\ ~down /\ host[v] = "none" /\ browser[v] \in {"connecting", "closed"}
  /\ LET s == session[v]
         queue == Replayed(s) IN
       /\ subscribers' = [subscribers EXCEPT ![s] = @ \cup {v}]
       /\ pending' = IF queue = << >> THEN pending ELSE [pending EXCEPT ![s] = Consumed(queue)]
       /\ wire' = IF browser[v] = "connecting" THEN [wire EXCEPT ![v] = @ \o queue] ELSE wire
  /\ host' = [host EXCEPT ![v] = "open"]
  /\ browser' = [browser EXCEPT ![v] = IF @ = "connecting" THEN "open" ELSE @]
  /\ UNCHANGED <<gate, call, loop, session, down, budget, enqueued, applied, unsent>>

\* The socket is closing: sends are skipped, the view is still attached.
Closing(v) ==
  /\ Window /\ host[v] = "open" /\ browser[v] = "closed"
  /\ host' = [host EXCEPT ![v] = "closing"]
  /\ UNCHANGED <<gate, registry, call, loop, browser, session, wire, down, budget, history>>

\* Mutant: the disposer forgets the view only while it is the last one.
Detached_Last(views, v) == IF views = {v} THEN {} ELSE views
\* The disposer of attach().
Detached(views, v) == views \ {v}
\* The close event.
HostClosed(v) ==
  /\ host[v] \in {"open", "closing"} /\ (browser[v] = "closed" \/ down)
  /\ host' = [host EXCEPT ![v] = "gone"]
  /\ subscribers' = [subscribers EXCEPT ![session[v]] = Detached(@, v)]
  /\ UNCHANGED <<gate, pending, call, loop, browser, session, wire, down, budget, history>>

\* The plugin is torn down: the tool goes, the registry is emptied, the
\* sockets are told to close.
Teardown ==
  /\ ~down /\ down' = TRUE
  /\ registered' = FALSE
  /\ pending' = [s \in Sessions |-> << >>] /\ subscribers' = [s \in Sessions |-> {}]
  /\ host' = [v \in Views |-> IF host[v] = "open" THEN "closing" ELSE host[v]]
  /\ UNCHANGED <<saved, prefs, call, loop, browser, session, wire, budget, history>>

-----------------------------------------------------------------------------
Next ==
  \/ Save \/ ReadSettings \/ Teardown
  \/ \E k \in Calls : Ask(k) \/ Refuse(k) \/ Enqueue(k)
  \/ \E v \in Views :
       \/ \E s \in Sessions : Switch(s, v)
       \/ Retry(v) \/ Cut(v) \/ Refused(v) \/ Receive(v)
       \/ Accept(v) \/ Closing(v) \/ HostClosed(v)

Spec == Init /\ [][Next]_vars

\* Timers fire, and a host that runs answers handshakes and delivers.
Fairness ==
  /\ WF_vars(\E v \in Views : Retry(v))
  /\ \A v \in Views : WF_vars(Accept(v)) /\ WF_vars(Receive(v)) /\ WF_vars(HostClosed(v))
FairSpec == Spec /\ Fairness

-----------------------------------------------------------------------------
(* Properties. *)

\* "A reconnect must never replay an open the client already applied": each
\* page opens once, however the browser switches and reconnects.
AppliedOnce == IsInjective(applied)

\* Pages of one session open in the order in which the model asked for them.
AppliedInOrder ==
  \A i, j \in DOMAIN applied :
    i < j /\ call[applied[i]].session = call[applied[j]].session
      => \E a, b \in DOMAIN enqueued :
           a < b /\ enqueued[a] = applied[i] /\ enqueued[b] = applied[j]

\* enqueue() with a view attached sends only the new open and deletes the
\* whole queue: no view may be attached while something waits.
NothingWaitsWhileAttached ==
  \A s \in Sessions : subscribers[s] # {} => pending[s] = << >>

\* The queue is bounded, and "the newest intent survives": what waits is newer
\* than anything of its session that waited and was dropped.
NewestWait ==
  \A s \in Sessions :
    /\ Len(pending[s]) <= QueueMax
    /\ \A i, j \in DOMAIN enqueued :
         /\ i < j /\ call[enqueued[i]].session = s /\ call[enqueued[j]].session = s
         /\ enqueued[i] \in ToSet(pending[s])
         => enqueued[j] \in ToSet(pending[s])

\* What is sent arrives once and in order, nothing waits beside an attached view,
\* and what waits in a queue that overflowed is the newest.
OpensArrive == AppliedOnce /\ AppliedInOrder /\ NothingWaitsWhileAttached /\ NewestWait

\* delivered: true says "the open was pushed to a connected sidebar".
DeliveredWasSent == \A k \in Calls : call[k].phase = "delivered" => k \notin unsent

\* While a session stays on screen its queued opens do not stay queued.
QueueDrains ==
  \A s \in Sessions :
    (pending[s] # << >> /\ mounted = s) ~> (pending[s] = << >> \/ mounted # s \/ down)
=============================================================================
