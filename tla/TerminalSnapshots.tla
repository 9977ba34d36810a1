------------------------ MODULE TerminalSnapshots ------------------------
(***************************************************************************)
(* How a browser keeps up with its workspace's terminal catalog:           *)
(*  - WorkspaceTerminalManager.subscribe and notify count changes and      *)
(*    publish them, at once or coalesced (src/workspace-terminal.ts);       *)
(*  - attachWorkspaceTerminalWatch ties one socket to one subscription,     *)
(*    after an await (src/workspace-terminal-watch.ts);                     *)
(*  - watchWorkspaceTerminals connects, reconnects and drops frames that   *)
(*    are not newer (src/client/workspace-terminal-watch.ts).               *)
(* One workspace, one watcher, any number of sockets in succession.  The    *)
(* host may restart, which starts its revisions again from 0.              *)
(***************************************************************************)
EXTENDS Integers, Sequences, FiniteSets

CONSTANTS
  Conns,       \* sockets the watcher can ever open
  MaxChanges,  \* changes of the catalog (a bound)
  MaxFaults,   \* cut connections, refusals and restarts (a bound)
  NoConn

ConstantsAssumption ==
  NoConn \notin Conns /\ MaxChanges \in Nat /\ MaxFaults \in Nat

VARIABLES
  catalog,    \* which catalog the host has, counted over all its lives
  revision,   \* SubscriptionState.revision
  timer,      \* SubscriptionState.timer is set
  listeners,  \* SubscriptionState.listeners
  host,       \* the host's end of each socket
  wire,       \* frames under way to the browser
  browser,    \* the browser's end of each socket
  watch,      \* the closure of watchWorkspaceTerminals
  shown,      \* the catalog of the last onSnapshot, -1 before the first
  faults

vars == <<catalog, revision, timer, listeners, host, wire, browser, watch, shown, faults>>
hostVars == <<catalog, revision, timer, listeners, host>>
browserVars == <<browser, watch, shown>>

Snapshot(r, k) == [kind |-> "snapshot", revision |-> r, catalog |-> k]
\* Mutant: a refusal and an error close with the same, third code.
Close_Alike(code) == [kind |-> "closed", revision |-> 0, catalog |-> 0]
Close(code) == [kind |-> code, revision |-> 0, catalog |-> 0]
Frames == [kind : {"snapshot", "policy", "error"}, revision : Nat, catalog : Nat]

TypeOK ==
  /\ catalog \in 0..(MaxChanges + MaxFaults) /\ revision \in 0..MaxChanges
  /\ timer \in BOOLEAN /\ listeners \subseteq Conns
  /\ host \in [Conns -> {"none", "resolving", "subscribed", "closing", "closed"}]
  /\ wire \in [Conns -> Seq(Frames)]
  /\ browser \in [Conns -> {"unused", "connecting", "open", "closing", "closed"}]
  /\ watch \in [socket : Conns \cup {NoConn}, revision : Int, retrying : BOOLEAN,
                stopped : BOOLEAN, disposed : BOOLEAN]
  /\ shown \in -1..(MaxChanges + MaxFaults)
  /\ faults \in 0..MaxFaults

\* A watch that begins, or one disposed of before it opened a socket.
Begins(disposed) ==
  /\ catalog = 0 /\ revision = 0 /\ timer = FALSE /\ listeners = {}
  /\ host = [c \in Conns |-> "none"]
  /\ wire = [c \in Conns |-> << >>]
  /\ browser = [c \in Conns |-> "unused"]
  /\ watch = [socket |-> NoConn, revision |-> -1, retrying |-> ~disposed,
              stopped |-> FALSE, disposed |-> disposed]
  /\ shown = -1 /\ faults = 0
Init == Begins(FALSE)

-----------------------------------------------------------------------------
(* The host. *)

\* publish(): the catalog as it is now, to everyone listening on an open socket.
Published(frame) ==
  [c \in Conns |-> IF c \in listeners /\ host[c] = "subscribed" THEN Append(wire[c], frame) ELSE wire[c]]

\* notify(): a structural change is published at once and takes a pending
\* publication with it.
ChangeNow ==
  /\ catalog < MaxChanges /\ revision < MaxChanges
  /\ catalog' = catalog + 1 /\ revision' = revision + 1
  /\ timer' = FALSE
  /\ wire' = Published(Snapshot(revision', catalog'))
  /\ UNCHANGED <<listeners, host, browserVars, faults>>

Due == listeners # {}
\* Mutant: I/O does not count as a revision.
ChangeSoon_Uncounted ==
  /\ catalog < MaxChanges /\ revision < MaxChanges
  /\ catalog' = catalog + 1 /\ timer' = (timer \/ Due)
  /\ UNCHANGED <<revision, listeners, host, wire, browserVars, faults>>
\* notify() of terminal I/O: at most one publication per 100 ms.
ChangeSoon ==
  /\ catalog < MaxChanges /\ revision < MaxChanges
  /\ catalog' = catalog + 1 /\ revision' = revision + 1
  /\ timer' = (timer \/ Due)
  /\ UNCHANGED <<listeners, host, wire, browserVars, faults>>

TimerPublishes ==
  /\ timer /\ timer' = FALSE
  /\ wire' = Published(Snapshot(revision, catalog))
  /\ UNCHANGED <<catalog, revision, listeners, host, browserVars, faults>>

Upgrade(c) ==
  /\ browser[c] \in {"connecting", "closing"} /\ host[c] = "none"
  /\ host' = [host EXCEPT ![c] = "resolving"]
  /\ UNCHANGED <<catalog, revision, timer, listeners, wire, browserVars, faults>>

\* resolveTerminalWorkspace answered: subscribe and send the first snapshot,
\* unless the socket closed meanwhile.
Subscribe(c) ==
  /\ host[c] = "resolving"
  /\ host' = [host EXCEPT ![c] = "subscribed"]
  /\ listeners' = listeners \cup {c}
  /\ wire' = [wire EXCEPT ![c] = Append(@, Snapshot(revision, catalog))]
  /\ UNCHANGED <<catalog, revision, timer, browserVars, faults>>

\* The workspace could not be resolved: a refusal (1008) or an error (1011).
Refuse(c, code) ==
  /\ host[c] = "resolving" /\ faults < MaxFaults
  /\ host' = [host EXCEPT ![c] = "closed"]
  /\ wire' = [wire EXCEPT ![c] = Append(@, Close(code))]
  /\ faults' = faults + 1
  /\ UNCHANGED <<catalog, revision, timer, listeners, browserVars>>

\* More than 1 MiB unsent: the socket is closed instead of served, and the
\* subscription ends with its close event.
Backpressure(c) ==
  /\ c \in listeners /\ host[c] = "subscribed" /\ Len(wire[c]) > 1
  /\ faults < MaxFaults
  /\ host' = [host EXCEPT ![c] = "closing"]
  /\ wire' = [wire EXCEPT ![c] = Append(@, Close("error"))]
  /\ faults' = faults + 1
  /\ UNCHANGED <<catalog, revision, timer, listeners, browserVars>>

\* Mutant: closing the socket forgets the subscription.
Unsubscribed_Never(c) == listeners
Unsubscribed(c) == listeners \ {c}
\* The socket's close event on the host: dispose().
HostSeesClose(c) ==
  /\ browser[c] \in {"closing", "closed"} /\ host[c] \in {"resolving", "subscribed", "closing"}
  /\ host' = [host EXCEPT ![c] = "closed"]
  /\ listeners' = Unsubscribed(c)
  /\ timer' = (timer /\ listeners' # {})
  /\ wire' = [wire EXCEPT ![c] = << >>]
  /\ UNCHANGED <<catalog, revision, browserVars, faults>>

\* The host starts anew: other terminals, revisions from 0, sockets cut.
Restart ==
  /\ faults < MaxFaults
  /\ catalog' = catalog + 1 /\ revision' = 0 /\ timer' = FALSE /\ listeners' = {}
  /\ host' = [c \in Conns |-> IF host[c] = "none" THEN "none" ELSE "closed"]
  /\ faults' = faults + 1
  /\ UNCHANGED <<wire, browserVars>>

-----------------------------------------------------------------------------
(* The browser. *)

LiveSocket(c) == ~watch.disposed /\ ~watch.stopped /\ watch.socket = c

\* connect(), at once and then whenever the retry timer fires.
\* Mutant: the revision baseline outlives the socket.
Baseline_Kept == watch.revision
Baseline == -1
Connect(c) ==
  /\ watch.retrying /\ ~watch.disposed /\ ~watch.stopped
  /\ browser[c] = "unused"
  /\ browser' = [browser EXCEPT ![c] = "connecting"]
  /\ watch' = [watch EXCEPT !.socket = c, !.revision = Baseline, !.retrying = FALSE]
  /\ UNCHANGED <<hostVars, wire, shown, faults>>

\* Mutant: onopen keeps a socket nobody wants any more.
AfterOpen_Kept(c) == "open"
AfterOpen(c) == IF LiveSocket(c) THEN "open" ELSE "closing"
SeeOpen(c) ==
  /\ browser[c] = "connecting" /\ host[c] # "none"
  /\ browser' = [browser EXCEPT ![c] = AfterOpen(c)]
  /\ UNCHANGED <<hostVars, wire, watch, shown, faults>>

\* onmessage: only a frame newer than the last of this socket is shown.
Receive(c) ==
  /\ browser[c] = "open" /\ wire[c] # << >>
  /\ LET frame == Head(wire[c]) IN
       /\ frame.kind = "snapshot"
       /\ IF LiveSocket(c) /\ frame.revision > watch.revision
          THEN /\ watch' = [watch EXCEPT !.revision = frame.revision]
               /\ shown' = frame.catalog
          ELSE UNCHANGED <<watch, shown>>
  /\ wire' = [wire EXCEPT ![c] = Tail(@)]
  /\ UNCHANGED <<hostVars, browser, faults>>

\* Mutant: onclose retries whatever became of the watch.
AfterClose_Always(c, code) == [watch EXCEPT !.socket = NoConn, !.retrying = TRUE]
\* onclose: a refusal stops the watch, anything else retries.
AfterClose(c, code) ==
  IF ~LiveSocket(c) THEN watch
  ELSE IF code = "policy" THEN [watch EXCEPT !.socket = NoConn, !.stopped = TRUE]
  ELSE [watch EXCEPT !.socket = NoConn, !.retrying = TRUE]

SeeClose(c) ==
  /\ browser[c] \in {"connecting", "open", "closing"}
  /\ host[c] \in {"closing", "closed"}
  /\ \/ /\ wire[c] = << >> \/ browser[c] = "closing"
        /\ watch' = AfterClose(c, "error")
     \/ /\ wire[c] # << >> /\ Head(wire[c]).kind # "snapshot"
        /\ watch' = AfterClose(c, Head(wire[c]).kind)
  /\ browser' = [browser EXCEPT ![c] = "closed"]
  /\ UNCHANGED <<hostVars, wire, shown, faults>>

\* The connection breaks, or never comes about: frames under way are lost.
Cut(c) ==
  /\ browser[c] \in {"connecting", "open", "closing"} /\ faults < MaxFaults
  /\ wire' = [wire EXCEPT ![c] = << >>]
  /\ browser' = [browser EXCEPT ![c] = "closed"]
  /\ watch' = AfterClose(c, "error")
  /\ faults' = faults + 1
  /\ UNCHANGED <<hostVars, shown>>

\* The subscriber leaves; a socket still connecting closes itself on open.
Dispose ==
  /\ ~watch.disposed
  /\ watch' = [watch EXCEPT !.disposed = TRUE, !.retrying = FALSE]
  /\ browser' = [c \in Conns |->
       IF watch.socket = c /\ browser[c] = "open" THEN "closing" ELSE browser[c]]
  /\ UNCHANGED <<hostVars, wire, shown, faults>>

-----------------------------------------------------------------------------
Next ==
  \/ ChangeNow \/ ChangeSoon \/ TimerPublishes
  \/ \E c \in Conns :
       \/ Upgrade(c) \/ Subscribe(c) \/ Backpressure(c) \/ HostSeesClose(c)
       \/ \E code \in {"policy", "error"} : Refuse(c, code)
       \/ Connect(c) \/ SeeOpen(c) \/ Receive(c) \/ SeeClose(c) \/ Cut(c)
  \/ Restart \/ Dispose

Spec == Init /\ [][Next]_vars

\* Timers fire, awaited lookups settle, and an unbroken connection delivers.
Fairness ==
  /\ WF_vars(TimerPublishes)
  /\ WF_vars(\E c \in Conns : Connect(c))
  /\ \A c \in Conns :
       /\ WF_vars(Upgrade(c)) /\ WF_vars(Subscribe(c)) /\ WF_vars(HostSeesClose(c))
       /\ WF_vars(SeeOpen(c)) /\ WF_vars(Receive(c)) /\ WF_vars(SeeClose(c))
FairSpec == Spec /\ Fairness

-----------------------------------------------------------------------------
(* Properties. *)

\* Nobody listens for a closed socket, whenever in its life it closed: the
\* close may fall into the lookup before the subscription.
NoLeakedListener ==
  /\ \A c \in listeners : host[c] \in {"subscribed", "closing"}
  /\ timer => listeners # {}

\* Two frames on their way over one socket are in order, and one revision
\* never stands for two catalogs: dropping "not newer" frames loses nothing.
RevisionsDistinguish ==
  \A c \in Conns : host[c] = "subscribed" =>
    \A i, j \in 1..Len(wire[c]) :
      i < j => /\ wire[c][i].revision <= wire[c][j].revision
               /\ wire[c][i].revision = wire[c][j].revision
                    => wire[c][i].catalog = wire[c][j].catalog

\* A retry is scheduled only by the watch's own last socket: none is left
\* behind by a watch that ended, and no two connections are ever attempted.
RetriesAlone ==
  watch.retrying => watch.socket = NoConn /\ ~watch.disposed /\ ~watch.stopped

\* No subscription outlives its socket (dispose() of workspace-terminal-watch.ts)
\* and no retry its watch (the client's retry()).
NothingRunsUnowned == NoLeakedListener /\ RetriesAlone

\* However publications are coalesced and connections lost, and across a
\* restart of the host: once changes and faults end, a watcher that was not
\* refused shows the host's catalog.
Converges == <>[](watch.stopped \/ watch.disposed \/ shown = catalog)

\* A watch that was disposed of leaves no socket open, even one that was
\* still connecting.
DisposedHangsUp ==
  watch.disposed ~> \A c \in Conns : browser[c] \in {"unused", "closed"}
=============================================================================
