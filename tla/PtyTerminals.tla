--------------------------- MODULE PtyTerminals ---------------------------
(***************************************************************************)
(* The UI terminals of the sidebar: PtyManager (src/pty-manager.ts),       *)
(* the host half of a terminal WebSocket (attachTerminal, src/index.ts)    *)
(* and what the browser's TerminalView does to that socket when its view   *)
(* mounts and unmounts (src/client/TerminalView.tsx).                      *)
(*                                                                         *)
(* A shell is named by the key <<session, tab>>.  A connection goes        *)
(*   unused -> connecting -> resolving -> attached -> closed               *)
(* where "resolving" is the await of sessionCwdOf: the socket is upgraded, *)
(* but its message and close listeners are installed only after it, so     *)
(* whatever arrives meanwhile is emitted to nobody.  A socket that hung up *)
(* during that await ends "deaf": attached, and never heard of again.      *)
(***************************************************************************)
EXTENDS Naturals, FiniteSets, Sequences

CONSTANTS
  Sessions, Tabs,       \* conversations, and the tab ids of each
  Cwds,                 \* working directories sessionCwdOf may answer
  Ptys,                 \* node-pty processes that can ever be spawned
  Conns,                \* terminal WebSockets that can ever be made
  MaxPerSession,        \* SIDEBAR_TERMINALS_PER_SESSION
  NoPty, NoCwd, NoConn, \* the "undefined" of each
  HangupWhileConnecting,\* may a view hang up before its socket is attached?
  LateHangup            \* may a socket's close be seen after its successor's open?

Keys == Sessions \X Tabs
SessionOf(k) == k[1]
NoKey == << >>

ASSUME ConstantsAssumption ==
  /\ IsFiniteSet(Sessions) /\ IsFiniteSet(Tabs)
  /\ MaxPerSession \in Nat \ {0}
  /\ NoPty \notin Ptys /\ NoCwd \notin Cwds /\ NoConn \notin Conns
  /\ HangupWhileConnecting \in BOOLEAN
  /\ LateHangup \in BOOLEAN

VARIABLES
  sessions,       \* PtyManager.sessions: key -> handle
  pendingCloses,  \* key -> the delay of its close timer, "none" without one
  parked,         \* PtyManager.parked
  pty,            \* every handle: the cwd it was spawned in, its process's life
  conn,           \* the host side of each socket
  wire,           \* frames under way from the browser, oldest first
  opened,         \* sockets whose onopen the browser has seen
  view,           \* the socket of the mounted view of a key
  tabs,           \* tabs open in their session's layout
  active,         \* the conversation on screen
  tornDown        \* the plugin's teardown effect has run

manager == <<sessions, pendingCloses, parked, pty>>
browser == <<opened, view, tabs, active>>
vars == <<manager, conn, wire, browser, tornDown>>

Lives == {"unspawned", "running", "killed", "exited"}
Phases == {"unused", "connecting", "resolving", "hungUp", "attached", "deaf",
           "closed"}
Frames == {"close", "park", "fin"}

Types ==
  /\ sessions \in [Keys -> Ptys \cup {NoPty}]
  /\ pendingCloses \in [Keys -> {"none", "now", "grace"}]
  /\ parked \subseteq Keys
  /\ pty \in [Ptys -> [cwd : Cwds \cup {NoCwd}, life : Lives]]
  /\ conn \in [Conns -> [phase : Phases, key : Keys \cup {NoKey}]]
  /\ wire \in [Conns -> Seq(Frames)]
  /\ opened \subseteq Conns
  /\ view \in [Keys -> Conns \cup {NoConn}]
  /\ tabs \subseteq Keys
  /\ active \in Sessions
  /\ tornDown \in BOOLEAN

\* An entry of the table is of a process that was started and that nobody killed,
\* and of one key: a reconnect never attaches to a shell that close() has ended.
EntriesAlive ==
  /\ \A k \in Keys : sessions[k] # NoPty => pty[sessions[k]].life \in {"running", "exited"}
  /\ \A j, k \in Keys : sessions[j] # NoPty /\ sessions[j] = sessions[k] => j = k

\* The types, and what an entry of the table stands for.
TypeOK == Types /\ EntriesAlive

Init ==
  /\ sessions = [k \in Keys |-> NoPty]
  /\ pendingCloses = [k \in Keys |-> "none"]
  /\ parked = {}
  /\ pty = [p \in Ptys |-> [cwd |-> NoCwd, life |-> "unspawned"]]
  /\ conn = [c \in Conns |-> [phase |-> "unused", key |-> NoKey]]
  /\ wire = [c \in Conns |-> << >>]
  /\ opened = {}
  /\ view = [k \in Keys |-> NoConn]
  /\ tabs = {}
  /\ active \in Sessions
  /\ tornDown = FALSE

-----------------------------------------------------------------------------
(* PtyManager's operations, as the effects the actions below compose. *)

HasHandle(k) == sessions[k] # NoPty
Exited(k) == HasHandle(k) /\ pty[sessions[k]].life = "exited"
KeysOf(s) == {k \in Keys : SessionOf(k) = s /\ HasHandle(k)}

\* Mutant: close() kills, and leaves the entry of a live shell to the zombie cleanup.
SessionsWithout_Exited(ks) ==
  [k \in Keys |-> IF k \in ks /\ Exited(k) THEN NoPty ELSE sessions[k]]
\* close(key) for every key of ks: cancelClose, drop the handle, kill.
SessionsWithout(ks) == [k \in Keys |-> IF k \in ks THEN NoPty ELSE sessions[k]]
TimersWithout(ks) == [k \in Keys |-> IF k \in ks THEN "none" ELSE pendingCloses[k]]
\* Mutant: close() returns early when no timer was pending.
Killed_IfScheduled(ks) ==
  [p \in Ptys |-> IF pty[p].life = "running" /\ \E k \in ks : sessions[k] = p /\ pendingCloses[k] # "none"
                  THEN [pty[p] EXCEPT !.life = "killed"] ELSE pty[p]]
Killed(ks) ==
  [p \in Ptys |-> IF pty[p].life = "running" /\ \E k \in ks : sessions[k] = p
                  THEN [pty[p] EXCEPT !.life = "killed"] ELSE pty[p]]

CloseAll(ks) ==
  /\ sessions' = SessionsWithout(ks)
  /\ pendingCloses' = TimersWithout(ks)
  /\ parked' = parked \ ks
  /\ pty' = Killed(ks)

\* scheduleClose(key, delay): nothing without a handle; replaces an older timer.
ScheduleClose(k, delay) ==
  IF HasHandle(k)
  THEN /\ pendingCloses' = [pendingCloses EXCEPT ![k] = delay]
       /\ parked' = parked \ {k}
       /\ UNCHANGED <<sessions, pty>>
  ELSE UNCHANGED manager

\* Mutant: park() without its cancelClose.
Park_KeepsTimer(k) ==
  IF HasHandle(k)
  THEN parked' = parked \cup {k} /\ UNCHANGED <<sessions, pendingCloses, pty>>
  ELSE UNCHANGED manager
Park(k) ==
  IF HasHandle(k)
  THEN /\ pendingCloses' = [pendingCloses EXCEPT ![k] = "none"]
       /\ parked' = parked \cup {k}
       /\ UNCHANGED <<sessions, pty>>
  ELSE UNCHANGED manager

\* open(): an existing handle is reused when it is live in the same cwd ...
Reusable(k, d) == HasHandle(k) /\ ~Exited(k) /\ pty[sessions[k]].cwd = d
\* ... otherwise it is closed, and so is every exited handle of the session.
ClosedByOpen(k) ==
  {z \in Keys : HasHandle(z) /\ (z = k \/ (SessionOf(z) = SessionOf(k) /\ Exited(z)))}
\* Mutant: off by one at the cap.
LimitReached_Over(k) ==
  Cardinality(KeysOf(SessionOf(k)) \ ClosedByOpen(k)) > MaxPerSession
LimitReached(k) ==
  Cardinality(KeysOf(SessionOf(k)) \ ClosedByOpen(k)) >= MaxPerSession

\* Mutant: a reused handle keeps its close timer.
OpenReuses_KeepsTimer(k, d) ==
  Reusable(k, d) /\ parked' = parked \ {k} /\ UNCHANGED <<sessions, pendingCloses, pty>>
OpenReuses(k, d) ==
  /\ Reusable(k, d)
  /\ pendingCloses' = TimersWithout({k})
  /\ parked' = parked \ {k}
  /\ UNCHANGED <<sessions, pty>>

OpenSpawns(k, d, p) ==
  LET gone == ClosedByOpen(k) IN
  /\ ~Reusable(k, d) /\ ~LimitReached(k)
  /\ pty[p].life = "unspawned"
  /\ sessions' = [SessionsWithout(gone) EXCEPT ![k] = p]
  /\ pendingCloses' = TimersWithout(gone \cup {k})
  /\ parked' = parked \ (gone \cup {k})
  /\ pty' = [Killed(gone) EXCEPT ![p] = [cwd |-> d, life |-> "running"]]

\* The limit is reached, or the shell cannot be resolved or spawned: open()
\* throws, and what it had closed before stays closed.
OpenThrows(k, d) ==
  /\ ~Reusable(k, d)
  /\ CloseAll(ClosedByOpen(k) \cup {k})

-----------------------------------------------------------------------------
(* The host's side of a socket. *)

InPhase(c, ps) == conn[c].phase \in ps
SetPhase(c, ph) == conn' = [conn EXCEPT ![c].phase = ph]

\* No earlier socket of the same key can still be heard by the host.
OnlySocketOf(k, c) ==
  \A b \in Conns \ {c} : conn[b].key = k => InPhase(b, {"closed", "deaf"})

\* The upgrade is accepted and attachTerminal runs up to its await.
Upgrade(c) ==
  /\ InPhase(c, {"connecting"})
  /\ ~tornDown
  /\ SetPhase(c, "resolving")
  /\ UNCHANGED <<manager, wire, browser, tornDown>>

\* sessionCwdOf answered: open() and the listeners, in one turn.
Attach(c) ==
  /\ InPhase(c, {"resolving", "hungUp"})
  /\ \E d \in Cwds :
       \/ OpenReuses(conn[c].key, d)
       \/ \E p \in Ptys : OpenSpawns(conn[c].key, d, p)
  /\ SetPhase(c, IF InPhase(c, {"hungUp"}) THEN "deaf" ELSE "attached")
  /\ UNCHANGED <<wire, browser, tornDown>>

\* sessionCwdOf or open() threw: ws.close(1011).
Refuse(c) ==
  /\ InPhase(c, {"resolving", "hungUp"})
  /\ \/ UNCHANGED manager
     \/ \E d \in Cwds : OpenThrows(conn[c].key, d)
  /\ SetPhase(c, "closed")
  /\ wire' = [wire EXCEPT ![c] = << >>]
  /\ view' = [k \in Keys |-> IF view[k] = c THEN NoConn ELSE view[k]]
  /\ UNCHANGED <<opened, tabs, active, tornDown>>

\* A frame reaches a socket that has no listeners yet.
DeliverUnheard(c) ==
  /\ wire[c] # << >>
  /\ InPhase(c, {"resolving"})
  /\ wire' = [wire EXCEPT ![c] = Tail(@)]
  /\ SetPhase(c, IF Head(wire[c]) = "fin" THEN "hungUp" ELSE "resolving")
  /\ UNCHANGED <<manager, browser, tornDown>>

\* ws.on('message') with a close or a park control frame.
DeliverControl(c) ==
  LET k == conn[c].key IN
  /\ wire[c] # << >>
  /\ InPhase(c, {"attached"})
  /\ \/ Head(wire[c]) = "close" /\ ScheduleClose(k, "now")
     \/ Head(wire[c]) = "park" /\ Park(k)
  /\ wire' = [wire EXCEPT ![c] = Tail(@)]
  /\ UNCHANGED <<conn, browser, tornDown>>

\* Mutants: the parked mark is not looked at; every hangup parks.
GraceAfterHangup_Always(k) == ScheduleClose(k, "grace")
GraceAfterHangup_Parks(k) == Park(k)
\* A bare drop starts the reconnect grace, unless the shell is parked.
GraceAfterHangup(k) ==
  IF k \in parked THEN UNCHANGED manager ELSE ScheduleClose(k, "grace")

\* ws.on('close').
SocketClosed(c) ==
  /\ wire[c] # << >> /\ Head(wire[c]) = "fin"
  /\ InPhase(c, {"attached"})
  /\ GraceAfterHangup(conn[c].key)
  /\ wire' = [wire EXCEPT ![c] = << >>]
  /\ SetPhase(c, "closed")
  /\ UNCHANGED <<browser, tornDown>>

\* The timer of scheduleClose: close(key), whatever handle is under it now.
TimerFires(k) ==
  /\ pendingCloses[k] # "none"
  /\ CloseAll({k})
  /\ UNCHANGED <<conn, wire, browser, tornDown>>

\* The shell ends by itself, or because it was killed (onExit).
ProcessExits(p) ==
  /\ pty[p].life \in {"running", "killed"}
  /\ pty' = [pty EXCEPT ![p].life = "exited"]
  /\ UNCHANGED <<sessions, pendingCloses, parked, conn, wire, browser, tornDown>>

\* The teardown effect: disposeAll, then close every accepted socket.
Teardown ==
  /\ ~tornDown
  /\ tornDown' = TRUE
  /\ CloseAll(Keys)
  /\ wire' = [c \in Conns |->
                IF InPhase(c, {"resolving", "attached"}) /\ "fin" \notin {wire[c][i] : i \in DOMAIN wire[c]}
                THEN Append(wire[c], "fin") ELSE wire[c]]
  /\ conn' = [c \in Conns |-> IF InPhase(c, {"connecting"})
                              THEN [conn[c] EXCEPT !.phase = "closed"] ELSE conn[c]]
  /\ UNCHANGED browser

-----------------------------------------------------------------------------
(* The browser. *)

OpenTab(k) ==
  /\ SessionOf(k) = active /\ k \notin tabs
  /\ tabs' = tabs \cup {k}
  /\ UNCHANGED <<manager, conn, wire, opened, view, active, tornDown>>

\* TerminalView's effect connects; its chunk is lazy, so it may come late.
Mount(k, c) ==
  /\ k \in tabs /\ SessionOf(k) = active /\ view[k] = NoConn
  /\ InPhase(c, {"unused"}) /\ ~tornDown
  /\ LateHangup \/ OnlySocketOf(k, c)
  /\ conn' = [conn EXCEPT ![c] = [phase |-> "connecting", key |-> k]]
  /\ view' = [view EXCEPT ![k] = c]
  /\ UNCHANGED <<manager, wire, opened, tabs, active, tornDown>>

SeeOpen(c) ==
  /\ c \notin opened /\ InPhase(c, {"resolving", "attached"})
  /\ \E k \in Keys : view[k] = c
  /\ opened' = opened \cup {c}
  /\ UNCHANGED <<manager, conn, wire, view, tabs, active, tornDown>>

Settled(k) == view[k] # NoConn /\ view[k] \in opened /\ InPhase(view[k], {"attached"})

\* The unmount cleanup of the views of ks: each sends its control frame when
\* its socket is OPEN, then closes the socket; an unaccepted one is aborted.
Unmount(ks, frame) ==
  LET leaving == {view[k] : k \in ks} \cap Conns IN
  /\ HangupWhileConnecting \/ \A k \in ks : Settled(k)
  /\ view' = [k \in Keys |-> IF k \in ks THEN NoConn ELSE view[k]]
  /\ wire' = [c \in Conns |->
       IF c \notin leaving \/ ~InPhase(c, {"resolving", "attached"}) THEN wire[c]
       ELSE wire[c] \o (IF c \in opened THEN frame ELSE << >>) \o <<"fin">>]
  /\ conn' = [c \in Conns |-> IF c \in leaving /\ InPhase(c, {"connecting"})
                              THEN [conn[c] EXCEPT !.phase = "closed"] ELSE conn[c]]

CloseTab(k) ==
  /\ k \in tabs /\ SessionOf(k) = active
  /\ tabs' = tabs \ {k}
  /\ Unmount({k}, <<"close">>)
  /\ UNCHANGED <<manager, opened, active, tornDown>>

SwitchTo(s) ==
  /\ s # active
  /\ active' = s
  /\ Unmount({k \in Keys : view[k] # NoConn}, <<"park">>)
  /\ UNCHANGED <<manager, opened, tabs, tornDown>>

\* Refresh, crash, a lost network or a re-mounted view: a bare socket drop.
Drop(k) ==
  /\ view[k] # NoConn
  /\ Unmount({k}, << >>)
  /\ UNCHANGED <<manager, opened, tabs, active, tornDown>>

-----------------------------------------------------------------------------
Browser ==
  \/ \E k \in Keys : OpenTab(k) \/ CloseTab(k) \/ Drop(k)
  \/ \E k \in Keys, c \in Conns : Mount(k, c)
  \/ \E c \in Conns : SeeOpen(c)
  \/ \E s \in Sessions : SwitchTo(s)

Deliver(c) == DeliverUnheard(c) \/ DeliverControl(c) \/ SocketClosed(c)
Resolve(c) == Attach(c) \/ Refuse(c)

Host ==
  \/ \E c \in Conns : Upgrade(c) \/ Resolve(c) \/ Deliver(c)
  \/ \E k \in Keys : TimerFires(k)
  \/ \E p \in Ptys : ProcessExits(p)
  \/ Teardown

Next == Browser \/ Host

Spec == Init /\ [][Next]_vars

\* Node runs its timers, resolves its promises and drains its sockets.
Fairness ==
  /\ \A c \in Conns : WF_vars(Resolve(c)) /\ WF_vars(Deliver(c))
  /\ \A k \in Keys : WF_vars(TimerFires(k))

FairSpec == Spec /\ Fairness

-----------------------------------------------------------------------------
(* Properties. *)

\* No shell runs outside the table: a process that lost its entry was killed
\* by the same step (close, respawn in open, zombie cleanup, disposeAll).
NoStrayProcess ==
  \A p \in Ptys : pty[p].life = "running" => \E k \in Keys : sessions[k] = p

\* The cap of PtyManager.open counts every handle of the conversation.
QuotaRespected ==
  \A s \in Sessions : Cardinality(KeysOf(s)) <= MaxPerSession

\* A close timer and the parked mark are about a handle in the table and
\* never both set: no timer can outlive close(), no parked shell is doomed.
MarksConsistent ==
  /\ \A k \in Keys : pendingCloses[k] # "none" => HasHandle(k) /\ k \notin parked
  /\ \A k \in parked : HasHandle(k)

\* A step leaves the parked shell of k alone, unless its view reconnects
\* (open), a close frame of its own tab arrives, it exited by itself and is
\* swept as a zombie, or the plugin is torn down.
KeepsParked(k) ==
  \/ k \in parked' /\ sessions'[k] = sessions[k]
  \/ Exited(k)
  \/ tornDown' # tornDown
  \/ \E c \in Conns :
       /\ conn[c].key = k
       /\ \/ InPhase(c, {"resolving", "hungUp"}) /\ conn'[c] # conn[c]
          \/ /\ wire[c] # << >> /\ Head(wire[c]) = "close"
             /\ wire'[c] = Tail(wire[c])

\* A parked shell stays in the table and out of every countdown: a bare hangup
\* or a timer set before it was parked never takes it.
ParkedSurvives == [][\A k \in parked : KeepsParked(k)]_vars

\* A shell whose view is attached is not counting down to its death
\* ("the reconnect's open() cancels the pending close").
AttachedNotDoomed ==
  \A c \in Conns :
    InPhase(c, {"attached"}) /\ wire[c] = << >> => pendingCloses[conn[c].key] = "none"

\* Every shell in the table is attached to, parked, or counting down: none
\* holds its conversation's quota with nobody left to give it back.
NoForgottenShell ==
  ~tornDown => \A k \in Keys : HasHandle(k) =>
    \/ k \in parked
    \/ pendingCloses[k] # "none"
    \/ \E c \in Conns : conn[c].key = k /\ InPhase(c, {"attached"})

\* A closed tab gives its place in the quota back.
Released(k) == (k \notin tabs /\ HasHandle(k)) ~> (k \in tabs \/ ~HasHandle(k))
ClosedTabReleased == \A k \in Keys : Released(k)
===========================================================================
