------------------------------ MODULE AgentPty ------------------------------
(***************************************************************************)
(* Terminals the model owns: the registry (src/agent-pty.ts), the tools      *)
(* that drive it and their settings gate (src/tools.ts, src/index.ts), the   *)
(* list push, and the tabs and wait banners a sidebar mirrors from it        *)
(* (src/client/state.ts, src/client/TerminalView.tsx).                       *)
(*                                                                           *)
(* Every wait looks for the same needle, and a transcript is kept to whether *)
(* it holds it. A uuid is used once. Input, resizes, signals other than a    *)
(* kill, and the transcript's 1 MiB bound change nothing told apart here.    *)
(***************************************************************************)
EXTENDS Naturals, Sequences, SequencesExt, FiniteSets

CONSTANTS
  Terminals,      \* uuids
  Waits,          \* terminal_wait_for calls
  None,           \* no wait
  MaxPush,        \* bound: list pushes under way
  LateCreates,    \* the gate may close while a terminal_create awaits its cwd
  ClosesDetached  \* a tab may be closed while its socket is down

ConstantsAssumption ==
  /\ None \notin Waits
  /\ MaxPush \in Nat \ {0}
  /\ LateCreates \in BOOLEAN
  /\ ClosesDetached \in BOOLEAN

VARIABLES
  gate,     \* the tools are registered (agentTerminalTools)
  making,   \* terminal_create calls that await the cwd
  sessions, \* the registry's uuids
  process,  \* "none", "running" or "exited", as the handle knows it
  killed,   \* processes the registry has killed
  said,     \* terminals whose transcript holds the needle
  active,   \* each handle's wait records, oldest first
  wait,     \* each wait_for call: its terminal, its flags and its outcome
  queue,    \* list pushes on their way to the sidebar
  tabs,     \* the sidebar's agent tabs
  banners,  \* the wait each tab's banner shows
  socket,   \* tabs whose terminal socket is open
  frames,   \* close frames on their way to the host
  closed    \* tabs the user has closed (history)

host == <<gate, making, sessions, process, killed, said>>
waiting == <<active, wait>>
sidebar == <<tabs, banners, socket, frames, closed>>
vars == <<host, waiting, queue, sidebar>>

Outcomes == {"found", "timeout", "exited", "skipped", "aborted"}

Wait == [terminal : Terminals \union {None}, skipped : BOOLEAN, aborted : BOOLEAN,
         due : BOOLEAN, outcome : Outcomes \union {"idle", "pending"}]

\* One push: the live uuids and the wait each banner is to show.
Lists == [uuids : SUBSET Terminals, waiting : [Terminals -> Waits \union {None}]]

TypeOK ==
  /\ gate \in BOOLEAN
  /\ making \subseteq Terminals
  /\ sessions \subseteq Terminals
  /\ process \in [Terminals -> {"none", "running", "exited"}]
  /\ killed \subseteq Terminals
  /\ said \subseteq Terminals
  /\ \A t \in Terminals :
       /\ active[t] \in Seq(Waits)
       /\ ToSet(active[t]) = {w \in Waits : wait[w].terminal = t /\ wait[w].outcome = "pending"}
  /\ wait \in [Waits -> Wait]
  /\ queue \in Seq(Lists)
  /\ Len(queue) <= MaxPush
  /\ tabs \subseteq Terminals
  /\ banners \in [Terminals -> Waits \union {None}]
  /\ socket \subseteq Terminals
  /\ frames \subseteq Terminals
  /\ closed \subseteq Terminals

Idle == [terminal |-> None, skipped |-> FALSE, aborted |-> FALSE, due |-> FALSE, outcome |-> "idle"]

Init ==
  /\ gate = TRUE
  /\ making = {}
  /\ sessions = {}
  /\ process = [t \in Terminals |-> "none"]
  /\ killed = {}
  /\ said = {}
  /\ active = [t \in Terminals |-> <<>>]
  /\ wait = [w \in Waits |-> Idle]
  /\ queue = <<>>
  /\ tabs = {}
  /\ banners = [t \in Terminals |-> None]
  /\ socket = {}
  /\ frames = {}
  /\ closed = {}

-----------------------------------------------------------------------------
(* The registry and its list push. *)

\* snapshotOf, of every live handle: a banner shows the latest wait.
ListOf(live, records) ==
  [uuids   |-> live,
   waiting |-> [t \in Terminals |->
                  IF t \in live /\ records[t] # <<>> THEN Last(records[t]) ELSE None]]

\* notify: the sidebar's subscription sends the list as it is now.
Notify ==
  /\ Len(queue) < MaxPush
  /\ queue' = Append(queue, ListOf(sessions', active'))

\* terminal_create passes the gate and awaits the session's cwd.
CreateCall(t) ==
  /\ gate
  /\ process[t] = "none"
  /\ t \notin making
  /\ making' = making \union {t}
  /\ UNCHANGED <<gate, sessions, process, killed, said, waiting, queue, sidebar>>

\* The cwd is known: the shell is spawned and recorded.
Create(t) ==
  /\ t \in making
  /\ making' = making \ {t}
  /\ sessions' = sessions \union {t}
  /\ process' = [process EXCEPT ![t] = "running"]
  /\ UNCHANGED <<gate, killed, said, waiting, sidebar>>
  /\ Notify

\* The process writes what the waits look for.
Output(t) ==
  /\ process[t] = "running"
  /\ t \notin said
  /\ said' = said \union {t}
  /\ UNCHANGED <<gate, making, sessions, process, killed, waiting, queue, sidebar>>

\* The process ends, by itself or killed.
Exit(t) ==
  /\ process[t] = "running"
  /\ process' = [process EXCEPT ![t] = "exited"]
  /\ UNCHANGED <<gate, making, sessions, killed, said, waiting, sidebar>>
  /\ Notify

\* Mutant: the entry goes and the process stays.
Closing_Unkilled(gone) ==
  /\ sessions' = sessions \ gone
  /\ killed' = killed
  /\ UNCHANGED <<making, process, said, waiting>>

\* close: the entries go and their processes are killed.
Closing(gone) ==
  /\ sessions' = sessions \ gone
  /\ killed' = killed \union gone
  /\ UNCHANGED <<making, process, said, waiting>>

\* terminal_close; an unknown uuid is refused and changes nothing.
ToolClose(t) ==
  /\ gate
  /\ t \in sessions
  /\ Closing({t})
  /\ UNCHANGED <<gate, sidebar>>
  /\ Notify

GateOn ==
  /\ ~gate
  /\ gate' = TRUE
  /\ UNCHANGED <<making, sessions, process, killed, said, waiting, queue, sidebar>>

\* Mutant: the tools go, what they made stays.
GateOff_Kept ==
  /\ gate
  /\ gate' = FALSE
  /\ UNCHANGED <<making, sessions, process, killed, said, waiting, queue, sidebar>>

\* The feature is turned off: the tools are unregistered and every terminal is
\* closed. One push stands for those of disposeAll's closes.
GateOff ==
  /\ gate
  /\ making = {} \/ LateCreates
  /\ gate' = FALSE
  /\ Closing(sessions)
  /\ UNCHANGED sidebar
  /\ IF sessions = {} THEN UNCHANGED queue ELSE Notify

-----------------------------------------------------------------------------
(* Waiting. *)

\* Mutant: the transcript is searched before the user's skip is looked at.
Verdict_FoundFirst(w) ==
  LET t == wait[w].terminal IN
  IF wait[w].aborted THEN "aborted"
  ELSE IF process[t] = "exited" THEN "exited"
  ELSE IF t \in said THEN "found"
  ELSE IF wait[w].skipped THEN "skipped"
  ELSE IF wait[w].due THEN "timeout"
  ELSE "pending"

\* Mutant: the deadline is never looked at.
Verdict_Patient(w) ==
  LET t == wait[w].terminal IN
  IF wait[w].aborted THEN "aborted"
  ELSE IF process[t] = "exited" THEN "exited"
  ELSE IF wait[w].skipped THEN "skipped"
  ELSE IF t \in said THEN "found"
  ELSE "pending"

\* What one poll of a wait concludes, in the order the loop asks.
Verdict(w) ==
  LET t == wait[w].terminal IN
  IF wait[w].aborted THEN "aborted"
  ELSE IF process[t] = "exited" THEN "exited"
  ELSE IF wait[w].skipped THEN "skipped"
  ELSE IF t \in said THEN "found"
  ELSE IF wait[w].due THEN "timeout"
  ELSE "pending"

\* terminal_wait_for on a live uuid: answered at once, or recorded and shown.
WaitFor(w, t) ==
  /\ gate
  /\ t \in sessions
  /\ wait[w].outcome = "idle"
  /\ UNCHANGED <<host, sidebar>>
  /\ IF process[t] = "exited" \/ t \in said
       THEN /\ wait' = [wait EXCEPT ![w].terminal = t,
                                    ![w].outcome = IF process[t] = "exited" THEN "exited" ELSE "found"]
            /\ UNCHANGED <<active, queue>>
       ELSE /\ wait' = [wait EXCEPT ![w].terminal = t, ![w].outcome = "pending"]
            /\ active' = [active EXCEPT ![t] = Append(@, w)]
            /\ Notify

\* Mutant: an ended wait keeps its record.
Poll_Recorded(w) ==
  /\ wait[w].outcome = "pending"
  /\ Verdict(w) # "pending"
  /\ wait' = [wait EXCEPT ![w].outcome = Verdict(w)]
  /\ UNCHANGED <<active, host, sidebar>>
  /\ Notify

\* Mutant: an ended wait is not announced.
Poll_Silent(w) ==
  /\ wait[w].outcome = "pending"
  /\ Verdict(w) # "pending"
  /\ wait' = [wait EXCEPT ![w].outcome = Verdict(w)]
  /\ active' = [active EXCEPT ![wait[w].terminal] = RemoveFirst(@, w)]
  /\ UNCHANGED <<host, queue, sidebar>>

\* A poll that ends its wait: the record goes and the banner is told.
Poll(w) ==
  /\ wait[w].outcome = "pending"
  /\ Verdict(w) # "pending"
  /\ wait' = [wait EXCEPT ![w].outcome = Verdict(w)]
  /\ active' = [active EXCEPT ![wait[w].terminal] = RemoveFirst(@, w)]
  /\ UNCHANGED <<host, sidebar>>
  /\ Notify

\* The deadline passes.
Elapse(w) ==
  /\ wait[w].outcome = "pending"
  /\ ~wait[w].due
  /\ wait' = [wait EXCEPT ![w].due = TRUE]
  /\ UNCHANGED <<host, active, queue, sidebar>>

\* The agent's turn is cancelled.
Abort(w) ==
  /\ wait[w].outcome = "pending"
  /\ ~wait[w].aborted
  /\ wait' = [wait EXCEPT ![w].aborted = TRUE]
  /\ UNCHANGED <<host, active, queue, sidebar>>

\* skipWait, from a banner that may be stale: every wait of a live terminal.
SkipWait(t) ==
  /\ banners[t] # None
  /\ t \in sessions
  /\ \E w \in ToSet(active[t]) : ~wait[w].skipped
  /\ wait' = [w \in Waits |->
                IF w \in ToSet(active[t]) THEN [wait[w] EXCEPT !.skipped = TRUE] ELSE wait[w]]
  /\ UNCHANGED <<host, active, queue, sidebar>>

-----------------------------------------------------------------------------
(* The sidebar. *)

\* A push arrives: tabs and banners become the list's (reconcileAgentTerminals).
\* A tab that goes this way sends its close frame as its view unmounts.
Receive ==
  /\ queue # <<>>
  /\ queue' = Tail(queue)
  /\ tabs' = Head(queue).uuids
  /\ banners' = Head(queue).waiting
  /\ socket' = socket \intersect tabs'
  /\ frames' = frames \union (socket \ tabs')
  /\ UNCHANGED <<host, waiting, closed>>

\* A tab's view attaches. The host refuses a uuid it no longer has.
Attach(t) ==
  /\ t \in tabs \ socket
  /\ t \in sessions
  /\ socket' = socket \union {t}
  /\ UNCHANGED <<host, waiting, queue, tabs, banners, frames, closed>>

\* A tab's socket drops. The terminal lives on.
Drop(t) ==
  /\ t \in socket
  /\ socket' = socket \ {t}
  /\ UNCHANGED <<host, waiting, queue, tabs, banners, frames, closed>>

\* The user closes a tab: a close frame goes out if the socket is open.
CloseTab(t) ==
  /\ t \in tabs
  /\ IF t \in socket THEN TRUE ELSE ClosesDetached
  /\ tabs' = tabs \ {t}
  /\ closed' = closed \union {t}
  /\ frames' = IF t \in socket THEN frames \union {t} ELSE frames
  /\ socket' = socket \ {t}
  /\ UNCHANGED <<host, waiting, queue, banners>>

\* Mutant: a close frame is taken for a dropped socket.
Frame_Ignored(t) ==
  /\ t \in frames
  /\ frames' = frames \ {t}
  /\ UNCHANGED <<host, waiting, queue, tabs, banners, socket, closed>>

\* A close frame reaches the host. After the exit it is not read any more.
Frame(t) ==
  /\ t \in frames
  /\ frames' = frames \ {t}
  /\ UNCHANGED <<gate, tabs, banners, socket, closed>>
  /\ IF process[t] = "running" /\ t \in sessions
       THEN Closing({t}) /\ Notify
       ELSE UNCHANGED <<making, sessions, process, killed, said, waiting, queue>>

Next ==
  \/ \E t \in Terminals : \/ CreateCall(t)
                          \/ Create(t)
                          \/ Output(t)
                          \/ Exit(t)
                          \/ ToolClose(t)
                          \/ SkipWait(t)
                          \/ Attach(t)
                          \/ Drop(t)
                          \/ CloseTab(t)
                          \/ Frame(t)
  \/ \E w \in Waits : \/ \E t \in Terminals : WaitFor(w, t)
                      \/ Poll(w)
                      \/ Elapse(w)
                      \/ Abort(w)
  \/ GateOn
  \/ GateOff
  \/ Receive

Spec == Init /\ [][Next]_vars

\* The host's timers fire, and what a socket carries arrives.
Fairness ==
  /\ \A w \in Waits : WF_vars(Poll(w)) /\ WF_vars(Elapse(w))
  /\ \A t \in Terminals : WF_vars(Frame(t))
  /\ WF_vars(Receive)

FairSpec == Spec /\ Fairness

-----------------------------------------------------------------------------
(* Properties. *)

\* A running shell that no uuid reaches any more has been killed.
NoLostProcess == \A t \in Terminals : process[t] = "running" => t \in sessions \union killed

\* While the feature is off no terminal is left: nothing could reach it.
OffHasNone == ~gate => sessions = {}

\* Once no push is under way, the banners show the waits that are really open,
\* whatever skips, exits, closes and overlapping waits came in between.
BannersConverge ==
  queue = <<>> => banners = ListOf(sessions, active).waiting

\* A skip that reached a wait ends it: only an exit or a cancelled turn may
\* speak first, and never what the terminal wrote or the deadline.
SkipSpeaks ==
  [][\A w \in Waits :
       (wait[w].outcome = "pending" /\ wait[w].skipped /\ wait'[w].outcome # "pending") =>
         \/ wait'[w].outcome = "skipped"
         \/ wait'[w].outcome = "exited" /\ process[wait[w].terminal] = "exited"
         \/ wait'[w].outcome = "aborted" /\ wait[w].aborted]_vars

\* Every wait is answered.
WaitsEnd(w) == wait[w].outcome = "pending" ~> wait[w].outcome \in Outcomes

\* A closed tab leaves no shell running behind it.
ClosedReleases(t) == t \in closed ~> (t \in killed \/ process[t] = "exited")
=============================================================================
