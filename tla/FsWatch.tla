------------------------------ MODULE FsWatch ------------------------------
(***************************************************************************)
(* Live refresh of the file tree: useDirectoryWatch in the browser          *)
(* (src/client/use-dir-watch.ts), attachFsWatch and its frame handler       *)
(* on the host (src/index.ts), and the connection's set of fs.watch         *)
(* handles (src/fs-watch.ts).                                              *)
(*                                                                         *)
(* The tree announces the folders it shows; the host resolves each frame's *)
(* path (an await per frame) and then watches or unwatches; a burst of     *)
(* changes becomes one notice, and the tree lists that folder again.       *)
(***************************************************************************)
EXTENDS Naturals, FiniteSets, Sequences, SequencesExt

CONSTANTS
  Dirs,        \* folders of the workspace
  Conns,       \* sockets the tree can ever open
  MaxWatches,  \* MAX_WATCHES
  MaxMoves,    \* folds, unfolds, parkings and changes on disk (a bound)
  MaxCuts,     \* connections that break (a bound)
  MaxFailures, \* watchers that fail (a bound)
  Races,       \* may path lookups of frames overtake each other or the close?
  NoConn

ConstantsAssumption ==
  /\ IsFiniteSet(Dirs) /\ MaxWatches \in Nat \ {0}
  /\ MaxMoves \in Nat /\ MaxCuts \in Nat /\ MaxFailures \in Nat
  /\ Races \in BOOLEAN
  /\ NoConn \notin Conns

VARIABLES
  wanted,    \* the folders the tree shows expanded
  visible,   \* the tree's tab is on screen
  socket,    \* the socket of the effect that is mounted
  retrying,  \* its reconnect timer is set
  watching,  \* folders the host confirmed over that socket
  conn,      \* both ends of every socket
  up, down,  \* frames under way to the host, and to the browser
  lookups,   \* frames whose path the host is resolving, oldest first
  watchers,  \* the connection's fs.watch handles
  timers,    \* handles with a debounced notice pending
  owed,      \* history: folders that changed under a handle of the mounted
             \* socket, or while the tree was parked, not listed since
  budget

tree == <<wanted, visible, socket, retrying, watching>>
hostVars == <<lookups, watchers, timers>>
vars == <<tree, conn, up, down, hostVars, owed, budget>>

Asks == [op : {"watch", "unwatch"}, dir : Dirs]
Replies == [kind : {"ok", "refused", "stale"}, dir : Dirs]

TypeOK ==
  /\ wanted \subseteq Dirs /\ visible \in BOOLEAN
  /\ socket \in Conns \cup {NoConn} /\ retrying \in BOOLEAN
  /\ watching \subseteq Dirs
  /\ conn \in [Conns -> {"unused", "connecting", "open", "closing", "closed", "gone"}]
  /\ \A c \in Conns : up[c] \in Seq(Asks) /\ down[c] \in Seq(Replies) /\ lookups[c] \in Seq(Asks)
  /\ watchers \in [Conns -> SUBSET Dirs]
  /\ \A c \in Conns : timers[c] \subseteq watchers[c]
  /\ owed \subseteq Dirs
  /\ budget \in [moves : 0..MaxMoves, cuts : 0..MaxCuts, failures : 0..MaxFailures]

Init ==
  /\ wanted \in SUBSET Dirs /\ visible = FALSE
  /\ socket = NoConn /\ retrying = FALSE /\ watching = {}
  /\ conn = [c \in Conns |-> "unused"]
  /\ up = [c \in Conns |-> << >>] /\ down = [c \in Conns |-> << >>]
  /\ lookups = [c \in Conns |-> << >>]
  /\ watchers = [c \in Conns |-> {}] /\ timers = [c \in Conns |-> {}]
  /\ owed = {} /\ budget = [moves |-> 0, cuts |-> 0, failures |-> 0]

Moves == /\ budget.moves < MaxMoves
         /\ budget' = [budget EXCEPT !.moves = @ + 1]

-----------------------------------------------------------------------------
(* The browser. *)

Ask(op, dirs) == SetToSeq({[op |-> op, dir |-> d] : d \in dirs})

\* reconcile(): every wanted folder, then the confirmed ones not wanted any more.
Announced(want, confirmed) == Ask("watch", want) \o Ask("unwatch", confirmed \ want)

Armed(want, seen) == seen /\ want # {}

\* The socket effect's cleanup, then (armed again) a new effect: a connecting
\* socket is left to close itself when it opens.
Retire ==
  [c \in Conns |-> IF c = socket /\ conn[c] = "open" THEN "closing" ELSE conn[c]]

\* The reader folds or unfolds: reconcile over the open socket, unless the
\* last folder went or the first one came, which ends or starts the effect.
Fold(d) ==
  /\ Moves
  /\ wanted' = IF d \in wanted THEN wanted \ {d} ELSE wanted \cup {d}
  /\ IF Armed(wanted, visible) = Armed(wanted', visible)
     THEN /\ up' = IF socket # NoConn /\ conn[socket] = "open"
                   THEN [up EXCEPT ![socket] = @ \o Announced(wanted', watching)]
                   ELSE up
          /\ watching' = watching \cap wanted'
          /\ owed' = owed \cap wanted'
          /\ UNCHANGED <<socket, retrying, conn>>
     ELSE /\ conn' = Retire /\ socket' = NoConn /\ watching' = {} /\ owed' = {}
          /\ retrying' = Armed(wanted', visible)
          /\ UNCHANGED up
  /\ UNCHANGED <<visible, down, hostVars>>

\* Mutant: nothing is listed again when the tree comes back.
Relisted_Never(seen) == owed
\* The re-arm effect: a tree that comes back lists every wanted folder.
Relisted(seen) == IF seen THEN {} ELSE owed

\* The tab is parked, or comes back.
Park ==
  /\ Moves
  /\ visible' = ~visible
  /\ conn' = Retire /\ socket' = NoConn /\ watching' = {}
  /\ owed' = Relisted(visible')
  /\ retrying' = Armed(wanted, visible')
  /\ UNCHANGED <<wanted, up, down, hostVars>>

\* connect(), of a new effect or of its retry timer.
Connect(c) ==
  /\ retrying /\ conn[c] = "unused"
  /\ conn' = [conn EXCEPT ![c] = "connecting"]
  /\ socket' = c /\ retrying' = FALSE
  /\ UNCHANGED <<wanted, visible, watching, up, down, hostVars, owed, budget>>

\* Mutant: the confirmations of the socket before are not cleared, and folders
\* among them not announced.
Opening_Confirmed == Announced(wanted \ watching, {})
\* onopen: the host knows nothing yet, every wanted folder is announced.
Opening == Announced(wanted, {})
\* Mutant: a socket that opens after its effect ended is kept.
AfterOpen_Kept(c) == "open"
AfterOpen(c) == IF c = socket THEN "open" ELSE "closing"
SeeOpen(c) ==
  /\ conn[c] = "connecting"
  /\ conn' = [conn EXCEPT ![c] = AfterOpen(c)]
  /\ IF c = socket
     THEN /\ watching' = {}
          /\ up' = [up EXCEPT ![c] = Opening]
     ELSE UNCHANGED <<watching, up>>
  /\ UNCHANGED <<wanted, visible, socket, retrying, down, hostVars, owed, budget>>

\* onmessage: a confirmation, a refusal, or a stale folder to list again.
Receive(c) ==
  /\ conn[c] = "open" /\ down[c] # << >>
  /\ LET m == Head(down[c]) IN
       /\ watching' = IF m.kind = "ok" THEN watching \cup {m.dir} ELSE watching
       /\ owed' = IF m.kind = "stale" THEN owed \ {m.dir} ELSE owed
  /\ down' = [down EXCEPT ![c] = Tail(@)]
  /\ UNCHANGED <<wanted, visible, socket, retrying, conn, up, hostVars, budget>>

\* The connection breaks; the mounted effect tries again.
Cut(c) ==
  /\ budget.cuts < MaxCuts
  /\ budget' = [budget EXCEPT !.cuts = @ + 1]
  /\ conn[c] \in {"connecting", "open", "closing"}
  /\ conn' = [conn EXCEPT ![c] = IF conn[c] = "connecting" THEN "gone" ELSE "closed"]
  /\ up' = [up EXCEPT ![c] = << >>] /\ down' = [down EXCEPT ![c] = << >>]
  /\ IF c = socket
     THEN socket' = NoConn /\ retrying' = TRUE
     ELSE UNCHANGED <<socket, retrying>>
  /\ UNCHANGED <<wanted, visible, watching, hostVars, owed>>

-----------------------------------------------------------------------------
(* The host. *)

Send(c, kind, d) ==
  IF conn[c] = "open" THEN [down EXCEPT ![c] = Append(@, [kind |-> kind, dir |-> d])] ELSE down

\* A frame arrives; its handler awaits the folder's path.
HostReceives(c) ==
  /\ conn[c] \in {"open", "closing"} /\ up[c] # << >>
  /\ up' = [up EXCEPT ![c] = Tail(@)]
  /\ lookups' = [lookups EXCEPT ![c] = Append(@, Head(up[c]))]
  /\ UNCHANGED <<tree, conn, down, watchers, timers, owed, budget>>

\* Mutant: one handle more than the cap.
Accepts_OneMore(c, d) == d \in watchers[c] \/ Cardinality(watchers[c]) <= MaxWatches
\* DirectoryWatchers.add
Accepts(c, d) == d \in watchers[c] \/ Cardinality(watchers[c]) < MaxWatches

\* Mutant: drop() leaves the pending notice behind.
Cleared_Left(c, d) == timers[c]
\* drop(): the notice pending on a folder goes with its handle.
Cleared(c, d) == timers[c] \ {d}

\* The path is known: add() or remove(), and the answer to a watch.
Resolved(c, i) ==
  /\ i \in DOMAIN lookups[c] /\ (Races \/ i = 1)
  /\ lookups' = [lookups EXCEPT ![c] = RemoveAt(@, i)]
  /\ LET ask == lookups[c][i] IN
       IF ask.op = "watch"
       THEN /\ watchers' = IF Accepts(c, ask.dir)
                           THEN [watchers EXCEPT ![c] = @ \cup {ask.dir}] ELSE watchers
            /\ down' = Send(c, IF Accepts(c, ask.dir) THEN "ok" ELSE "refused", ask.dir)
            /\ UNCHANGED <<timers, owed>>
       ELSE /\ watchers' = [watchers EXCEPT ![c] = @ \ {ask.dir}]
            /\ timers' = [timers EXCEPT ![c] = Cleared(c, ask.dir)]
            /\ owed' = IF c = socket THEN owed \ {ask.dir} ELSE owed
            /\ UNCHANGED down
  /\ UNCHANGED <<tree, conn, up, budget>>

\* Mutant: close() drops only the folders with a notice pending.
Released_Quiet(c) == watchers[c] \ timers[c]
\* DirectoryWatchers.close: what stays watched.
Released(c) == {}
\* The socket's close event.
HostSeesClose(c) ==
  /\ conn[c] \in {"closing", "closed"}
  /\ Races \/ lookups[c] = << >>
  /\ conn' = [conn EXCEPT ![c] = "gone"]
  /\ up' = [up EXCEPT ![c] = << >>]
  /\ watchers' = [watchers EXCEPT ![c] = Released(c)]
  /\ timers' = [timers EXCEPT ![c] = {}]
  /\ UNCHANGED <<tree, down, lookups, owed, budget>>

\* Something changes a folder: every handle on it is notified.
Change(d) ==
  /\ Moves
  /\ timers' = [c \in Conns |-> IF d \in watchers[c] THEN timers[c] \cup {d} ELSE timers[c]]
  /\ owed' = IF d \in wanted /\ (~visible \/ (socket # NoConn /\ d \in watchers[socket]))
             THEN owed \cup {d} ELSE owed
  /\ UNCHANGED <<tree, conn, up, down, lookups, watchers>>

\* 150 ms later: invalidate the cached level and push one notice.
TimerFires(c, d) ==
  /\ d \in timers[c]
  /\ timers' = [timers EXCEPT ![c] = @ \ {d}]
  /\ down' = Send(c, "stale", d)
  /\ UNCHANGED <<tree, conn, up, lookups, watchers, owed, budget>>

\* A handle fails (the folder is gone): reported and dropped.
WatcherFails(c, d) ==
  /\ budget.failures < MaxFailures
  /\ budget' = [budget EXCEPT !.failures = @ + 1]
  /\ d \in watchers[c]
  /\ watchers' = [watchers EXCEPT ![c] = @ \ {d}]
  /\ timers' = [timers EXCEPT ![c] = Cleared(c, d)]
  /\ down' = Send(c, "refused", d)
  /\ owed' = IF c = socket THEN owed \ {d} ELSE owed
  /\ UNCHANGED <<tree, conn, up, lookups>>

-----------------------------------------------------------------------------
Next ==
  \/ \E d \in Dirs : Fold(d) \/ Change(d)
  \/ Park
  \/ \E c \in Conns :
       \/ Connect(c) \/ SeeOpen(c) \/ Receive(c) \/ Cut(c)
       \/ HostReceives(c) \/ HostSeesClose(c)
       \/ \E i \in 1..Len(lookups[c]) : Resolved(c, i)
       \/ \E d \in Dirs : TimerFires(c, d) \/ WatcherFails(c, d)

Spec == Init /\ [][Next]_vars

\* Timers fire, lookups end and an unbroken connection delivers.
Fairness ==
  /\ WF_vars(\E c \in Conns : Connect(c))
  /\ \A c \in Conns :
       /\ WF_vars(SeeOpen(c)) /\ WF_vars(Receive(c)) /\ WF_vars(HostReceives(c))
       /\ WF_vars(\E i \in 1..Len(lookups[c]) : Resolved(c, i))
       /\ WF_vars(HostSeesClose(c))
       /\ \A d \in Dirs : WF_vars(TimerFires(c, d))
FairSpec == Spec /\ Fairness

-----------------------------------------------------------------------------
(* Properties. *)

\* The cap on handles holds for frames of any order, and a folder asked for
\* twice costs one handle.
CapRespected == \A c \in Conns : Cardinality(watchers[c]) <= MaxWatches

\* "closing the socket releases its handle": no handle outlives its socket.
HandlesReleased == \A c \in Conns : conn[c] = "gone" => watchers[c] = {}

\* However the reader folds, unfolds, parks and comes back, and however often
\* the connection breaks: in the end every folder on screen is watched.
EventuallyWatched ==
  <>[](Armed(wanted, visible) => socket # NoConn /\ wanted \subseteq watchers[socket])

\* A change that a handle of the mounted socket saw, or that happened while
\* the tree was parked, is listed by the tree if it stays on screen, unless a
\* connection broke and took the notice with it.
NoticeListed(d) == (d \in owed /\ visible) ~> (d \notin owed \/ ~visible \/ budget.cuts > 0)

\* A tree that was parked or unmounted leaves no socket open.
HangsUp(c) == conn[c] = "open" /\ c # socket ~> conn[c] = "gone"
=============================================================================
