---------------------------- MODULE SidechatFeed ----------------------------
(***************************************************************************)
(* How a side chat's transcript stays current: the host's push hub           *)
(* (src/sidechat-push.ts), the tab's socket                                 *)
(* (src/client/use-sidechat-push.ts), the pulls of SideChatView              *)
(* (src/client/SideChatView.tsx) and the route that answers them             *)
(* (src/sidechat-routes.ts).                                                *)
(*                                                                         *)
(* A notice carries no rows: it makes the tab pull what is newer than its    *)
(* last row. Notices may be lost with the socket; the run state the session  *)
(* list reports, and a slow poll while a thread runs, make up for them.      *)
(***************************************************************************)
EXTENDS Naturals, FiniteSets, FiniteSetsExt, Sequences, SequencesExt

CONSTANTS
  Threads,
  EventsCap,  \* EVENTS_CAP
  MaxRows,    \* rows of a thread's log (a bound)
  MaxMoves,   \* bindings, parkings and runs (a bound)
  MaxCuts,    \* sockets that break (a bound)
  MaxPulls,   \* pulls under way that have not been aborted (a bound)
  None

ASSUME ConstantsAssumption ==
  /\ EventsCap \in Nat \ {0} /\ MaxPulls \in Nat \ {0}
  /\ MaxRows \in Nat /\ MaxMoves \in Nat /\ MaxCuts \in Nat /\ None \notin Threads

VARIABLES
  log,       \* thread -> rows of its own in the host's log: 1..log[t]
  runs,      \* thread -> the host's run state
  listed,    \* run states under way to the browser, oldest first
  running,   \* thread -> the run state the browser knows
  bound,     \* the thread the tab holds
  visible,
  rows,      \* the cache: rows held of the bound thread
  shown,     \* the cache: the log's length when `live` and `pending` were taken
  pulls,     \* pulls under way whose answer still counts
  invalid,   \* the thread whose debounced pull is due, or None
  link,      \* the tab's socket: "none", "retry", "connecting", "open"
  up,        \* watch frames under way
  watched, timers,  \* the host's end of the socket
  down,      \* notices under way
  moves, cuts,
  foreign    \* history: a row of another thread got into the cache

host == <<log, runs>>
tab == <<bound, visible>>
cache == <<rows, shown, foreign>>
socketVars == <<link, up, watched, timers, down>>
vars == <<host, listed, running, tab, cache, pulls, invalid, socketVars, moves, cuts>>

Subscribed(t, seen) == seen /\ t # None
RunStates == [thread : Threads, running : BOOLEAN]
Pulls == [thread : Threads, into : Threads, after : Nat, phase : {"asked", "answered"},
          fresh : SUBSET Nat, stamp : Nat]

TypeOK ==
  /\ log \in [Threads -> 0..MaxRows] /\ runs \in [Threads -> BOOLEAN]
  /\ listed \in Seq(RunStates)
  /\ running \in [Threads -> BOOLEAN]
  /\ bound \in Threads \cup {None} /\ visible \in BOOLEAN
  /\ rows \subseteq 1..MaxRows /\ shown \in 0..MaxRows
  /\ pulls \in Seq(Pulls)
  /\ invalid \in Threads \cup {None}
  /\ link \in {"none", "retry", "connecting", "open"}
  /\ (link = "none") = ~Subscribed(bound, visible)
  /\ up \in Seq(SUBSET Threads) /\ watched \subseteq Threads
  /\ timers \subseteq watched /\ down \in Seq(Threads)
  /\ moves \in 0..MaxMoves /\ cuts \in 0..MaxCuts /\ foreign \in BOOLEAN

Init ==
  /\ log = [t \in Threads |-> 0] /\ runs = [t \in Threads |-> FALSE]
  /\ listed = << >> /\ running = runs
  /\ bound = None /\ visible = TRUE /\ rows = {} /\ shown = 0
  /\ pulls = << >> /\ invalid = None
  /\ link = "none" /\ up = << >> /\ watched = {} /\ timers = {} /\ down = << >>
  /\ moves = 0 /\ cuts = 0 /\ foreign = FALSE

Move == moves < MaxMoves /\ moves' = moves + 1

-----------------------------------------------------------------------------
(* The tab. *)

LastRow(held) == IF held = {} THEN 0 ELSE Max(held)

\* Mutant: the pull before is left to answer.
Aborted_None(under) == under
\* A pull aborts its predecessor.
Aborted(under) == << >>

\* fetchThread: the answer will go into the cache of this moment, that of the
\* binding `into`.
Pull(t, into, held) ==
  Append(Aborted(pulls), [thread |-> t, into |-> into, after |-> LastRow(held),
                          phase |-> "asked", fresh |-> {}, stamp |-> 0])

\* The socket of another subscription: a new one connects, the old one and
\* what is on it are dropped.
Relink(subscribed) ==
  /\ link' = IF subscribed THEN "connecting" ELSE "none"
  /\ up' = << >> /\ watched' = {} /\ timers' = {} /\ down' = << >>

\* Mutant: a debounced pull survives the binding it was meant for.
DueAfterBind_Old == invalid
DueAfterBind == None

\* The tab is bound to another thread: an empty cache, and a first pull.
Bind(t) ==
  /\ Move /\ t # bound
  /\ bound' = t /\ rows' = {} /\ shown' = 0
  /\ pulls' = IF visible THEN Pull(t, t, {}) ELSE Aborted(pulls)
  /\ IF visible /\ bound = None
     THEN Relink(TRUE) /\ invalid' = t
     ELSE /\ invalid' = DueAfterBind
          /\ up' = IF link = "open" THEN Append(up, {t}) ELSE up
          /\ UNCHANGED <<link, watched, timers, down>>
  /\ UNCHANGED <<host, listed, running, visible, cuts, foreign>>

\* The tab is parked, or comes back, which pulls at once and once more.
Park ==
  /\ Move
  /\ visible' = ~visible
  /\ IF bound = None THEN UNCHANGED <<socketVars, pulls, invalid>>
     ELSE /\ Relink(visible')
          /\ pulls' = IF visible' THEN Pull(bound, bound, rows) ELSE pulls
          /\ invalid' = IF visible' THEN bound ELSE invalid
  /\ UNCHANGED <<host, listed, running, bound, cache, cuts>>

\* Mutant: the end of a run is not followed by a pull.
PullsOnRunState_Begin(t, r) == t = bound /\ visible /\ r
PullsOnRunState(t, r) == t = bound /\ visible
\* The session list brings a run state.
Hear ==
  /\ listed # << >>
  /\ LET m == Head(listed) IN
       /\ running' = [running EXCEPT ![m.thread] = m.running]
       /\ pulls' = IF PullsOnRunState(m.thread, m.running) THEN Pull(bound, bound, rows) ELSE pulls
  /\ listed' = Tail(listed)
  /\ UNCHANGED <<host, tab, cache, invalid, socketVars, moves, cuts>>

\* The slow poll.
Poll ==
  /\ Subscribed(bound, visible) /\ running[bound] /\ Len(pulls) < MaxPulls
  /\ pulls' = Pull(bound, bound, rows)
  /\ UNCHANGED <<host, listed, running, tab, cache, invalid, socketVars, moves, cuts>>

\* 80 ms after the last notice.
PullDue ==
  /\ invalid # None /\ Len(pulls) < MaxPulls
  /\ pulls' = Pull(invalid, bound, rows) /\ invalid' = None
  /\ UNCHANGED <<host, listed, running, tab, cache, socketVars, moves, cuts>>

\* The answer: rows are merged, `live` and `pending` replaced.
Receive(i) ==
  /\ i \in DOMAIN pulls /\ pulls[i].phase = "answered"
  /\ IF pulls[i].into = bound
     THEN /\ rows' = rows \cup pulls[i].fresh /\ shown' = pulls[i].stamp
          /\ foreign' = (foreign \/ pulls[i].thread # bound)
     ELSE UNCHANGED cache
  /\ pulls' = RemoveAt(pulls, i)
  /\ UNCHANGED <<host, listed, running, tab, invalid, socketVars, moves, cuts>>

-----------------------------------------------------------------------------
(* The socket. *)

Connect ==
  /\ link = "retry" /\ link' = "connecting"
  /\ UNCHANGED <<host, listed, running, tab, cache, pulls, invalid, up, watched, timers, down,
                 moves, cuts>>

SeeOpen ==
  /\ link = "connecting" /\ link' = "open" /\ up' = <<{bound}>>
  /\ UNCHANGED <<host, listed, running, tab, cache, pulls, invalid, watched, timers, down,
                 moves, cuts>>

Cut ==
  /\ cuts < MaxCuts /\ cuts' = cuts + 1
  /\ link \in {"connecting", "open"} /\ link' = "retry"
  /\ up' = << >> /\ watched' = {} /\ timers' = {} /\ down' = << >>
  /\ UNCHANGED <<host, listed, running, tab, cache, pulls, invalid, moves>>

\* Mutant: a notice counts only while the browser knows the thread to run.
Heeded_Running(t) == t = bound /\ running[t]
Heeded(t) == t = bound
\* A notice: the pull is due (again) in 80 ms; another thread's is ignored.
Notice ==
  /\ link = "open" /\ down # << >>
  /\ down' = Tail(down)
  /\ invalid' = IF Heeded(Head(down)) THEN bound ELSE invalid
  /\ UNCHANGED <<host, listed, running, tab, cache, pulls, link, up, watched, timers, moves, cuts>>

-----------------------------------------------------------------------------
(* The host. *)

\* Mutant: the timers of threads not watched any more go on.
TimersOf_All(ids) == timers
TimersOf(ids) == timers \cap ids
\* A watch frame replaces the set.
Watch ==
  /\ up # << >> /\ up' = Tail(up)
  /\ watched' = Head(up) /\ timers' = TimersOf(Head(up))
  /\ UNCHANGED <<host, listed, running, tab, cache, pulls, invalid, link, down, moves, cuts>>

\* A run begins or ends.
Run(t) ==
  /\ IF runs[t] THEN UNCHANGED moves ELSE Move
  /\ runs' = [runs EXCEPT ![t] = ~@]
  /\ listed' = Append(listed, [thread |-> t, running |-> ~runs[t]])
  /\ UNCHANGED <<log, running, tab, cache, pulls, invalid, socketVars, cuts>>

\* A running thread logs a row: notify() unless a notice is due already.
Log(t) ==
  /\ runs[t] /\ log[t] < MaxRows
  /\ log' = [log EXCEPT ![t] = @ + 1]
  /\ timers' = IF t \in watched THEN timers \cup {t} ELSE timers
  /\ UNCHANGED <<runs, listed, running, tab, cache, pulls, invalid, link, up, watched, down,
                 moves, cuts>>

NoticeDue(t) ==
  /\ t \in timers /\ timers' = timers \ {t} /\ down' = Append(down, t)
  /\ UNCHANGED <<host, listed, running, tab, cache, pulls, invalid, link, up, watched, moves, cuts>>

\* The newest rows of a log of n, as many as an answer carries.
Newest(n) == {r \in 1..n : r + EventsCap > n}

\* Mutant: the row after the one the pull names is taken for known.
Fresh_Past(p) == {r \in Newest(log[p.thread]) : p.after > 0 => r > p.after + 1}
\* The newest rows after the one the pull names.
Fresh(p) == {r \in Newest(log[p.thread]) : r > p.after}
Answer(i) ==
  /\ i \in DOMAIN pulls /\ pulls[i].phase = "asked"
  /\ pulls' = [pulls EXCEPT ![i].phase = "answered", ![i].fresh = Fresh(pulls[i]),
                            ![i].stamp = log[pulls[i].thread]]
  /\ UNCHANGED <<host, listed, running, tab, cache, invalid, socketVars, moves, cuts>>

-----------------------------------------------------------------------------
Next ==
  \/ \E t \in Threads : Bind(t) \/ Run(t) \/ Log(t) \/ NoticeDue(t)
  \/ Park \/ Hear \/ Poll \/ PullDue
  \/ Connect \/ SeeOpen \/ Cut \/ Notice \/ Watch
  \/ \E i \in 1..Len(pulls) : Receive(i) \/ Answer(i)

Spec == Init /\ [][Next]_vars

\* Timers fire, requests are answered, the list is delivered, a run ends.
Fairness ==
  /\ WF_vars(Hear) /\ WF_vars(PullDue)
  /\ WF_vars(\E i \in 1..Len(pulls) : Receive(i)) /\ WF_vars(\E i \in 1..Len(pulls) : Answer(i))
  /\ WF_vars(Connect) /\ WF_vars(SeeOpen) /\ WF_vars(Notice) /\ WF_vars(Watch)
  /\ \A t \in Threads : WF_vars(NoticeDue(t)) /\ WF_vars(runs[t] /\ Run(t))
FairSpec == Spec /\ Fairness

-----------------------------------------------------------------------------
(* Properties. *)

\* Whatever pull answers when: the rows shown are the bound thread's.
OwnRowsOnly == ~foreign

\* The live deltas and the pending inbox shown never go back in time while
\* the tab stays bound: they are replaced, not merged.
SnapshotsAdvance == [][bound' = bound => shown' >= shown]_vars

\* "A thread beyond it renders its tail window": whatever was pulled before, the
\* newest rows are shown, as many as one answer carries, and no row the answer
\* did not know.  (An older row may be missing between two that are shown: those
\* logged while nothing pulled, beyond what the next answer carried.)
TailWindow == rows \subseteq 1..shown /\ Newest(shown) \subseteq rows

\* Until it is current, a tab shows rows of its own thread, the newest it was
\* told of, and what replaces them is never older.
ShowsOwnTail == [](OwnRowsOnly /\ TailWindow) /\ SnapshotsAdvance

\* A tab on screen shows its thread's window in the end, although notices are
\* lost with sockets and nothing polls an idle thread.
CatchesUp ==
  <>[](Subscribed(bound, visible) => shown = log[bound] /\ Newest(log[bound]) \subseteq rows)

\* A thread watched is noticed: a row logged while the host watches its thread
\* makes the tab pull, unless the tab goes or the socket breaks.
NoticedWhileWatched ==
  \A t \in Threads : t \in timers ~> (invalid = t \/ t # bound \/ ~visible \/ link # "open")
=============================================================================
