--------------------------- MODULE ActiveWorktree ---------------------------
(***************************************************************************)
(* The directory the sidebar takes for a session's root                    *)
(* (active-worktree.ts): the linked worktree the model's tool calls name   *)
(* since its last explicit change of directory, else that directory.  A    *)
(* root is kept for a while, and asks for the same one share the           *)
(* resolution under way.                                                   *)
(*                                                                         *)
(* One live session; its log holds changes of directory and tool calls,    *)
(* each of which names one linked worktree.  An epoch is the position of   *)
(* the last change.  Left out: sessions that are detached (no epoch, the   *)
(* persisted log), the override, directories outside a repository, paths   *)
(* and their scores, the bounds on events and probes, and the memos of     *)
(* git's answers about a path.                                             *)
(***************************************************************************)
EXTENDS Naturals, FiniteSets, Sequences

CONSTANTS
  Callers,
  Dirs, Linked,  \* directories, and those that are linked worktrees
  Home,          \* where the session begins
  TTL,           \* ACTIVE_ROOT_TTL_MS, in ticks
  Slow,          \* bound: ticks a resolution takes
  MaxEvents,     \* bound: events in the log
  None

ConstantsAssumption ==
  /\ Linked \subseteq Dirs /\ Home \in Dirs /\ None \notin Dirs
  /\ TTL \in Nat \ {0} /\ Slow \in Nat /\ MaxEvents \in Nat

VARIABLES
  log,      \* the session's events
  cache,    \* activeWorktreeRootCache's entry of the session, or None
  flights,  \* activeRootInFlight
  caller    \* callers: where they are, what they asked for, what they got

vars == <<log, cache, flights, caller>>

Events == [kind : {"cd", "call"}, dir : Dirs]
\* epoch is the log's when the root was asked for; joined is the flight's.
Idle == [stage |-> "idle", base |-> None, epoch |-> 0, joined |-> 0, root |-> None, age |-> 0]

TypeOK ==
  /\ \A i \in DOMAIN log : log[i] \in Events
  /\ cache # None => cache.root \in Dirs /\ cache.base \in Dirs /\ cache.left \in 0 .. TTL
  /\ \A f \in flights : f.base \in Dirs /\ f.epoch \in 0 .. Len(log) /\ f.seen \in 0 .. Len(log)
  /\ \A f, g \in flights : f.base = g.base /\ f.epoch = g.epoch => f = g
  /\ \A c \in Callers :
       /\ caller[c].stage \in {"idle", "based", "waiting", "answered"}
       /\ caller[c].stage = "waiting" =>
            \E f \in flights : f.base = caller[c].base /\ f.epoch = caller[c].joined

Init ==
  /\ log = <<>> /\ cache = None /\ flights = {}
  /\ caller = [c \in Callers |-> Idle]

-----------------------------------------------------------------------------
(* What the log says                                                        *)

\* directoryEpochOf: where the last change of directory is.
Epoch(events) ==
  CHOOSE n \in 0 .. Len(events) :
    /\ n = 0 \/ events[n].kind = "cd"
    /\ \A i \in n + 1 .. Len(events) : events[i].kind # "cd"

Cwd == IF Epoch(log) = 0 THEN Home ELSE log[Epoch(log)].dir

\* activeRootFromEvents: the newest worktree other than the base that a call
\* after the last change names.
Active(events, base) ==
  LET named == {i \in Epoch(events) + 1 .. Len(events) : events[i].dir \in Linked \ {base}} IN
  IF named = {} THEN base
  ELSE events[CHOOSE i \in named : \A j \in named : j <= i].dir

-----------------------------------------------------------------------------
(* activeWorktreeRootOf                                                     *)

\* The caller reads the session's directory, and asks.
ReadBase(c) ==
  /\ caller[c] = Idle
  /\ caller' = [caller EXCEPT ![c].stage = "based", ![c].base = Cwd]
  /\ UNCHANGED <<log, cache, flights>>

\* Mutant: the base alone says which root it is.
Hit_ByBase(base, epoch) == cache # None /\ cache.left > 0 /\ cache.base = base
Hit(base, epoch) ==
  cache # None /\ cache.left > 0 /\ cache.base = base /\ cache.epoch = epoch

\* Mutant: a hit starts the entry's time anew.
Kept_Longer == [cache EXCEPT !.left = TTL]
\* A hit is the last to be evicted, and expires when it would have.
Kept == cache

\* Mutant: asks for the same base share a resolution.
Shared_ByBase(base, epoch) == {f \in flights : f.base = base}
Shared(base, epoch) == {f \in flights : f.base = base /\ f.epoch = epoch}

Ask(c) ==
  LET base == caller[c].base
      epoch == Epoch(log)
      joins(key) == [caller EXCEPT ![c].stage = "waiting", ![c].epoch = epoch, ![c].joined = key]
  IN
  /\ caller[c].stage = "based"
  /\ \/ /\ Hit(base, epoch)
        /\ cache' = Kept
        /\ caller' = [caller EXCEPT ![c] =
             [@ EXCEPT !.stage = "answered", !.epoch = epoch, !.root = cache.root, !.age = cache.age]]
        /\ UNCHANGED flights
     \/ /\ ~Hit(base, epoch)
        /\ \/ /\ Shared(base, epoch) = {}
              /\ flights' = flights \cup
                   {[base |-> base, epoch |-> epoch, read |-> FALSE, seen |-> 0, age |-> 0, spent |-> 0]}
              /\ caller' = joins(epoch)
           \/ \E f \in Shared(base, epoch) :
                caller' = joins(f.epoch) /\ UNCHANGED flights
        /\ UNCHANGED cache
  /\ UNCHANGED log

\* The probe of the base is over: the events are read as they are now.
ReadEvents(f) ==
  /\ f \in flights /\ ~f.read
  /\ flights' = (flights \ {f}) \cup {[f EXCEPT !.read = TRUE, !.seen = Len(log)]}
  /\ UNCHANGED <<log, cache, caller>>

\* The probes of the paths are over: the root is kept from now on, and all who
\* wait for it are answered.
Resolve(f) ==
  LET root == Active(SubSeq(log, 1, f.seen), f.base) IN
  /\ f \in flights /\ f.read
  /\ flights' = flights \ {f}
  /\ cache' = [root |-> root, base |-> f.base, epoch |-> f.epoch, left |-> TTL, age |-> f.age]
  /\ caller' = [c \in Callers |->
       IF caller[c].stage = "waiting" /\ caller[c].base = f.base /\ caller[c].joined = f.epoch
       THEN [caller[c] EXCEPT !.stage = "answered", !.root = root, !.age = f.age]
       ELSE caller[c]]
  /\ UNCHANGED log

Done(c) ==
  /\ caller[c].stage = "answered"
  /\ caller' = [caller EXCEPT ![c] = Idle]
  /\ UNCHANGED <<log, cache, flights>>

\* Other sessions' roots push this one out.
Evict ==
  /\ cache # None /\ cache' = None
  /\ UNCHANGED <<log, flights, caller>>

-----------------------------------------------------------------------------
(* The session, and time                                                    *)

Commit(event) ==
  /\ Len(log) < MaxEvents /\ log' = Append(log, event)
  /\ UNCHANGED <<cache, flights, caller>>

Change(d) == Commit([kind |-> "cd", dir |-> d])
Call(d) == Commit([kind |-> "call", dir |-> d])

\* age is a ghost: the ticks since the events behind a root were read.
Tick ==
  /\ \A f \in flights : f.spent < Slow
  /\ cache # None \/ flights # {}
  /\ cache' = IF cache = None \/ cache.left <= 1 THEN None
              ELSE [cache EXCEPT !.left = @ - 1, !.age = @ + 1]
  /\ flights' = {[f EXCEPT !.spent = @ + 1, !.age = IF f.read THEN @ + 1 ELSE 0] : f \in flights}
  /\ UNCHANGED <<log, caller>>

Next ==
  \/ \E c \in Callers : ReadBase(c) \/ Ask(c) \/ Done(c)
  \/ \E f \in flights : ReadEvents(f) \/ Resolve(f)
  \/ \E d \in Dirs : Change(d)
  \/ \E d \in Linked : Call(d)
  \/ Evict \/ Tick

Spec == Init /\ [][Next]_vars

-----------------------------------------------------------------------------
(* Properties                                                               *)

\* "An explicit directory transition is the authority boundary": whatever was
\* kept or under way, a worktree that is answered was named after the last change
\* of directory before the ask.
Boundary ==
  \A c \in Callers :
    caller[c].stage = "answered" /\ caller[c].root # caller[c].base
      => \E i \in caller[c].epoch + 1 .. Len(log) :
           log[i] = [kind |-> "call", dir |-> caller[c].root]

\* A session that moves is followed: an answer is what the log said at most the
\* TTL and one resolution ago, however often the root is asked for.
Followed ==
  \A c \in Callers : caller[c].stage = "answered" => caller[c].age < TTL + Slow
=============================================================================
