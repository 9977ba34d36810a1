---------------------------- MODULE SessionStore ----------------------------
(***************************************************************************)
(* The client's per-conversation layout store (src/client/state.ts,        *)
(* SidebarStore): the published snapshot, the bounded cache of session      *)
(* states, one debounce timer per session, the copies in localStorage, and  *)
(* the id counter every session shares.                                     *)
(*                                                                          *)
(* A session's state is kept to what tells its copies apart: the minted ids *)
(* in its tree, the unread mark of one page, the commit draft of its git    *)
(* tab and whether a diff tab, which is never persisted as such, is open.   *)
(* A write to localStorage succeeds; a full or blocked storage loses the    *)
(* layout, which the code accepts.                                          *)
(***************************************************************************)
EXTENDS Naturals, Sequences, FiniteSets, SequencesExt

CONSTANTS
  Sessions,       \* the conversations
  None,           \* no session, no copy, no timer
  Cap,            \* SESSION_STATE_CAP
  MaxId,          \* bound: ids are minted up to here
  Parts,          \* the parts of a state a run exercises
  ActiveDrafts,   \* the git tab writes the draft of the session on screen too
  BackgroundClears \* a page is read while another session is current

\* A session's tree, as far as it is told apart.
State == [ids : Seq(1..MaxId), unread : BOOLEAN, draft : BOOLEAN, diff : BOOLEAN]

\* What is assumed of the constants.
SessionStoreAssumption ==
  /\ None \notin Sessions /\ None \notin State
  /\ Cap \in Nat \ {0, 1}
  /\ MaxId \in Nat
  /\ Parts \subseteq {"unread", "draft", "diff"}
  /\ ActiveDrafts \in BOOLEAN
  /\ BackgroundClears \in BOOLEAN

VARIABLES
  current,   \* snapshot.sessionId
  snapshot,  \* snapshot.state
  recent,    \* the keys of bySession, least recently touched first
  states,    \* bySession's values, None for a session not in it
  timers,    \* what each pending write will store
  storage,   \* localStorage
  counter,   \* nextIdCounter
  latest     \* what the reader last made of each session (history)

vars == <<current, snapshot, recent, states, timers, storage, counter, latest>>

Copies == State \union {None}

\* makeDefaultState: one pane, with the id minted for it.
DefaultState(id) == [ids |-> <<id>>, unread |-> FALSE, draft |-> FALSE, diff |-> FALSE]

\* The largest minted id of a state's tree.
MaxCounterId(state) ==
  CHOOSE m \in 0..MaxId :
    /\ m = 0 \/ m \in ToSet(state.ids)
    /\ \A id \in ToSet(state.ids) : id <= m

\* sanitizeState: what comes back of a persisted copy. Diff tabs are dropped.
Sanitized(state) == [state EXCEPT !.diff = FALSE]

\* loadState: the persisted copy, with the counter seeded past its ids, or a
\* fresh default, whose pane is minted from the counter as it stands.
Loaded(s) ==
  IF storage[s] = None
    THEN [state |-> DefaultState(counter + 1), counter |-> counter + 1]
    ELSE [state |-> Sanitized(storage[s]), counter |-> MaxCounterId(storage[s])]

\* The state a session has for a caller: its entry, with the counter re-seeded
\* for it, or its load.
Entry(s) ==
  IF states[s] # None
    THEN [state |-> states[s], counter |-> MaxCounterId(states[s])]
    ELSE Loaded(s)

TypeOK ==
  /\ current \in Sessions \union {None}
  /\ snapshot \in Copies
  /\ recent \in Seq(Sessions)
  /\ Len(recent) <= Cap
  /\ states \in [Sessions -> Copies]
  /\ ToSet(recent) = {s \in Sessions : states[s] # None}
  /\ timers \in [Sessions -> Copies]
  /\ storage \in [Sessions -> Copies]
  /\ counter \in 0..MaxId
  /\ latest \in [Sessions -> Copies]

Init ==
  /\ current = None
  /\ snapshot = None
  /\ recent = <<>>
  /\ states = [s \in Sessions |-> None]
  /\ timers = [s \in Sessions |-> None]
  /\ storage = [s \in Sessions |-> None]
  /\ counter = 0
  /\ latest = [s \in Sessions |-> None]

-----------------------------------------------------------------------------
(* The cache. *)

\* Mutant: the session on screen ages out like any other.
Evictable_All(order, screen) == ToSet(order)

\* The sessions eviction may drop.
Evictable(order, screen) == ToSet(order) \ {screen}

\* The first evictable key of an order that exceeds the cap, None otherwise.
\* One entry is added at a time, so one drop is all evictSessions ever needs.
Victim(order, screen) ==
  IF Len(order) <= Cap
    THEN None
    ELSE order[SelectInSeq(order, LAMBDA s : s \in Evictable(order, screen))]

\* Mutant: an entry is dropped with its write still pending.
Flushed_Dropped(gone) == storage

\* flushPersist: the pending write of a dropped entry lands now, from memory.
Flushed(gone) ==
  [s \in Sessions |-> IF s = gone /\ timers[s] # None THEN states[s] ELSE storage[s]]

\* Mutant: a write already pending is left as it is.
Scheduled_First(s, state) == IF timers[s] # None THEN timers ELSE [timers EXCEPT ![s] = state]

\* schedulePersist: a session's pending write is replaced.
Scheduled(s, state) == [timers EXCEPT ![s] = state]

\* Mutant: the cap is never enforced.
Put_Unbounded(s, state, screen, pending) ==
  /\ recent' = Append(RemoveFirst(recent, s), s)
  /\ states' = [states EXCEPT ![s] = state]
  /\ timers' = pending
  /\ storage' = storage

\* putSession: the entry becomes the most recent one, and the oldest one off
\* screen makes room for it. pending are the timers the caller leaves.
Put(s, state, screen, pending) ==
  LET order == Append(RemoveFirst(recent, s), s)
      gone  == Victim(order, screen)
  IN  /\ recent' = RemoveFirst(order, gone)
      /\ states' = [t \in Sessions |-> IF t = s THEN state ELSE IF t = gone THEN None ELSE states[t]]
      /\ timers' = [t \in Sessions |-> IF t = gone THEN None ELSE pending[t]]
      /\ storage' = Flushed(gone)

-----------------------------------------------------------------------------
(* What the callers do to a state. A change takes the state and the next id. *)

Opened(state, id) == [state EXCEPT !.ids = Append(@, id)]
Closed(state, id) == [state EXCEPT !.ids = RemoveFirst(@, id)]
Marked(state)     == [state EXCEPT !.unread = TRUE]
Cleared(state)    == [state EXCEPT !.unread = FALSE]
Drafted(state)    == [state EXCEPT !.draft = ~@]
Diffed(state)     == [state EXCEPT !.diff = TRUE]

\* What the reader last made of a session, as a state to go on from.
Wanted(s, state) == IF latest[s] = None THEN state ELSE latest[s]

\* A session is selected: it is published first and recorded after, so that the
\* eviction spares it (setSession).
SetSession(s) ==
  LET entry == Entry(s) IN
  /\ s # current
  /\ entry.counter <= MaxId
  /\ current' = s
  /\ snapshot' = entry.state
  /\ counter' = entry.counter
  /\ Put(s, entry.state, s, timers)
  /\ UNCHANGED latest

\* No conversation is on screen any more (setSession, none).
SetNone ==
  /\ current # None
  /\ current' = None /\ snapshot' = None
  /\ UNCHANGED <<recent, states, timers, storage, counter, latest>>

\* reduce: the session on screen goes from the published state to the next one.
Publish(next, wanted) ==
  /\ next # snapshot
  /\ snapshot' = next
  /\ Put(current, next, current, Scheduled(current, next))
  /\ latest' = [latest EXCEPT ![current] = wanted]
  /\ UNCHANGED current

\* The reader opens a tab, which mints an id.
Open ==
  /\ current # None
  /\ counter < MaxId
  /\ counter' = counter + 1
  /\ Publish(Opened(snapshot, counter + 1), Opened(Wanted(current, snapshot), counter + 1))

\* The reader closes a tab, never the first pane.
Close ==
  /\ current # None
  /\ \E i \in 2..Len(snapshot.ids) :
       LET id == snapshot.ids[i] IN
       Publish(Closed(snapshot, id), Closed(Wanted(current, snapshot), id))
  /\ UNCHANGED counter

\* A page opens behind the one on screen (markUnread).
MarkUnread ==
  /\ "unread" \in Parts
  /\ current # None
  /\ Publish(Marked(snapshot), Marked(Wanted(current, snapshot)))
  /\ UNCHANGED counter

\* The reader turns to the marked page (clearUnread, the session on screen).
ClearUnread ==
  /\ "unread" \in Parts
  /\ current # None
  /\ Publish(Cleared(snapshot), Cleared(Wanted(current, snapshot)))
  /\ UNCHANGED counter

\* A diff is opened on screen.
OpenDiff ==
  /\ "diff" \in Parts
  /\ current # None
  /\ Publish(Diffed(snapshot), Diffed(Wanted(current, snapshot)))
  /\ UNCHANGED counter

\* Mutant: the counter stays where the other session's ids left it.
Restored_Seeded(seeded) == seeded

\* The counter after another session's change: never below what it was.
Restored(seeded) == IF seeded < counter THEN counter ELSE seeded

\* A tab is opened in another session (reduceFor, from openTab with a scope and
\* from an async terminal answer): loaded on demand, published nowhere.
OpenFor(s) ==
  LET entry == Entry(s)
      id    == entry.counter + 1
      next  == Opened(entry.state, id)
  IN  /\ s # current
      /\ id <= MaxId
      /\ counter' = Restored(id)
      /\ Put(s, next, current, Scheduled(s, next))
      /\ latest' = [latest EXCEPT ![s] = Opened(Wanted(s, entry.state), id)]
      /\ UNCHANGED <<current, snapshot>>

\* The git tab writes its draft once typing pauses, to the session it was typed
\* in, which is the one on screen unless the reader has moved on.
WriteDraft(s) ==
  LET entry == Entry(s)
      next  == Drafted(entry.state)
  IN
  /\ "draft" \in Parts
  /\ states[s] # None \/ storage[s] # None
  /\ IF s = current THEN ActiveDrafts ELSE TRUE
  /\ counter' = Restored(entry.counter)
  /\ Put(s, next, current, Scheduled(s, next))
  /\ latest' = [latest EXCEPT ![s] = Drafted(Wanted(s, entry.state))]
  /\ UNCHANGED <<current, snapshot>>

\* The marked page of another session is read (clearUnread, a named session):
\* the entry is replaced and no write is scheduled.
ClearUnreadFor(s) ==
  /\ "unread" \in Parts
  /\ BackgroundClears
  /\ s # current
  /\ states[s] # None
  /\ states[s].unread
  /\ Put(s, Cleared(states[s]), current, timers)
  /\ latest' = [latest EXCEPT ![s] = Cleared(Wanted(s, states[s]))]
  /\ UNCHANGED <<current, snapshot, counter>>

-----------------------------------------------------------------------------
(* Time, and the page. *)

\* The debounce of a session ends: the write it was scheduled with lands.
Persist(s) ==
  /\ timers[s] # None
  /\ storage' = [storage EXCEPT ![s] = timers[s]]
  /\ timers' = [timers EXCEPT ![s] = None]
  /\ UNCHANGED <<current, snapshot, recent, states, counter, latest>>

\* The page reloads: memory and pending writes are gone.
Reload ==
  /\ current' = None
  /\ snapshot' = None
  /\ recent' = <<>>
  /\ states' = [s \in Sessions |-> None]
  /\ timers' = [s \in Sessions |-> None]
  /\ counter' = 0
  /\ latest' = [s \in Sessions |-> IF storage[s] = None THEN None ELSE Sanitized(storage[s])]
  /\ UNCHANGED storage

Next ==
  \/ \E s \in Sessions : \/ SetSession(s)
                         \/ OpenFor(s)
                         \/ WriteDraft(s)
                         \/ ClearUnreadFor(s)
                         \/ Persist(s)
  \/ SetNone
  \/ Open
  \/ Close
  \/ MarkUnread
  \/ ClearUnread
  \/ OpenDiff
  \/ Reload

Spec == Init /\ [][Next]_vars

-----------------------------------------------------------------------------
(* Properties. *)

\* The published state is the cached one, and eviction spares the session on
\* screen: no caller of the store sees two versions of it.
SnapshotIsEntry == current # None => snapshot = states[current]

\* Eviction is transparent: a session in memory is as the reader left it,
\* and one that is not in memory comes back that way from storage.
Transparent ==
  \A s \in Sessions :
    latest[s] # None =>
      IF states[s] # None
        THEN states[s] = latest[s]
        ELSE storage[s] # None /\ Sanitized(storage[s]) = latest[s]

\* A pending write stores what is in memory now, and once none is pending the
\* storage holds it: no late write takes a session back in time.
WritesCurrent ==
  \A s \in Sessions :
    (latest[s] # None /\ states[s] # None) =>
      IF timers[s] # None
        THEN timers[s] = states[s]
        ELSE storage[s] # None /\ Sanitized(storage[s]) = states[s]

\* The ids of one session's tree are distinct, whichever sessions minted from
\* the shared counter in between.
IdsDistinct == \A s \in Sessions : states[s] # None => IsInjective(states[s].ids)

\* What the copies of a layout owe each other, each where nothing else breaks it:
\* a draft written past the published state, a mark cleared behind the screen
\* and a diff, which no storage holds, are the exceptions.
StoreCoherent ==
  /\ IdsDistinct
  /\ SnapshotIsEntry \/ ActiveDrafts
  /\ WritesCurrent \/ BackgroundClears \/ "diff" \in Parts
  /\ Transparent \/ ActiveDrafts \/ BackgroundClears \/ "diff" \in Parts
=============================================================================
