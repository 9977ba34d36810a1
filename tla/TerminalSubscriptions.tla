----------------------- MODULE TerminalSubscriptions -----------------------
(***************************************************************************)
(* Subscriptions to a session's terminal summary                            *)
(* (src/client/workspace-terminal-subscriptions.ts): all subscribers of      *)
(* one session and folder share an entry that watches one backend, the       *)
(* provider the registry selects or the local host.                         *)
(*                                                                         *)
(* Everything runs on one thread, but a subscriber's callback may subscribe, *)
(* unsubscribe or change the registry while it is being called. The calls    *)
(* that are not finished are the frames of `stack`, the last one running.   *)
(* A source does not emit while its own subscribe() is still running.       *)
(***************************************************************************)
EXTENDS Naturals, FiniteSets, Sequences, SequencesExt

CONSTANTS
  Listeners,   \* subscribe() calls
  Providers,   \* provider ids, in the order of the registry
  Local,       \* the local host, as a backend
  Kind,        \* backend -> "push", "poll" or "none" (no management source)
  MaxEntries,  \* entries ever created (a bound)
  MaxChanges,  \* registrations, removals and failing matches (a bound)
  MaxEvents,   \* snapshots, errors and poll answers (a bound)
  None

Backends == ToSet(Providers) \cup {Local}
ConstantsAssumption ==
  /\ IsInjective(Providers) /\ Local \notin ToSet(Providers)
  /\ Kind \in [Backends -> {"push", "poll", "none"}]
  /\ MaxEntries \in Nat /\ MaxChanges \in Nat /\ MaxEvents \in Nat
  /\ None \notin Backends \cup Listeners

VARIABLES
  registry,  \* provider -> the descriptor registered (a number), 0: absent
  broken,    \* some provider's match throws
  w,         \* the entries, what runs at the backends, and the call stack
  entries,   \* the entry of the key (0: none)
  reconciling, pending, disposed,
  status,    \* listener -> "new", "on", "off"
  seen,      \* history: what a listener was last told
  changes, events, made

vars == <<registry, broken, w, entries, reconciling, pending, disposed, status, seen,
          changes, events, made>>

Ids == 1..MaxEntries
Errors == {"denied", "unavailable", "failed"}
Descriptors == [id : ToSet(Providers), version : Nat]
Sources == [entry : Ids, generation : Nat, backend : Backends]

Blank == [listeners |-> << >>, generation |-> 0, started |-> FALSE, stopped |-> FALSE,
          provider |-> None, owner |-> None, off |-> None, timer |-> None,
          latest |-> None, failure |-> None]

TypeOK ==
  /\ registry \in [ToSet(Providers) -> Nat] /\ broken \in BOOLEAN
  /\ entries \in 0..MaxEntries /\ made \in 0..MaxEntries
  /\ \A e \in Ids : LET n == w.entry[e] IN
       /\ IsInjective(n.listeners) /\ ToSet(n.listeners) \subseteq Listeners
       /\ n.provider = None \/ n.provider \in Descriptors
       /\ n.owner \in ToSet(Providers) \cup {None}
       /\ n.provider # None => n.owner = n.provider.id
       /\ n.off \in Sources \cup {None} /\ n.timer \in Sources \cup {None}
       /\ n.latest \in Backends \cup {None} /\ n.failure \in Errors \cup {None}
       /\ n.latest = None \/ n.failure = None
  /\ w.on \subseteq Sources /\ w.known \subseteq Sources /\ w.asking \subseteq Sources
  /\ reconciling = (\E i \in DOMAIN w.stack : w.stack[i].op = "loop")
  /\ pending \in BOOLEAN /\ disposed \in BOOLEAN
  /\ status \in [Listeners -> {"new", "on", "off"}]
  /\ seen \in [Listeners -> Backends \cup Errors \cup {None}]

Init ==
  /\ registry \in [ToSet(Providers) -> {0, 1}] /\ broken = FALSE
  /\ w = [entry |-> [e \in Ids |-> Blank], on |-> {}, known |-> {}, asking |-> {}, stack |-> << >>]
  /\ entries = 0 /\ reconciling = FALSE /\ pending = FALSE /\ disposed = FALSE
  /\ status = [l \in Listeners |-> "new"] /\ seen = [l \in Listeners |-> None]
  /\ changes = 0 /\ events = 0 /\ made = 0

-----------------------------------------------------------------------------
(* The functions of the module, from one w to the next. *)

Live(x, e, g) == /\ ~disposed
                 /\ x.entry[e].listeners # << >>
                 /\ x.entry[e].generation = g
Push(x, frame) == [x EXCEPT !.stack = Append(@, frame)]
Top == Last(w.stack)
Popped == [w EXCEPT !.stack = Front(@)]

\* The loop over a copy of the listeners.
Tell(x, e, what) ==
  Push(x, [op |-> "deliver", entry |-> e, generation |-> x.entry[e].generation,
           rest |-> x.entry[e].listeners, what |-> what, called |-> FALSE])

\* Mutant: the subscription of the source is not given back.
Stop_NoOff(x, e) ==
  [x EXCEPT !.entry[e].generation = @ + 1, !.entry[e].timer = None, !.entry[e].off = None]
\* stop(): the poll under way is aborted by its generation.
Stop(x, e) ==
  [x EXCEPT !.on = @ \ {x.entry[e].off},
            !.entry[e].generation = @ + 1,
            !.entry[e].timer = None, !.entry[e].off = None]

\* Mutant: a denied entry is only marked.
AfterDenied_Marked(x, e) == [x EXCEPT !.entry[e].stopped = TRUE]
AfterDenied(x, e) == Stop([x EXCEPT !.entry[e].stopped = TRUE], e)
\* Mutant: the summary stays remembered beside the error that follows it.
Fail_KeepsSummary(x, e, g, error) ==
  IF ~Live(x, e, g) THEN x
  ELSE LET failed == [x EXCEPT !.entry[e].failure = error] IN
       Tell(IF error = "denied" THEN AfterDenied(failed, e) ELSE failed, e, error)
\* fail(): nothing is known any more, and a denial also stops the entry.
Fail(x, e, g, error) ==
  IF ~Live(x, e, g) THEN x
  ELSE LET failed == [x EXCEPT !.entry[e].latest = None, !.entry[e].failure = error] IN
       Tell(IF error = "denied" THEN AfterDenied(failed, e) ELSE failed, e, error)

\* snapshot(): listeners are told unless the entry moved on.
Snapshot(x, src) ==
  IF ~Live(x, src.entry, src.generation) THEN x
  ELSE Tell([x EXCEPT !.entry[src.entry].latest = src.backend,
                      !.entry[src.entry].failure = None], src.entry, src.backend)

\* start(): another backend, from scratch.
Start(x, e, provider) ==
  LET s == [Stop(x, e) EXCEPT
              !.entry[e].started = TRUE, !.entry[e].stopped = FALSE,
              !.entry[e].provider = provider,
              !.entry[e].owner = IF provider = None THEN @ ELSE provider.id,
              !.entry[e].latest = None, !.entry[e].failure = None]
      n == s.entry[e]
      backend == IF provider = None THEN Local ELSE provider.id
      src == [entry |-> e, generation |-> n.generation, backend |-> backend] IN
  CASE (provider = None /\ n.owner # None) \/ Kind[backend] = "none" ->
         Fail(s, e, n.generation, "unavailable")
    [] Kind[backend] = "push" /\ Live(s, e, n.generation) ->
         [s EXCEPT !.on = @ \cup {src}, !.known = @ \cup {src}, !.entry[e].off = src]
    [] Kind[backend] = "poll" /\ Live(s, e, n.generation) ->
         [s EXCEPT !.asking = @ \cup {src}]
    [] OTHER -> s

\* Mutant: an entry whose provider went takes whatever provider there is.
Candidates_All(owner) == Providers
\* Once owned, only the owner will do.
Candidates(owner) ==
  IF owner = None THEN Providers ELSE SelectSeq(Providers, LAMBDA p : p = owner)
Selected(owner) ==
  LET there == SelectSeq(Candidates(owner), LAMBDA p : registry[p] > 0) IN
  IF there = << >> THEN None ELSE [id |-> Head(there), version |-> registry[Head(there)]]

Reconcile(x, e, registryChange) ==
  LET n == x.entry[e]
      provider == Selected(n.owner)
      stopped == [Stop(x, e) EXCEPT !.entry[e].started = FALSE] IN
  IF n.listeners = << >> \/ disposed THEN x
  ELSE IF broken THEN Fail(stopped, e, stopped.entry[e].generation, "failed")
  ELSE IF \/ ~n.started \/ n.provider # provider
          \/ registryChange /\ (n.stopped \/ n.failure # None)
       THEN Start(x, e, provider) ELSE x

-----------------------------------------------------------------------------
(* What a caller may do, at top level or from inside a callback. *)

Running == IF w.stack = << >> THEN TRUE ELSE Top.op = "deliver" /\ Top.called

\* Mutant: a change that arrives while entries are reconciled is forgotten.
PendingAfterChange_Idle == IF reconciling THEN pending ELSE TRUE
PendingAfterChange == TRUE
\* registryChanged(), after the registry changed.
Changed ==
  /\ changes < MaxChanges /\ changes' = changes + 1
  /\ pending' = IF disposed THEN pending ELSE PendingAfterChange
  /\ reconciling' = (reconciling \/ ~disposed)
  /\ w' = IF disposed \/ reconciling THEN w ELSE Push(w, [op |-> "loop", for |-> None])
  /\ UNCHANGED <<entries, disposed, status, seen, events, made>>

Register(p) == /\ Running /\ registry' = [registry EXCEPT ![p] = changes + 2]
               /\ Changed /\ UNCHANGED broken
Unregister(p) == /\ Running /\ registry[p] > 0 /\ registry' = [registry EXCEPT ![p] = 0]
                 /\ Changed /\ UNCHANGED broken
Break == /\ Running /\ broken' = ~broken /\ Changed /\ UNCHANGED registry

\* Mutant: one who joins late waits for the next snapshot.
Welcome_None(n) == None
\* What a new listener is told at once.
Welcome(n) == IF n.latest # None THEN n.latest ELSE n.failure

\* subscribe(), up to the callback for what is known; Join goes on.
Subscribe(l) ==
  /\ Running /\ ~disposed /\ status[l] = "new"
  /\ entries # 0 \/ made < MaxEntries
  /\ status' = [status EXCEPT ![l] = "on"]
  /\ LET e == IF entries = 0 THEN made + 1 ELSE entries
         joined == Push([w EXCEPT !.entry[e].listeners = Append(@, l)],
                        [op |-> "join", entry |-> e, for |-> l])
         word == Welcome(w.entry[e]) IN
       /\ entries' = e /\ made' = IF entries = 0 THEN made + 1 ELSE made
       /\ w' = IF word = None THEN joined
               ELSE Push(joined, [op |-> "deliver", entry |-> e, rest |-> <<l>>, what |-> word,
                                  generation |-> w.entry[e].generation, called |-> FALSE])
  /\ UNCHANGED <<registry, broken, reconciling, pending, disposed, seen, changes, events>>

\* The disposer subscribe() returned; the last one ends the entry.
Unsubscribe(l) ==
  /\ Running /\ status[l] = "on"
  /\ \A i \in DOMAIN w.stack : w.stack[i].op \in {"join", "loop"} => w.stack[i].for # l
  /\ status' = [status EXCEPT ![l] = "off"]
  /\ LET e == CHOOSE e \in Ids : l \in ToSet(w.entry[e].listeners) \/ disposed
         left == [w EXCEPT !.entry[e].listeners = SelectSeq(@, LAMBDA x : x # l)] IN
       IF ~disposed /\ left.entry[e].listeners = << >>
       THEN w' = Stop(left, e) /\ entries' = IF entries = e THEN 0 ELSE entries
       ELSE w' = left /\ UNCHANGED entries
  /\ UNCHANGED <<registry, broken, reconciling, pending, disposed, seen, changes, events, made>>

Dispose ==
  /\ Running /\ ~disposed /\ disposed' = TRUE
  /\ w' = IF entries = 0 THEN w
          ELSE Stop([w EXCEPT !.entry[entries].listeners = << >>], entries)
  /\ entries' = 0
  /\ UNCHANGED <<registry, broken, reconciling, pending, status, seen, changes, events, made>>

-----------------------------------------------------------------------------
(* The frames. *)

\* One more listener is told, or the loop ends.
Deliver ==
  /\ w.stack # << >> /\ Top.op = "deliver"
  /\ IF Top.rest # << >> /\ Live(w, Top.entry, Top.generation)
     THEN LET l == Head(Top.rest) IN
          /\ w' = [w EXCEPT !.stack[Len(w.stack)].rest = Tail(@),
                            !.stack[Len(w.stack)].called = TRUE]
          /\ seen' = IF l \in ToSet(w.entry[Top.entry].listeners)
                     THEN [seen EXCEPT ![l] = Top.what] ELSE seen
     ELSE w' = Popped /\ UNCHANGED seen
  /\ UNCHANGED <<registry, broken, entries, reconciling, pending, disposed, status,
                 changes, events, made>>

\* subscribe() after its callback.
Join ==
  /\ w.stack # << >> /\ Top.op = "join"
  /\ IF reconciling
     THEN w' = Popped /\ pending' = TRUE /\ UNCHANGED reconciling
     ELSE /\ reconciling' = TRUE /\ UNCHANGED pending
          /\ w' = Reconcile(Push(Popped, [op |-> "loop", for |-> Top.for]), Top.entry, FALSE)
  /\ UNCHANGED <<registry, broken, entries, disposed, status, seen, changes, events, made>>

\* registryChanged()'s loop, also the end of subscribe().
Loop ==
  /\ w.stack # << >> /\ Top.op = "loop"
  /\ IF pending
     THEN /\ pending' = FALSE /\ UNCHANGED reconciling
          /\ w' = IF entries = 0 THEN w ELSE Reconcile(w, entries, TRUE)
     ELSE w' = Popped /\ reconciling' = FALSE /\ UNCHANGED pending
  /\ UNCHANGED <<registry, broken, entries, disposed, status, seen, changes, events, made>>

\* Mutant: a poll is followed by another whatever became of its entry.
Rearmed_Always(src) == [Popped EXCEPT !.entry[src.entry].timer = src]
Rearmed(src) ==
  IF Live(w, src.entry, src.generation)
  THEN [Popped EXCEPT !.entry[src.entry].timer = src] ELSE Popped
\* The finally of a poll: the next one in ten seconds.
Finally ==
  /\ w.stack # << >> /\ Top.op = "finally"
  /\ w' = Rearmed(Top.src)
  /\ UNCHANGED <<registry, broken, entries, reconciling, pending, disposed, status, seen,
                 changes, events, made>>

-----------------------------------------------------------------------------
(* The backends; what they were asked they may answer late. *)

Event ==
  /\ w.stack = << >> /\ events < MaxEvents /\ events' = events + 1
  /\ UNCHANGED <<registry, broken, entries, reconciling, pending, disposed, status, seen,
                 changes, made>>

\* A push source calls one of its two callbacks.
Emit(src) == src \in w.known /\ Event /\ w' = Snapshot(w, src)
EmitError(src, error) ==
  src \in w.known /\ Event /\ w' = Fail(w, src.entry, src.generation, error)

\* source.list() settles.
Answered(src) == Push([w EXCEPT !.asking = @ \ {src}], [op |-> "finally", src |-> src])
Answer(src) == src \in w.asking /\ Event /\ w' = Snapshot(Answered(src), src)
AnswerError(src, error) ==
  src \in w.asking /\ Event /\ w' = Fail(Answered(src), src.entry, src.generation, error)

\* The poll's timer.
Poll(e) ==
  /\ w.stack = << >> /\ w.entry[e].timer # None
  /\ w' = [w EXCEPT !.entry[e].timer = None, !.asking = @ \cup {w.entry[e].timer}]
  /\ UNCHANGED <<registry, broken, entries, reconciling, pending, disposed, status, seen,
                 changes, events, made>>

-----------------------------------------------------------------------------
Next ==
  \/ \E p \in ToSet(Providers) : Register(p) \/ Unregister(p)
  \/ Break \/ Dispose
  \/ \E l \in Listeners : Subscribe(l) \/ Unsubscribe(l)
  \/ Deliver \/ Join \/ Loop \/ Finally
  \/ \E src \in w.known : Emit(src) \/ \E x \in {"denied", "failed"} : EmitError(src, x)
  \/ \E src \in w.asking : Answer(src) \/ \E x \in {"denied", "failed"} : AnswerError(src, x)
  \/ \E e \in Ids : Poll(e)

Spec == Init /\ [][Next]_vars

-----------------------------------------------------------------------------
(* Properties. *)

\* "Once owned, disappearance cannot accidentally authorize a local read": an
\* owner is never replaced, and a summary comes from the owner, or from the
\* local host while no provider ever owned the entry.
KeepsOwner ==
  \A e \in Ids : LET n == w.entry[e] m == w'.entry[e] IN
    /\ n.owner # None => m.owner = n.owner
    /\ m.latest \notin {None, n.latest} => m.latest = (IF m.owner = None THEN Local ELSE m.owner)
OwnerPinned == [][KeepsOwner]_vars

\* A subscription at a backend belongs to the running generation of the entry
\* in use: none is lost, however callbacks and changes are nested.
NoLostSubscription ==
  \A src \in w.on : /\ src.entry = entries /\ w.entry[src.entry].off = src
                    /\ w.entry[src.entry].generation = src.generation
                    /\ w.entry[src.entry].listeners # << >>

\* An entry polls in one chain: a call under way, its end on the stack, or one
\* timer; and not at all without listeners or after access was denied.
OneChain ==
  \A e \in Ids :
    LET n == w.entry[e]
        asking == {src \in w.asking : src.entry = e /\ src.generation = n.generation}
        ending == {i \in DOMAIN w.stack : w.stack[i].op = "finally" /\ w.stack[i].src.entry = e
                                          /\ w.stack[i].src.generation = n.generation}
        timers == IF n.timer = None THEN {} ELSE {n.timer} IN
    /\ Cardinality(asking) + Cardinality(ending) + Cardinality(timers) <= 1
    /\ timers # {} => n.listeners # << >> /\ ~n.stopped

\* After access was denied nothing of the entry runs until it is started anew.
DeniedIsSilent ==
  \A e \in Ids : w.entry[e].stopped =>
    /\ w.entry[e].off = None /\ w.entry[e].timer = None
    /\ \A src \in w.asking : src.entry = e => src.generation < w.entry[e].generation

\* When no call is running, every listener was last told what the entry knows.
ToldTheLatest ==
  w.stack = << >> /\ entries # 0 =>
    LET n == w.entry[entries] IN
    n.latest # None \/ n.failure # None =>
      \A l \in ToSet(n.listeners) :
        seen[l] = IF n.latest # None THEN n.latest ELSE n.failure

\* When no call is running, the entry watches what the registry selects for
\* it, also if the registry changed inside a callback.
FollowsRegistry ==
  w.stack = << >> /\ entries # 0 /\ ~broken =>
    w.entry[entries].started /\ w.entry[entries].provider = Selected(w.entry[entries].owner)
=============================================================================
