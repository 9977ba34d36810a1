---------------------------- MODULE SidechatSeed ----------------------------
(***************************************************************************)
(* What a side chat thread inherits of its parent (sidechat-core.ts): the   *)
(* seed, a prefix of the parent's log that no turn is open at the end of,   *)
(* and the snapshot, which tells in words of the turn that is not in it.    *)
(* The parent is at work meanwhile: the host's loop appends to the log, and *)
(* streams the text of an attempt in frames that are not in the log; what   *)
(* they carried is kept in a buffer (assistant-live.ts) until the attempt   *)
(* ends.  sidechat.start reads both in one run of the event loop, at any    *)
(* moment: seed and snapshot are functions of the state.                    *)
(*                                                                         *)
(* Left out: compacted parents, the budgets of the snapshot's text, and the *)
(* wording.  A chunk of text is its attempt and its index; turns, steps,     *)
(* calls and directories are numbered as they come.                        *)
(***************************************************************************)
EXTENDS Naturals, Sequences, FiniteSets, SequencesExt

CONSTANTS
  Window,      \* the most chunks the buffer keeps
  MaxTurns, MaxSteps, MaxAttempts, MaxChunks, MaxCalls, MaxMoves, \* bounds, in all
  MaxLost,     \* bound: frames that do not reach the buffer, evictions
  None

ConstantsAssumption ==
  /\ Window \in Nat \ {0} /\ MaxTurns \in Nat /\ MaxSteps \in Nat /\ MaxAttempts \in Nat
  /\ MaxCalls \in Nat /\ MaxMoves \in Nat /\ MaxChunks \in Nat /\ MaxLost \in Nat

VARIABLES
  log,     \* the parent's events
  running, \* the calls the host executes
  stream,  \* the attempt under way, or None
  buffer,  \* what the plugin has of it, or None
  tries,   \* attempts so far
  lost

vars == <<log, running, stream, buffer, tries, lost>>

Event(type, of) == [type |-> type, of |-> of]
Count(type) == Cardinality({i \in DOMAIN log : log[i].type = type})
Chunks == (1..MaxAttempts) \X (0..MaxChunks - 1)

TypeOK ==
  /\ \A i \in DOMAIN log :
       /\ log[i].type \in {"turn/start", "turn/end", "step/start", "step/end"} => log[i].of \in Nat
       /\ log[i].type \in {"tool/call", "tool/result"} => log[i].of \in 1..MaxCalls
       /\ log[i].type \in {"assistant/message", "assistant/attempt"} => log[i].of \in Seq(Chunks)
       /\ log[i].type = "working-directory/change" => log[i].of \in 0..MaxMoves
  /\ running \subseteq 1..MaxCalls
  /\ stream = None \/ stream \in [id : 1..MaxAttempts, turn : 1..MaxTurns, sent : 0..MaxChunks]
  /\ buffer = None \/
       /\ buffer.id \in 1..MaxAttempts /\ buffer.turn \in 1..MaxTurns
       /\ buffer.next \in 0..MaxChunks /\ buffer.chunks \in Seq(Chunks)
  /\ tries \in 0..MaxAttempts /\ lost \in 0..MaxLost

\* A session begins in some directory.
Init ==
  /\ log = <<Event("working-directory/change", 0)>>
  /\ running = {} /\ stream = None /\ buffer = None /\ tries = 0 /\ lost = 0

-----------------------------------------------------------------------------
\* The index of the turn/start of the turn that is open at the end of events, or 0.
OpenTurn(events) ==
  LET last == SelectLastInSeq(events, LAMBDA e : e.type \in {"turn/start", "turn/end"}) IN
  IF last # 0 /\ events[last].type = "turn/start" THEN last ELSE 0

\* The number of the step that is open at the end of events, or 0.
OpenStep(events) ==
  LET last == SelectLastInSeq(events, LAMBDA e : e.type \in {"step/start", "step/end"}) IN
  IF last > OpenTurn(events) /\ events[last].type = "step/start" THEN events[last].of ELSE 0

\* The calls of the turn opened at turn that wait for a result: none came, and
\* their step is open.
\* Mutants: any result settles all of them; a turn waits for none; a step that
\* ended goes on waiting.
Dangling_One(events, turn) ==
  {events[i].of : i \in {i \in turn + 1..Len(events) :
     /\ events[i].type = "tool/call"
     /\ \A j \in i + 1..Len(events) : events[j].type \notin {"step/end", "tool/result"}}}
Dangling_None(events, turn) == {}
Dangling_Ended(events, turn) ==
  {events[i].of : i \in {i \in turn + 1..Len(events) :
     /\ events[i].type = "tool/call"
     /\ \A j \in i + 1..Len(events) : events[j] # Event("tool/result", events[i].of)}}
Dangling(events, turn) ==
  {events[i].of : i \in {i \in turn + 1..Len(events) :
     /\ events[i].type = "tool/call"
     /\ \A j \in i + 1..Len(events) :
          events[j].type # "step/end" /\ events[j] # Event("tool/result", events[i].of)}}

\* A turn is closed in the seed as interrupted, its open step first.
\* Mutant: the step is left open.
Closing_Turn(events, turn) == <<Event("turn/end", events[turn].of)>>
Closing(events, turn) ==
  (IF OpenStep(events) = 0 THEN <<>> ELSE <<Event("step/end", OpenStep(events))>>)
    \o <<Event("turn/end", events[turn].of)>>

\* buildSidechatInheritance(): a turn with a call that runs cannot be closed, and
\* is cut off.
\* Mutant: its start is kept.
Seed_Late(events) ==
  LET turn == OpenTurn(events) IN
  CASE turn = 0 -> events
    [] turn # 0 /\ Dangling(events, turn) # {} -> SubSeq(events, 1, turn)
    [] turn # 0 /\ Dangling(events, turn) = {} -> events \o Closing(events, turn)
Seed(events) ==
  LET turn == OpenTurn(events) IN
  CASE turn = 0 -> events
    [] turn # 0 /\ Dangling(events, turn) # {} -> SubSeq(events, 1, turn - 1)
    [] turn # 0 /\ Dangling(events, turn) = {} -> events \o Closing(events, turn)

\* What an event of the turn adds to the text of the snapshot.
\* Mutant: only a message does, not the stream of an attempt that failed.
TextOf_Message(e) == IF e.type = "assistant/message" THEN e.of ELSE <<>>
TextOf(e) == IF e.type \in {"assistant/message", "assistant/attempt"} THEN e.of ELSE <<>>

Texts(events) == FlattenSeq([i \in DOMAIN events |-> TextOf(events[i])])

Results(events) == {events[i].of : i \in {i \in DOMAIN events : events[i].type = "tool/result"}}

\* The live text of the turn number n.
LiveText(n) == IF buffer # None /\ buffer.turn = n THEN buffer.chunks ELSE <<>>

\* buildOpenTurnSnapshot(), where the seed was cut.
Snapshot ==
  LET turn == OpenTurn(log)
      tail == SubSeq(log, turn + 1, Len(log)) IN
  IF turn = 0 \/ Dangling(log, turn) = {} THEN None
  ELSE [text |-> Texts(tail) \o LiveText(log[turn].of), done |-> Results(tail),
        executing |-> Dangling(log, turn)]

\* The directory a log leaves its session in.
Folder(events) ==
  events[SelectLastInSeq(events, LAMBDA e : e.type = "working-directory/change")].of

\* sidechat.start seeds the thread, and stamps the parent's directory after it.
\* Mutant: the seed is left to say it.
Inherited_Unstamped == Seed(log)
Inherited == Append(Seed(log), Event("working-directory/change", Folder(log)))

-----------------------------------------------------------------------------
\* The frames of an attempt, as the buffer takes them.
Tracked(id, turn) == [id |-> id, turn |-> turn, next |-> 0, chunks |-> <<>>]

\* A chunk that does not follow the last one drops the attempt.
\* Mutants: it is appended; it is skipped.
Chunked_Any(id, index) ==
  IF buffer = None \/ buffer.id # id THEN buffer
  ELSE [buffer EXCEPT !.next = index + 1, !.chunks = Append(@, <<id, index>>)]
Chunked(id, index) ==
  CASE buffer = None \/ buffer.id # id -> buffer
    [] buffer # None /\ buffer.id = id /\ index # buffer.next -> None
    [] buffer # None /\ buffer.id = id /\ index = buffer.next ->
         LET all == Append(buffer.chunks, <<id, index>>) IN
         [buffer EXCEPT !.next = index + 1,
                        !.chunks = IF Len(all) > Window THEN Tail(all) ELSE all]

\* Mutant: what an attempt streamed stays until the next one starts.
Ended_Keeps == buffer
Ended == None

Logs(type, of) == log' = Append(log, Event(type, of))

\* The loop of the parent: turns of steps, steps of attempts and calls.
StartTurn ==
  /\ OpenTurn(log) = 0 /\ Count("turn/start") < MaxTurns
  /\ Logs("turn/start", Count("turn/start") + 1) /\ UNCHANGED <<running, stream, buffer, tries, lost>>

Turn == log[OpenTurn(log)].of
Called(events) == {events[i].of : i \in {i \in DOMAIN events : events[i].type = "tool/call"}}

\* A step that was aborted is the last of its turn.
StartStep ==
  /\ OpenTurn(log) # 0 /\ OpenStep(log) = 0 /\ Count("step/start") < MaxSteps
  /\ LET tail == SubSeq(log, OpenTurn(log), Len(log)) IN Called(tail) \subseteq Results(tail)
  /\ Logs("step/start", Count("step/start") + 1) /\ UNCHANGED <<running, stream, buffer, tries, lost>>

\* A frame may be lost: the plugin was loaded, or reloaded, meanwhile.
Loses(seen) == lost' = (IF seen THEN lost ELSE lost + 1) /\ lost' <= MaxLost

Start(seen) ==
  /\ OpenStep(log) # 0 /\ stream = None /\ tries < MaxAttempts /\ Loses(seen)
  /\ running = {} /\ log[Len(log)].type \in {"step/start", "assistant/attempt"}
  /\ tries' = tries + 1
  /\ stream' = [id |-> tries', turn |-> Turn, sent |-> 0]
  /\ buffer' = (IF seen THEN Tracked(tries', Turn) ELSE buffer)
  /\ UNCHANGED <<log, running>>

Streams(seen) ==
  /\ stream # None /\ Len(Texts(log)) + stream.sent < MaxChunks /\ Loses(seen)
  /\ stream' = [stream EXCEPT !.sent = @ + 1]
  /\ buffer' = (IF seen THEN Chunked(stream.id, stream.sent) ELSE buffer)
  /\ UNCHANGED <<log, running, tries>>

\* The record of an attempt holds all it streamed.
Settles(type) ==
  /\ stream # None /\ type \in {"assistant/message", "assistant/attempt"}
  /\ type = "assistant/attempt" => running = {}
  /\ Logs(type, [i \in 1..stream.sent |-> <<stream.id, i - 1>>])
  /\ stream' = None /\ buffer' = Ended
  /\ UNCHANGED <<running, tries, lost>>

\* A call runs when its message is there, or while the message still streams.
Call ==
  /\ OpenStep(log) # 0 /\ Count("tool/call") < MaxCalls
  /\ stream # None \/ log[Len(log)].type \in {"assistant/message", "tool/call", "tool/result"}
  /\ Logs("tool/call", Count("tool/call") + 1) /\ running' = running \cup {Count("tool/call") + 1}
  /\ UNCHANGED <<stream, buffer, tries, lost>>

Result(c) ==
  /\ c \in running /\ running' = running \ {c}
  /\ Logs("tool/result", c) /\ UNCHANGED <<stream, buffer, tries, lost>>

\* A step that is aborted ends over its calls.
EndStep ==
  /\ OpenStep(log) # 0 /\ stream = None
  /\ Logs("step/end", OpenStep(log)) /\ running' = {}
  /\ UNCHANGED <<stream, buffer, tries, lost>>

EndTurn ==
  /\ OpenTurn(log) # 0 /\ OpenStep(log) = 0
  /\ Logs("turn/end", Turn) /\ UNCHANGED <<running, stream, buffer, tries, lost>>

Move ==
  /\ OpenTurn(log) # 0 /\ Folder(log) < MaxMoves /\ Logs("working-directory/change", Folder(log) + 1)
  /\ UNCHANGED <<running, stream, buffer, tries, lost>>

\* The sessions beside it are too many.
Evict ==
  /\ buffer # None /\ buffer' = None /\ Loses(FALSE) /\ UNCHANGED <<log, running, stream, tries>>

Next ==
  \/ StartTurn \/ StartStep \/ EndStep \/ EndTurn \/ Call \/ Move \/ Evict
  \/ \E seen \in BOOLEAN : Start(seen) \/ Streams(seen)
  \/ \E type \in {"assistant/message", "assistant/attempt"} : Settles(type)
  \/ \E c \in 1..MaxCalls : Result(c)

Spec == Init /\ [][Next]_vars

-----------------------------------------------------------------------------
\* A seed is a log the host takes: its turns and steps open and close in turn, none
\* is open at its end, and no call was cut short by the seed itself.
SeedIsClosed ==
  LET seed == Seed(log)
      at(type, n) == {i \in DOMAIN seed : seed[i] = Event(type, n)}
      paired(first, last, max) ==
        \A n \in 1..max : at(first, n) # {} =>
          /\ Cardinality(at(first, n)) = 1 /\ Cardinality(at(last, n)) = 1
          /\ \A i \in at(first, n), j \in at(last, n) : i < j
      within(i, first, last) == \E m, n \in DOMAIN seed :
        m < i /\ i < n /\ seed[m].type = first /\ seed[n] = Event(last, seed[m].of) IN
  /\ paired("turn/start", "turn/end", MaxTurns) /\ paired("step/start", "step/end", MaxSteps)
  /\ \A i \in DOMAIN seed :
       /\ seed[i].type \in {"step/start", "step/end"} => within(i, "turn/start", "turn/end")
       /\ seed[i].type \in {"tool/call", "tool/result"} => within(i, "step/start", "step/end")
  /\ Called(seed) \cap running = {}

\* Whatever the parent's log tells is told the thread, once: by the seed, or by the
\* snapshot of the turn that was cut off, because of the calls that run.
ToldOnce ==
  LET seed == Seed(log)
      texts(events) == FlattenSeq([i \in DOMAIN events |->
        IF events[i].type \in {"assistant/message", "assistant/attempt"} THEN events[i].of ELSE <<>>])
      told == IF Snapshot = None THEN <<>> ELSE Snapshot.text
      live == IF Snapshot = None THEN <<>> ELSE LiveText(Turn) IN
  /\ texts(seed) \o told = texts(log) \o live
  /\ running = IF Snapshot = None THEN {} ELSE Snapshot.executing
  /\ Called(log) = Called(seed) \cup
       (IF Snapshot = None THEN {} ELSE Snapshot.done \cup Snapshot.executing)
  /\ Snapshot # None => Called(seed) \cap (Snapshot.done \cup Snapshot.executing) = {}

\* The thread begins in the directory its parent was in.
SameFolder == Folder(Inherited) = Folder(log)

\* The live text is of the attempt under way, and has no hole: an attempt of
\* which a chunk was missed gives none at all.
LiveIsWhole ==
  buffer # None /\ buffer.chunks # <<>> =>
    /\ stream # None /\ buffer.id = stream.id
    /\ \A i \in DOMAIN buffer.chunks :
         buffer.chunks[i] = <<stream.id, buffer.next - Len(buffer.chunks) + i - 1>>
    /\ Len(buffer.chunks) = IF buffer.next > Window THEN Window ELSE buffer.next
=============================================================================
