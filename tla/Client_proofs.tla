---------------------------- MODULE Client_proofs ----------------------------
(***************************************************************************)
(* Proofs about parts of the client: GitLens, and below, as instances,     *)
(* the settings' writers (SettingsWrites), a lazy chunk (ChunkLoader) and   *)
(* the store of the layouts (SessionStore).                                *)
(*                                                                         *)
(* Two things carry what is shown of GitLens: what is current is about the *)
(* place in view (Answers, Locks), because whatever moves the lens         *)
(* outdates all of it in the same step; and a waiting request is in the    *)
(* queue of a loop that will not be stopped (Queue).                       *)
(***************************************************************************)
EXTENDS GitLens, Sequences, FiniteSetTheorems, TLAPS

\* A pass that is current lists the repository in view, or names the branches of
\* the checkout in view.
Answers ==
  \A g \in Gates : loop[g].current =>
    /\ loop[g].phase = "list" => loop[g].at = <<scope, repo>>
    /\ loop[g].phase = "names" => loop[g].at = Here

\* What is at the host and current holds the lock and is about the checkout in
\* view; a loop holds the lock only of what is over.
Locks ==
  /\ \A i \in Actions :
       /\ running[i].current => lock = i /\ running[i].at = Here
       /\ running[i].kind = "none" => ~running[i].current /\ running[i].at = None
       /\ running[i].kind # "none" => running[i].at \in Places
  /\ \A g \in Gates : loop[g].lock # 0 => running[loop[g].lock].kind = "none"

\* A request that waits is queued behind a loop that goes on.
Queue == waiting => gates[gate].queued /\ ~gates[gate].silent /\ loop[gate].signal # "stopped"

\* Where no place is shown again while something runs there: what is not current
\* is about other places, and no two are about the same.
Left_Apart == \A i \in Actions :
  running[i].kind # "none" /\ ~running[i].current => running[i].at # Here
Apart == \A i, j \in Actions :
  i # j /\ running[i].kind # "none" /\ running[j].kind # "none" => running[i].at # running[j].at

Inv == TypeOK /\ AnswersFit /\ DialogFits /\ HitsItsRow /\ Answers /\ Locks /\ Queue
Alone == Left_Apart /\ Apart

LoopSet == [phase : {"none", "list", "names"}, silent : BOOLEAN, current : BOOLEAN,
            at : (Scopes \X Repos) \cup Places \cup {None},
            signal : {"none", "live", "stopped"}, lock : {0} \cup Actions]
Loops == [Gates -> LoopSet]
GateSet == [Gates -> [inFlight : BOOLEAN, queued : BOOLEAN, silent : BOOLEAN]]
Matched(gs, ls) == \A g \in Gates :
  /\ gs[g].queued => gs[g].inFlight
  /\ gs[g].inFlight <=> ls[g].phase # "none"

\* A request leaves every loop as it is, but for the one it begins, of the place
\* in view after the step; and none is lost.
LEMMA RefreshFacts ==
  ASSUME TypeOK, NEW g \in Gates, NEW ls \in Loops, Matched(gates, ls),
         NEW silent \in BOOLEAN, NEW signal \in {"none", "live"}, NEW for \in {0} \cup Actions,
         scope' \in Scopes, repo' \in Repos, Refresh(g, ls, silent, signal, for)
  PROVE /\ gates' \in GateSet /\ loop' \in Loops /\ Matched(gates', loop') /\ waiting' \in BOOLEAN
        /\ \A h \in Gates : \/ loop'[h] = ls[h]
                            \/ /\ loop'[h].phase = "list" /\ loop'[h].at = <<scope', repo'>>
                               /\ loop'[h].lock = for
        /\ (waiting => gates[g].queued /\ ~gates[g].silent /\ ls[g].signal # "stopped")
             => (waiting' => gates'[g].queued /\ ~gates'[g].silent /\ loop'[g].signal # "stopped")
<1>1. gates \in GateSet /\ waiting \in BOOLEAN
  BY DEF TypeOK, GateSet
<1>2. ~gates[g].inFlight => ~gates[g].queued
  BY DEF TypeOK
<1>3. CASE gates[g].inFlight
  <2>1. /\ gates' = [gates EXCEPT ![g] = Queued(@, silent)] /\ loop' = ls
        /\ waiting' = (waiting \/ (~silent /\ ls[g].signal # "stopped"))
    BY <1>3 DEF Refresh
  <2> DEFINE new == Queued(gates[g], silent)
  <2>2. /\ new \in [inFlight : BOOLEAN, queued : BOOLEAN, silent : BOOLEAN]
        /\ new.inFlight = gates[g].inFlight /\ new.queued = TRUE
        /\ new.silent <=> gates[g].silent /\ silent
    BY <1>1 DEF Queued, GateSet
  <2>3. gates' \in GateSet /\ gates'[g] = new /\ \A h \in Gates : h # g => gates'[h] = gates[h]
    <3> HIDE DEF new
    <3>1. gates' = [gates EXCEPT ![g] = new]
      BY <2>1 DEF new
    <3> QED BY <1>1, <2>2, <3>1 DEF GateSet
  <2> HIDE DEF new
  <2>4. Matched(gates', loop')
    BY <1>3, <2>1, <2>2, <2>3 DEF Matched
  <2>5. waiting' \in BOOLEAN
    BY <2>1
  <2>6. ASSUME waiting => gates[g].queued /\ ~gates[g].silent /\ ls[g].signal # "stopped", waiting'
        PROVE  gates'[g].queued /\ ~gates'[g].silent /\ loop'[g].signal # "stopped"
    BY <1>1, <2>1, <2>2, <2>3, <2>6
  <2> QED BY <2>1, <2>3, <2>4, <2>5, <2>6
<1>4. CASE ~gates[g].inFlight
  <2> DEFINE begun == Begun(silent, signal, for)
  <2>1. /\ gates' = [gates EXCEPT ![g] = [Open EXCEPT !.inFlight = TRUE]]
        /\ loop' = [ls EXCEPT ![g] = begun] /\ waiting' = (waiting /\ silent)
    BY <1>4 DEF Refresh
  <2>2. begun = [phase |-> "list", silent |-> silent, current |-> TRUE, at |-> <<scope', repo'>>,
                 signal |-> signal, lock |-> for]
    BY DEF Begun
  <2>3. loop' \in Loops /\ loop'[g] = begun /\ \A h \in Gates : h # g => loop'[h] = ls[h]
    BY <2>1, <2>2 DEF Loops, LoopSet
  <2>4. /\ gates' \in GateSet /\ gates'[g].inFlight /\ ~gates'[g].queued
        /\ \A h \in Gates : h # g => gates'[h] = gates[h]
    BY <1>1, <2>1 DEF Open, GateSet
  <2>5. Matched(gates', loop')
    BY <2>2, <2>3, <2>4 DEF Matched
  <2>6. waiting' \in BOOLEAN
    BY <2>1
  <2>7. ~(waiting /\ (waiting => gates[g].queued /\ ~gates[g].silent /\ ls[g].signal # "stopped"))
    BY <1>2, <1>4
  <2>8. waiting' => waiting
    BY <2>1
  <2>9. begun.phase = "list" /\ begun.at = <<scope', repo'>> /\ begun.lock = for
    BY <2>2
  <2> HIDE DEF begun
  <2>10. \A h \in Gates : loop'[h] = ls[h] \/ (loop'[h].phase = "list" /\ loop'[h].at = <<scope', repo'>>
                                             /\ loop'[h].lock = for)
    BY <2>3, <2>9
  <2> QED BY <2>3, <2>4, <2>5, <2>6, <2>7, <2>8, <2>10
<1> QED BY <1>3, <1>4

\* The end of a pass leaves the other loops as they are, and keeps what waits.
LEMMA PassEndsFacts ==
  ASSUME TypeOK, NEW g \in Gates, NEW ls \in Loops, Matched(gates, ls), ls[g].phase # "none",
         NEW held \in {0} \cup Actions, scope' \in Scopes, repo' \in Repos, PassEnds(g, ls, held)
  PROVE /\ gates' \in GateSet /\ loop' \in Loops /\ Matched(gates', loop') /\ waiting' \in BOOLEAN
        /\ lock' \in {0} \cup Actions
        /\ \A h \in Gates : \/ loop'[h] = ls[h]
                            \/ loop'[h] = NoLoop
                            \/ /\ loop'[h].phase = "list" /\ loop'[h].at = <<scope', repo'>>
                               /\ loop'[h].lock = ls[h].lock
        /\ lock' = held \/ (lock' = 0 /\ held = ls[g].lock)
        /\ (waiting => gates[gate].queued /\ ~gates[gate].silent /\ ls[gate].signal # "stopped")
             => (waiting' => gates'[gate].queued /\ ~gates'[gate].silent /\ loop'[gate].signal # "stopped")
<1> DEFINE again == gates[g].queued /\ ls[g].signal # "stopped"
<1>1. /\ gates' = [gates EXCEPT ![g] = [Open EXCEPT !.inFlight = again]]
      /\ waiting' = (waiting /\ ~(again /\ g = gate /\ ~gates[g].silent))
      /\ lock' = IF ~again /\ held = ls[g].lock THEN 0 ELSE held
  BY DEF PassEnds
<1>2. /\ gates' \in GateSet /\ gates'[g].inFlight = again /\ ~gates'[g].queued
      /\ \A h \in Gates : h # g => gates'[h] = gates[h]
  BY <1>1 DEF TypeOK, Open, GateSet
<1>3. /\ loop' \in Loops /\ \A h \in Gates : h # g => loop'[h] = ls[h]
      /\ again => /\ loop'[g].phase = "list" /\ loop'[g].at = <<scope', repo'>>
                  /\ loop'[g].lock = ls[g].lock /\ loop'[g].signal = ls[g].signal
      /\ ~again => loop'[g] = NoLoop
  <2>1. CASE again
    <3> DEFINE begun == Begun(gates[g].silent, ls[g].signal, ls[g].lock)
    <3>1. loop' = [ls EXCEPT ![g] = begun]
      BY <2>1 DEF PassEnds
    <3>2. begun = [phase |-> "list", silent |-> gates[g].silent, current |-> TRUE,
                   at |-> <<scope', repo'>>, signal |-> ls[g].signal, lock |-> ls[g].lock]
      BY DEF Begun
    <3> QED BY <2>1, <3>1, <3>2 DEF Loops, LoopSet, TypeOK
  <2>2. CASE ~again
    BY <2>2 DEF PassEnds, NoLoop, Loops, LoopSet
  <2> QED BY <2>1, <2>2
<1>4. NoLoop.phase = "none"
  BY DEF NoLoop
<1>5. Matched(gates', loop')
  BY <1>2, <1>3, <1>4 DEF Matched
<1>6. waiting' \in BOOLEAN
  BY <1>1
<1>8. lock' \in {0} \cup Actions /\ (lock' = held \/ (lock' = 0 /\ held = ls[g].lock))
  BY <1>1
<1>7. ASSUME waiting => gates[gate].queued /\ ~gates[gate].silent /\ ls[gate].signal # "stopped", waiting'
      PROVE  gates'[gate].queued /\ ~gates'[gate].silent /\ loop'[gate].signal # "stopped"
  <2>1. waiting /\ g # gate
    BY <1>1, <1>7
  <2>2. gate \in Gates
    BY DEF TypeOK
  <2> QED BY <1>2, <1>3, <1>7, <2>1, <2>2
<1>9. \A h \in Gates : loop'[h] = ls[h] \/ loop'[h] = NoLoop
        \/ (loop'[h].phase = "list" /\ loop'[h].at = <<scope', repo'>> /\ loop'[h].lock = ls[h].lock)
  BY <1>3
<1> QED BY <1>2, <1>3, <1>5, <1>6, <1>7, <1>8, <1>9

\* clearDerived leaves every loop as it is, but none is current.
LEMMA OutdatedFacts ==
  ASSUME TypeOK
  PROVE /\ Outdated(loop) \in Loops /\ Matched(gates, Outdated(loop))
        /\ \A g \in Gates : /\ ~Outdated(loop)[g].current
                            /\ Outdated(loop)[g].phase = loop[g].phase
                            /\ Outdated(loop)[g].lock = loop[g].lock
                            /\ Outdated(loop)[g].signal = loop[g].signal
<1>1. loop \in Loops /\ Matched(gates, loop)
  BY DEF TypeOK, Loops, LoopSet, Matched
<1>2. \A g \in Gates : Outdated(loop)[g] = [loop[g] EXCEPT !.current = FALSE]
  BY DEF Outdated
<1>3. Outdated(loop) \in Loops
  BY ZenonT(60), <1>1 DEF Outdated, Loops, LoopSet
<1> QED BY <1>1, <1>2, <1>3 DEF Loops, LoopSet, Matched

Slots == [Actions -> [kind : Kinds \cup {"none"}, current : BOOLEAN,
                      at : Places \cup {None}, row : Places \cup {None}]]

\* And so with the operations at the host.
LEMMA LeftFacts ==
  ASSUME TypeOK
  PROVE /\ Left \in Slots
        /\ \A i \in Actions : /\ ~Left[i].current /\ Left[i].kind = running[i].kind
                              /\ Left[i].at = running[i].at /\ Left[i].row = running[i].row
<1>1. running \in Slots
  BY DEF TypeOK, Slots
<1>2. \A i \in Actions : Left[i] = [running[i] EXCEPT !.current = FALSE]
  BY DEF Left
<1>3. Left \in Slots
  BY <1>1 DEF Left, Slots
<1> QED BY <1>1, <1>2, <1>3 DEF Slots

\* What every step has to keep; first of what is neither loop nor operation.
Scalars ==
  /\ scope' \in Scopes /\ repo' \in Repos /\ chosen' \in Paths \cup {None}
  /\ auto' \in BOOLEAN /\ active' \in BOOLEAN /\ moves' \in Nat
  /\ listing' \in (Scopes \X Repos) \cup {None}
  /\ names' \in Places \cup {None} /\ confirm' \in Places \cup {None}
  /\ lock' \in {0} \cup Actions /\ gate' \in Gates

\* The type invariant after a step, put together.
LEMMA Assembled ==
  ASSUME Scalars, waiting' \in BOOLEAN,
         running' \in Slots, gates' \in GateSet, loop' \in Loops, Matched(gates', loop')
  PROVE TypeOK'
BY DEF TypeOK, Scalars, Slots, GateSet, Loops, LoopSet, Matched

\* The lens starts with one loud pass in the first gate, of the place in view.
THEOREM InvInit == ConstantsAssumption /\ Init => Inv
<1> SUFFICES ASSUME ConstantsAssumption, Init PROVE Inv
  OBVIOUS
<1>1. scope \in Scopes
  BY DEF Init, ConstantsAssumption
<1>2. TypeOK
  BY <1>1 DEF Init, ConstantsAssumption, TypeOK, Open, NoLoop, Idle, Gates
<1>3. Answers /\ Locks /\ Queue
  BY <1>1 DEF Init, Answers, Locks, Queue, Open, NoLoop, Idle, Gates, Kinds
<1> QED BY <1>1, <1>2, <1>3 DEF Init, Inv, AnswersFit, DialogFits, HitsItsRow, Idle

\* The type invariant, taken apart.
LEMMA Types ==
  ASSUME TypeOK
  PROVE /\ running \in Slots /\ gates \in GateSet /\ loop \in Loops /\ Matched(gates, loop)
        /\ gate \in Gates /\ lock \in {0} \cup Actions /\ waiting \in BOOLEAN
        /\ Here \in Places
        /\ scope \in Scopes /\ repo \in Repos /\ chosen \in Paths \cup {None}
        /\ auto \in BOOLEAN /\ active \in BOOLEAN /\ moves \in Nat
        /\ listing \in (Scopes \X Repos) \cup {None}
        /\ names \in Places \cup {None} /\ confirm \in Places \cup {None}
BY DEF TypeOK, Slots, GateSet, Loops, LoopSet, Matched, Here, At, Places, Paths

\* After the step, the pass in gate g is of the place in view if it is current.
Answering(g) ==
  loop'[g].current => /\ loop'[g].phase = "list" => loop'[g].at = <<scope', repo'>>
                      /\ loop'[g].phase = "names" => loop'[g].at = Here'

\* A step that moves the lens outdates what is under way, and Inv survives.
LEMMA Moved ==
  ASSUME ConstantsAssumption, Inv, TypeOK', Queue', running' = Left, lock' = 0,
         names' = None, confirm' = None, listing' \in {None, <<scope', repo'>>},
         \A g \in Gates : Answering(g), \A g \in Gates : loop'[g].lock \in {0, loop[g].lock}
  PROVE Inv'
<1>1. /\ \A i \in Actions : /\ ~running'[i].current /\ running'[i].kind = running[i].kind
                            /\ running'[i].at = running[i].at /\ running'[i].row = running[i].row
  BY LeftFacts DEF Inv
<1>2. Locks'
  BY <1>1, Types DEF Inv, Locks, Loops, LoopSet
<1>3. Answers'
  BY DEF Answers, Answering
<1> QED BY <1>1, <1>2, <1>3 DEF Inv, AnswersFit, DialogFits, HitsItsRow

\* A step that leaves the lens where it is, and the operations too.
LEMMA Stayed ==
  ASSUME ConstantsAssumption, Inv, TypeOK', Queue', AnswersFit', DialogFits', running' = running,
         Here' = Here, scope' = scope, repo' = repo,
         lock' = lock \/ (lock' = 0 /\ \E g \in Gates : lock = loop[g].lock),
         \A g \in Gates : Answering(g),
         \A g \in Gates : loop'[g].lock \in {0, loop[g].lock}
  PROVE Inv'
<1>1. Locks'
  BY Types DEF Inv, Locks, Loops, LoopSet, ConstantsAssumption
<1>2. Answers'
  BY DEF Answers, Answering
<1> QED BY <1>1, <1>2 DEF Inv, HitsItsRow

\* Another checkout is chosen.
LEMMA ChooseInv == ASSUME ConstantsAssumption, Inv, NEW path \in Paths, Choose(path) PROVE Inv'
<1>1. /\ auto' = TRUE /\ chosen' = path /\ names' = None /\ running' = Left /\ lock' = 0 /\ confirm' = None
      /\ scope' = scope /\ repo' = repo /\ listing' = listing /\ gate' = gate /\ active' = active
      /\ moves' = moves + 1 /\ Refresh(gate, Outdated(loop), FALSE, "none", 0)
  BY DEF Choose, Moves, Reset
<1>2. TypeOK /\ scope' \in Scopes /\ repo' \in Repos
  BY <1>1 DEF Inv, TypeOK
<1>3. /\ gates' \in GateSet /\ loop' \in Loops /\ Matched(gates', loop') /\ waiting' \in BOOLEAN
      /\ \A h \in Gates : \/ loop'[h] = Outdated(loop)[h]
                          \/ loop'[h].phase = "list" /\ loop'[h].at = <<scope', repo'>> /\ loop'[h].lock = 0
      /\ (waiting => gates[gate].queued /\ ~gates[gate].silent /\ Outdated(loop)[gate].signal # "stopped")
           => (waiting' => gates'[gate].queued /\ ~gates'[gate].silent /\ loop'[gate].signal # "stopped")
  BY <1>1, <1>2, OutdatedFacts, Types, RefreshFacts
<1>4. TypeOK'
  <2>1. Scalars
    BY <1>1, <1>2 DEF TypeOK, Scalars, Paths
  <2> QED BY <1>1, <1>2, <1>3, <2>1, LeftFacts, Assembled
<1>5. Queue'
  BY <1>1, <1>2, <1>3, OutdatedFacts, Types DEF Inv, Queue
<1>6. \A h \in Gates : Answering(h) /\ loop'[h].lock \in {0, loop[h].lock}
  BY <1>2, <1>3, OutdatedFacts DEF Answering
<1>7. listing' \in {None, <<scope', repo'>>}
  BY <1>1 DEF Inv, AnswersFit
<1> QED BY <1>1, <1>4, <1>5, <1>6, <1>7, Moved

\* Another child repository is chosen.
LEMMA ChooseRepoInv == ASSUME ConstantsAssumption, Inv, NEW r \in Repos, ChooseRepo(r) PROVE Inv'
<1>1. /\ auto' = TRUE /\ chosen' = None /\ names' = None /\ running' = Left /\ lock' = 0 /\ confirm' = None
      /\ scope' = scope /\ repo' = r /\ listing' = None /\ gate' = gate /\ active' = active
      /\ moves' = moves + 1 /\ Refresh(gate, Outdated(loop), FALSE, "none", 0)
  BY DEF ChooseRepo, Moves, Reset
<1>2. TypeOK /\ scope' \in Scopes /\ repo' \in Repos
  BY <1>1 DEF Inv, TypeOK
<1>3. /\ gates' \in GateSet /\ loop' \in Loops /\ Matched(gates', loop') /\ waiting' \in BOOLEAN
      /\ \A h \in Gates : \/ loop'[h] = Outdated(loop)[h]
                          \/ loop'[h].phase = "list" /\ loop'[h].at = <<scope', repo'>> /\ loop'[h].lock = 0
      /\ (waiting => gates[gate].queued /\ ~gates[gate].silent /\ Outdated(loop)[gate].signal # "stopped")
           => (waiting' => gates'[gate].queued /\ ~gates'[gate].silent /\ loop'[gate].signal # "stopped")
  BY <1>1, <1>2, OutdatedFacts, Types, RefreshFacts
<1>4. TypeOK'
  <2>1. Scalars
    BY <1>1, <1>2 DEF TypeOK, Scalars, Paths
  <2> QED BY <1>1, <1>2, <1>3, <2>1, LeftFacts, Assembled
<1>5. Queue'
  BY <1>1, <1>2, <1>3, OutdatedFacts, Types DEF Inv, Queue
<1>6. \A h \in Gates : Answering(h) /\ loop'[h].lock \in {0, loop[h].lock}
  BY <1>2, <1>3, OutdatedFacts DEF Answering
<1> QED BY <1>1, <1>4, <1>5, <1>6, Moved

\* Another conversation or folder is shown.
LEMMA EnterInv ==
  ASSUME ConstantsAssumption, Inv, NEW s \in Scopes, NEW g \in Gates, Enter(s, g) PROVE Inv'
<1> DEFINE begun == Begun(FALSE, "none", 0)
<1>1. /\ auto' = FALSE /\ chosen' = None /\ names' = None /\ running' = Left /\ lock' = 0 /\ confirm' = None
      /\ scope' = s /\ repo' = None /\ listing' = None /\ gate' = g /\ active' = active
      /\ moves' = moves + 1 /\ ~gates[g].inFlight /\ waiting' = FALSE
      /\ gates' = [gates EXCEPT ![g].inFlight = TRUE]
      /\ loop' = [Outdated(loop) EXCEPT ![g] = begun]
  BY DEF Enter, Moves, Reset
<1>2. TypeOK /\ scope' \in Scopes /\ repo' \in Repos
  BY <1>1 DEF Inv, TypeOK, ConstantsAssumption
<1>3. /\ begun \in LoopSet /\ begun.phase = "list" /\ begun.at = <<scope', repo'>> /\ begun.lock = 0
  BY <1>2 DEF Begun, LoopSet
<1> HIDE DEF begun
<1>8. Outdated(loop) \in Loops /\ gates \in GateSet
  BY <1>2, OutdatedFacts, Types
<1>4. /\ loop' \in Loops /\ loop'[g] = begun
      /\ \A h \in Gates : h # g => loop'[h] = Outdated(loop)[h]
  BY <1>1, <1>3, <1>8 DEF Loops
<1>5. gates' \in GateSet /\ Matched(gates', loop')
  <2>1. gates' \in GateSet /\ gates'[g].inFlight /\ \A h \in Gates : h # g => gates'[h] = gates[h]
    BY <1>1, <1>8 DEF GateSet
  <2> QED BY <1>2, <1>3, <1>4, <2>1, OutdatedFacts DEF Matched
<1>6. TypeOK'
  <2>2. moves' \in Nat /\ active' \in BOOLEAN
    BY <1>1, <1>2 DEF TypeOK
  <2>1. Scalars
    BY <1>1, <1>2, <2>2 DEF Scalars
  <2> QED BY <1>1, <1>2, <1>4, <1>5, <2>1, LeftFacts, Assembled
<1>7. Queue'
  BY <1>1 DEF Queue
<1>9. \A h \in Gates : Answering(h) /\ loop'[h].lock \in {0, loop[h].lock}
  BY <1>2, <1>3, <1>4, OutdatedFacts DEF Answering
<1> QED BY <1>1, <1>6, <1>7, <1>9, Moved

\* The passes: what was asked for is over, or the branches are asked for next.
LEMMA UnlistedInv == ASSUME ConstantsAssumption, Inv, NEW g \in Gates, Unlisted(g) PROVE Inv'
<1>1. /\ loop[g].phase = "list" /\ running' = running /\ gate' = gate /\ active' = active /\ moves' = moves
      /\ scope' = scope /\ repo' = repo /\ chosen' = chosen /\ auto' = auto /\ listing' = listing
      /\ names' = names /\ confirm' = confirm /\ PassEnds(g, loop, lock)
  BY DEF Unlisted, shown, place
<1>2. TypeOK /\ scope' \in Scopes /\ repo' \in Repos
  BY <1>1 DEF Inv, TypeOK
<1>3. /\ gates' \in GateSet /\ loop' \in Loops /\ Matched(gates', loop') /\ waiting' \in BOOLEAN
      /\ lock' \in {0} \cup Actions
      /\ \A h \in Gates : \/ loop'[h] = loop[h]
                          \/ loop'[h] = NoLoop
                          \/ /\ loop'[h].phase = "list" /\ loop'[h].at = <<scope', repo'>>
                             /\ loop'[h].lock = loop[h].lock
      /\ lock' = lock \/ (lock' = 0 /\ lock = loop[g].lock)
      /\ (waiting => gates[gate].queued /\ ~gates[gate].silent /\ loop[gate].signal # "stopped")
           => (waiting' => gates'[gate].queued /\ ~gates'[gate].silent /\ loop'[gate].signal # "stopped")
  BY <1>1, <1>2, Types, PassEndsFacts
<1>4. TypeOK'
  <2>1. Scalars
    BY <1>1, <1>2, <1>3 DEF TypeOK, Scalars
  <2> QED BY <1>1, <1>2, <1>3, <2>1, Types, Assembled
<1>5. Queue'
  BY <1>1, <1>3 DEF Inv, Queue
<1>6. AnswersFit' /\ DialogFits' /\ Here' = Here
  BY <1>1 DEF Inv, AnswersFit, DialogFits, Here, At
<1>7. \A h \in Gates : Answering(h) /\ loop'[h].lock \in {0, loop[h].lock}
  <2> SUFFICES ASSUME NEW h \in Gates PROVE Answering(h) /\ loop'[h].lock \in {0, loop[h].lock}
    OBVIOUS
  <2>1. CASE loop'[h] = loop[h]
    BY <1>1, <1>6, <2>1 DEF Inv, Answers, Answering
  <2>2. CASE loop'[h] = NoLoop
    BY <2>2 DEF Answering, NoLoop
  <2> QED BY <1>3, <2>1, <2>2 DEF Answering
<1> QED BY <1>1, <1>3, <1>4, <1>5, <1>6, <1>7, Stayed

\* The branches arrive.
LEMMA NamedInv == ASSUME ConstantsAssumption, Inv, NEW g \in Gates, Named(g) PROVE Inv'
<1>1. /\ loop[g].phase = "names" /\ running' = running /\ gate' = gate /\ active' = active /\ moves' = moves
      /\ scope' = scope /\ repo' = repo /\ chosen' = chosen /\ auto' = auto /\ listing' = listing
      /\ names' = (IF loop[g].current THEN loop[g].at ELSE names) /\ confirm' = confirm
      /\ PassEnds(g, loop, lock)
  BY DEF Named, place
<1>2. TypeOK /\ scope' \in Scopes /\ repo' \in Repos /\ names' \in {names, Here}
  BY <1>1 DEF Inv, TypeOK, Answers
<1>3. /\ gates' \in GateSet /\ loop' \in Loops /\ Matched(gates', loop') /\ waiting' \in BOOLEAN
      /\ lock' \in {0} \cup Actions
      /\ \A h \in Gates : \/ loop'[h] = loop[h]
                          \/ loop'[h] = NoLoop
                          \/ /\ loop'[h].phase = "list" /\ loop'[h].at = <<scope', repo'>>
                             /\ loop'[h].lock = loop[h].lock
      /\ lock' = lock \/ (lock' = 0 /\ lock = loop[g].lock)
      /\ (waiting => gates[gate].queued /\ ~gates[gate].silent /\ loop[gate].signal # "stopped")
           => (waiting' => gates'[gate].queued /\ ~gates'[gate].silent /\ loop'[gate].signal # "stopped")
  BY <1>1, <1>2, Types, PassEndsFacts
<1>4. TypeOK'
  <2>1. Scalars
    BY <1>1, <1>2, <1>3, Types DEF TypeOK, Scalars
  <2> QED BY <1>1, <1>2, <1>3, <2>1, Types, Assembled
<1>5. Queue'
  BY <1>1, <1>3 DEF Inv, Queue
<1>6. AnswersFit' /\ DialogFits' /\ Here' = Here
  BY <1>1, <1>2 DEF Inv, AnswersFit, DialogFits, Here, At
<1>7. \A h \in Gates : Answering(h) /\ loop'[h].lock \in {0, loop[h].lock}
  <2> SUFFICES ASSUME NEW h \in Gates PROVE Answering(h) /\ loop'[h].lock \in {0, loop[h].lock}
    OBVIOUS
  <2>1. CASE loop'[h] = loop[h]
    BY <1>1, <1>6, <2>1 DEF Inv, Answers, Answering
  <2>2. CASE loop'[h] = NoLoop
    BY <2>2 DEF Answering, NoLoop
  <2> QED BY <1>3, <2>1, <2>2 DEF Answering
<1> QED BY <1>1, <1>3, <1>4, <1>5, <1>6, <1>7, Stayed

\* The requests.
LEMMA AskedInv ==
  ASSUME ConstantsAssumption, Inv, NEW silent \in BOOLEAN, NEW signal \in {"none", "live"},
         UNCHANGED <<shown, lock, running, gate, active>>, moves' \in Nat,
         Refresh(gate, loop, silent, signal, 0)
  PROVE Inv'
<1>1. /\ running' = running /\ gate' = gate /\ active' = active /\ lock' = lock
      /\ scope' = scope /\ repo' = repo /\ chosen' = chosen /\ auto' = auto /\ listing' = listing
      /\ names' = names /\ confirm' = confirm
  BY DEF shown, place
<1>2. TypeOK /\ scope' \in Scopes /\ repo' \in Repos
  BY <1>1 DEF Inv, TypeOK
<1>3. /\ gates' \in GateSet /\ loop' \in Loops /\ Matched(gates', loop') /\ waiting' \in BOOLEAN
      /\ \A h \in Gates : \/ loop'[h] = loop[h]
                          \/ loop'[h].phase = "list" /\ loop'[h].at = <<scope', repo'>> /\ loop'[h].lock = 0
      /\ (waiting => gates[gate].queued /\ ~gates[gate].silent /\ loop[gate].signal # "stopped")
           => (waiting' => gates'[gate].queued /\ ~gates'[gate].silent /\ loop'[gate].signal # "stopped")
  BY <1>1, <1>2, Types, RefreshFacts
<1>4. TypeOK'
  <2>1. Scalars
    BY <1>1, <1>2, <1>3 DEF TypeOK, Scalars
  <2> QED BY <1>1, <1>2, <1>3, <2>1, Types, Assembled
<1>5. Queue'
  BY <1>1, <1>3 DEF Inv, Queue
<1>6. AnswersFit' /\ DialogFits' /\ Here' = Here
  BY <1>1 DEF Inv, AnswersFit, DialogFits, Here, At
<1>7. \A h \in Gates : Answering(h) /\ loop'[h].lock \in {0, loop[h].lock}
  <2> SUFFICES ASSUME NEW h \in Gates PROVE Answering(h) /\ loop'[h].lock \in {0, loop[h].lock}
    OBVIOUS
  <2>1. CASE loop'[h] = loop[h]
    BY <1>1, <1>6, <2>1 DEF Inv, Answers, Answering
  <2> QED BY <1>3, <2>1 DEF Answering
<1> QED BY <1>1, <1>3, <1>4, <1>5, <1>6, <1>7, Stayed

\* The lens is hidden, shown, asks, or is told not to.
LEMMA HideInv == ASSUME ConstantsAssumption, Inv, Hide PROVE Inv'
<1> DEFINE stopped(l) == IF l.signal = "live" THEN [l EXCEPT !.signal = "stopped"] ELSE l
<1>1. /\ running' = running /\ gate' = gate /\ active' = FALSE /\ lock' = lock /\ moves' = moves + 1
      /\ scope' = scope /\ repo' = repo /\ chosen' = chosen /\ auto' = auto /\ listing' = listing
      /\ names' = names /\ confirm' = confirm /\ gates' = gates
  BY DEF Hide, Moves, shown, place
<1>8. loop' = [g \in Gates |-> stopped(loop[g])] /\ waiting' = (waiting /\ loop[gate].signal # "live")
  BY DEF Hide
<1>2. TypeOK
  BY DEF Inv
<1>3. \A g \in Gates :
        /\ loop'[g] \in LoopSet /\ loop'[g].phase = loop[g].phase /\ loop'[g].current = loop[g].current
        /\ loop'[g].at = loop[g].at /\ loop'[g].lock = loop[g].lock
        /\ loop[g].signal # "live" => loop'[g].signal = loop[g].signal
  BY <1>8, <1>2, Types DEF Loops, LoopSet
<1>4. TypeOK'
  <2>0. active' \in BOOLEAN
    BY <1>1
  <2>1. moves' \in Nat
    BY <1>1, <1>2, Types
  <2>2. Scalars
    BY <1>1, <1>2, <2>0, <2>1, Types DEF Scalars
  <2>3. waiting' \in BOOLEAN
    BY <1>8
  <2>4. loop' \in Loops
    BY <1>8, <1>3 DEF Loops
  <2>5. Matched(gates', loop')
    BY <1>1, <1>2, <1>3, Types DEF Matched
  <2> QED BY <1>1, <1>2, <2>2, <2>3, <2>4, <2>5, Types, Assembled
<1>5. Queue'
  BY <1>1, <1>8, <1>2, <1>3, Types DEF Inv, Queue
<1>6. AnswersFit' /\ DialogFits' /\ Here' = Here
  BY <1>1 DEF Inv, AnswersFit, DialogFits, Here, At
<1>7. \A h \in Gates : Answering(h) /\ loop'[h].lock \in {0, loop[h].lock}
  BY <1>1, <1>3, <1>6 DEF Inv, Answers, Answering
<1> QED BY <1>1, <1>4, <1>5, <1>6, <1>7, Stayed

\* The lens is looked at again; a dialog is opened, or closed.
LEMMA LookInv == ASSUME ConstantsAssumption, Inv, Look \/ AskFirst \/ Dismiss PROVE Inv'
<1>1. /\ running' = running /\ gate' = gate /\ lock' = lock /\ gates' = gates /\ loop' = loop
      /\ scope' = scope /\ repo' = repo /\ chosen' = chosen /\ auto' = auto /\ listing' = listing
      /\ names' = names /\ waiting' = waiting
  BY DEF Look, AskFirst, Dismiss, shown, place
<1>2. TypeOK
  BY DEF Inv
<1>3. /\ active' = active \/ active' = TRUE
      /\ moves' \in {moves, moves + 1}
      /\ confirm' \in {confirm, Here, None}
  BY DEF Look, AskFirst, Dismiss, Moves, shown
<1>4. TypeOK'
  <2>0. active' \in BOOLEAN
    BY <1>2, <1>3, Types
  <2>1. moves' \in Nat
    BY <1>2, <1>3, Types
  <2>2. Scalars
    BY <1>1, <1>2, <1>3, <2>0, <2>1, Types DEF Scalars
  <2> QED BY <1>1, <1>2, <2>2, Types, Assembled
<1>5. Queue'
  BY <1>1 DEF Inv, Queue
<1>6. AnswersFit' /\ DialogFits' /\ Here' = Here
  BY <1>1, <1>3 DEF Inv, AnswersFit, DialogFits, Here, At
<1>7. \A h \in Gates : Answering(h) /\ loop'[h].lock \in {0, loop[h].lock}
  BY <1>1, <1>6 DEF Inv, Answers, Answering
<1> QED BY <1>1, <1>4, <1>5, <1>6, <1>7, Stayed

\* What begins at the host is about the checkout in view: nothing else current is.
LEMMA StartInv ==
  ASSUME ConstantsAssumption, Inv, NEW i \in Actions, NEW kind \in Kinds, Start(i, kind, Here, Here),
         UNCHANGED <<place, listing, names, gates, gate, loop, active, waiting>>,
         moves' \in Nat, confirm' \in {confirm, None}
  PROVE Inv'
<1>1. /\ gate' = gate /\ gates' = gates /\ loop' = loop /\ active' = active
      /\ scope' = scope /\ repo' = repo /\ chosen' = chosen /\ auto' = auto /\ listing' = listing
      /\ names' = names /\ waiting' = waiting
  BY DEF place
<1>2. TypeOK /\ running \in Slots /\ Here \in Places
  BY Types DEF Inv
<1>3. /\ running[i].kind = "none" /\ lock = 0 /\ lock' = i /\ \A g \in Gates : loop[g].lock # i
      /\ running' = [running EXCEPT ![i] = [kind |-> kind, current |-> TRUE, at |-> Here, row |-> Here]]
  BY DEF Start, Unused
<1>4. /\ running' \in Slots
      /\ running'[i].kind = kind /\ running'[i].at = Here /\ running'[i].row = Here
      /\ \A j \in Actions : j # i => running'[j] = running[j]
  BY <1>2, <1>3 DEF Slots
<1>5. TypeOK'
  <2>1. Scalars
    BY <1>1, <1>2, <1>3 DEF TypeOK, Scalars
  <2> QED BY <1>1, <1>2, <1>4, <2>1, Types, Assembled
<1>6. AnswersFit' /\ DialogFits' /\ Here' = Here /\ Queue'
  BY <1>1 DEF Inv, AnswersFit, DialogFits, Here, At, Queue
<1>7. Answers'
  BY <1>1, <1>6 DEF Inv, Answers
<1>8. HitsItsRow'
  BY <1>4 DEF Inv, HitsItsRow
<1>9. Locks'
  <2>1. \A j \in Actions : j # i => ~running[j].current
    BY <1>3 DEF Inv, Locks, ConstantsAssumption
  <2>2. kind # "none"
    BY DEF Kinds
  <2>3. \A g \in Gates : loop'[g].lock # 0 => running'[loop'[g].lock].kind = "none"
    BY <1>1, <1>2, <1>3, <1>4, Types DEF Inv, Locks, Loops, LoopSet
  <2>4. ASSUME NEW j \in Actions
        PROVE  /\ running'[j].current => lock' = j /\ running'[j].at = Here'
               /\ running'[j].kind = "none" => ~running'[j].current /\ running'[j].at = None
               /\ running'[j].kind # "none" => running'[j].at \in Places
    BY <1>2, <1>3, <1>4, <1>6, <2>1, <2>2 DEF Inv, Locks
  <2> QED BY <2>3, <2>4 DEF Locks
<1> QED BY <1>5, <1>6, <1>7, <1>8, <1>9 DEF Inv

\* A mutation, a checkout or a suggestion begins.
LEMMA ActInv ==
  ASSUME ConstantsAssumption, Inv, NEW i \in Actions, NEW kind \in Kinds, Act(i, kind) PROVE Inv'
<1>1. /\ Start(i, kind, Here, Here) /\ confirm' = confirm /\ moves' = moves + 1
      /\ UNCHANGED <<place, listing, names, gates, gate, loop, active, waiting>>
  BY DEF Act, Moves, shown
<1>2. moves' \in Nat
  BY <1>1, Types DEF Inv
<1> QED BY <1>1, <1>2, StartInv

\* A dialog is answered: its row is in the checkout in view.
LEMMA ConfirmInv == ASSUME ConstantsAssumption, Inv, NEW i \in Actions, Confirm(i) PROVE Inv'
<1>1. /\ confirm' = None /\ UNCHANGED <<place, listing, names, gates, gate, loop, active, moves, waiting>>
  BY DEF Confirm
<1>2. moves' \in Nat
  BY <1>1, Types DEF Inv
<1>3. CASE lock = 0
  <2>1. confirm = Here /\ <<scope, repo, confirm[3]>> = Here
    BY DEF Confirm, Inv, DialogFits, Here, At
  <2>2. Start(i, "mutation", Here, Here) /\ "mutation" \in Kinds
    BY <1>3, <2>1 DEF Confirm, Kinds
  <2> QED BY <1>1, <1>2, <2>2, StartInv
<1>4. CASE lock # 0
  <2>1. UNCHANGED <<lock, running>> /\ confirm # None
    BY <1>4 DEF Confirm
  <2>2. Dismiss
    BY <1>1, <2>1 DEF Dismiss
  <2> QED BY <2>2, LookInv
<1> QED BY <1>3, <1>4

\* What ends gives up the lock if it has it, or leaves it to its refresh.
LEMMA SettleInv ==
  ASSUME ConstantsAssumption, Inv, NEW i \in Actions, NEW ok \in BOOLEAN, Settle(i, ok) PROVE Inv'
<1>1. /\ running' = [running EXCEPT ![i] = Idle]
      /\ lock' \in {lock, Released(i)}
      /\ gate' = gate /\ active' = active /\ moves' = moves
      /\ scope' = scope /\ repo' = repo /\ chosen' = chosen /\ auto' = auto /\ listing' = listing
      /\ names' = names /\ confirm' = confirm
  BY DEF Settle, shown, place
<1>2. TypeOK /\ running \in Slots /\ scope' \in Scopes /\ repo' \in Repos
  BY <1>1, Types DEF Inv
<1>3. /\ gates' \in GateSet /\ loop' \in Loops /\ Matched(gates', loop') /\ waiting' \in BOOLEAN
      /\ \A h \in Gates : \/ loop'[h] = loop[h]
                          \/ loop'[h].phase = "list" /\ loop'[h].at = <<scope', repo'>> /\ loop'[h].lock = i
      /\ (waiting => gates[gate].queued /\ ~gates[gate].silent /\ loop[gate].signal # "stopped")
           => (waiting' => gates'[gate].queued /\ ~gates'[gate].silent /\ loop'[gate].signal # "stopped")
  <2>1. CASE Refresh(gate, loop, FALSE, "none", i)
    BY <1>1, <1>2, <2>1, Types, RefreshFacts
  <2>2. CASE UNCHANGED <<gates, loop, waiting>>
    BY <1>2, <2>2, Types
  <2> QED BY <2>1, <2>2 DEF Settle
<1>4. /\ running' \in Slots /\ running'[i].kind = "none" /\ ~running'[i].current
      /\ running'[i].at = None /\ running'[i].row = None
      /\ \A j \in Actions : j # i => running'[j] = running[j]
  BY <1>1, <1>2 DEF Slots, Idle
<1>5. TypeOK'
  <2>1. lock' \in {0} \cup Actions
    BY <1>1, <1>2, Types DEF Released
  <2>2. Scalars
    BY <1>1, <1>2, <2>1, Types DEF Scalars
  <2> QED BY <1>3, <1>4, <2>2, Assembled
<1>6. AnswersFit' /\ DialogFits' /\ Here' = Here
  BY <1>1 DEF Inv, AnswersFit, DialogFits, Here, At
<1>7. Queue'
  BY <1>1, <1>3 DEF Inv, Queue
<1>8. HitsItsRow'
  BY <1>4 DEF Inv, HitsItsRow
<1>9. Answers'
  <2> SUFFICES ASSUME NEW h \in Gates PROVE Answering(h)
    BY DEF Answers, Answering
  <2>1. CASE loop'[h] = loop[h]
    BY <1>1, <1>6, <2>1 DEF Inv, Answers, Answering
  <2> QED BY <1>3, <2>1 DEF Answering
<1>10. Locks'
  <2>1. ASSUME NEW g \in Gates, loop'[g].lock # 0 PROVE running'[loop'[g].lock].kind = "none"
    <3>1. CASE loop'[g] = loop[g]
      <4>1. loop[g].lock \in Actions /\ running[loop[g].lock].kind = "none"
        BY <1>2, <2>1, <3>1, Types DEF Inv, Locks, Loops, LoopSet
      <4> QED BY <1>4, <3>1, <4>1
    <3> QED BY <1>3, <1>4, <2>1, <3>1
  <2>2. ASSUME NEW j \in Actions
        PROVE  /\ running'[j].current => lock' = j /\ running'[j].at = Here'
               /\ running'[j].kind = "none" => ~running'[j].current /\ running'[j].at = None
               /\ running'[j].kind # "none" => running'[j].at \in Places
    <3>1. CASE j = i
      BY <1>4, <3>1
    <3>2. CASE j # i
      BY <1>1, <1>4, <1>6, <3>2 DEF Inv, Locks, Released
    <3> QED BY <3>1, <3>2
  <2> QED BY <2>1, <2>2 DEF Locks
<1> QED BY <1>5, <1>6, <1>7, <1>8, <1>9, <1>10 DEF Inv

\* A listing takes the lens to a checkout it may show.
LEMMA TargetFacts ==
  ASSUME ConstantsAssumption, TypeOK, NEW listed \in SUBSET Paths, NEW dirty \in SUBSET Paths
  PROVE /\ Target(listed, dirty) \in Paths \cup {None} /\ At(Target(listed, dirty)) \in Places
        /\ chosen = None => Stays({Main} \cap listed) \in {Main, None}
<1>1. Cardinality(dirty) = 1 => dirty # {}
  BY FS_EmptySet
<1>2. Preferred(listed, dirty) \in Paths \cup {None} /\ Stays(listed) \in Paths \cup {None}
  BY <1>1, Types DEF Preferred, Stays, Paths
<1>3. Target(listed, dirty) \in Paths \cup {None}
  BY <1>2 DEF Target
<1>4. At(Target(listed, dirty)) \in Places
  BY <1>3, Types DEF At, Places, Paths
<1>5. chosen = None => Stays({Main} \cap listed) \in {Main, None}
  BY DEF Stays, ConstantsAssumption, Paths
<1> QED BY <1>3, <1>4, <1>5

\* A listing that moves the lens.
LEMMA ListedMovesInv ==
  ASSUME ConstantsAssumption, Inv, NEW g \in Gates, NEW target \in Paths \cup {None},
         loop[g].phase = "list", Wanted(g), auto' \in BOOLEAN,
         chosen' = target, listing' = loop[g].at, names' = None, confirm' = None, running' = Left,
         UNCHANGED <<scope, repo, gate, active, moves, gates, waiting>>, lock' = 0,
         loop' = [Outdated(loop) EXCEPT ![g].phase = "names", ![g].current = TRUE, ![g].at = At(target)]
  PROVE Inv'
<1>1. TypeOK /\ At(target) \in Places /\ At(target) = Here'
  BY Types DEF Inv, At, Here, Places, Paths
<1>2. loop[g].at = <<scope, repo>>
  BY DEF Wanted, Inv, Answers
<1>3. /\ \A h \in Gates : /\ h # g => loop'[h] = Outdated(loop)[h]
                          /\ loop'[h].lock = loop[h].lock /\ loop'[h].signal = loop[h].signal
      /\ loop'[g].phase = "names" /\ loop'[g].at = At(target) /\ loop' \in Loops
  BY <1>1, OutdatedFacts DEF Loops, LoopSet
<1>4. TypeOK'
  <2>1. Scalars
    BY <1>1, <1>2, Types DEF Scalars
  <2>2. Matched(gates', loop')
    BY ZenonT(60), <1>1, <1>3, OutdatedFacts, Types DEF Matched
  <2> QED BY <1>1, <1>3, <2>1, <2>2, Types, LeftFacts, Assembled
<1>5. Queue'
  BY <1>1, <1>3, Types DEF Inv, Queue
<1>6. \A h \in Gates : Answering(h) /\ loop'[h].lock \in {0, loop[h].lock}
  BY <1>1, <1>3, OutdatedFacts DEF Answering
<1> QED BY <1>2, <1>4, <1>5, <1>6, Moved

\* A pass that goes on to the branches leaves the other loops as they are.
LEMMA Onward ==
  ASSUME NEW ls \in Loops, NEW g \in Gates, NEW at \in Places,
         loop' = [ls EXCEPT ![g].phase = "names", ![g].current = TRUE, ![g].at = at]
  PROVE /\ \A h \in Gates : /\ h # g => loop'[h] = ls[h]
                            /\ loop'[h].lock = ls[h].lock /\ loop'[h].signal = ls[h].signal
        /\ loop'[g].phase = "names" /\ loop'[g].at = at /\ loop' \in Loops
<1> DEFINE l == [ls[g] EXCEPT !.phase = "names", !.current = TRUE, !.at = at]
<1>3. l.phase = "names" /\ l.at = at /\ l.lock = ls[g].lock /\ l.signal = ls[g].signal
  BY DEF Loops, LoopSet
<1>4. loop' = [ls EXCEPT ![g] = l]
  OBVIOUS
<1>1. /\ \A h \in Gates : h # g => loop'[h] = ls[h]
      /\ loop'[g] = l
  <2> HIDE DEF l
  <2> QED BY <1>4 DEF Loops
<1>5. l \in LoopSet
  <2>1. ls[g] \in LoopSet
    BY DEF Loops
  <2> QED BY <2>1 DEF LoopSet
<1> HIDE DEF l
<1>2. loop' \in Loops
  BY <1>4, <1>5 DEF Loops
<1> QED BY <1>1, <1>2, <1>3

\* A listing that leaves it, and goes on to the branches.
LEMMA ListedStaysInv ==
  ASSUME ConstantsAssumption, Inv, NEW g \in Gates, NEW target \in Paths \cup {None},
         loop[g].phase = "list", Wanted(g), auto' \in BOOLEAN, At(target) = Here,
         chosen' = target, listing' = loop[g].at, UNCHANGED <<names, confirm, running>>,
         UNCHANGED <<scope, repo, gate, active, moves, gates, waiting>>, lock' = lock,
         loop' = [loop EXCEPT ![g].phase = "names", ![g].current = TRUE, ![g].at = At(target)]
  PROVE Inv'
<1>1. TypeOK /\ At(target) \in Places /\ Here' = Here
  BY Types DEF Inv, At, Here, Places, Paths
<1>2. loop[g].at = <<scope, repo>>
  BY DEF Wanted, Inv, Answers
<1>3. /\ \A h \in Gates : /\ h # g => loop'[h] = loop[h]
                          /\ loop'[h].lock = loop[h].lock /\ loop'[h].signal = loop[h].signal
      /\ loop'[g].phase = "names" /\ loop'[g].at = At(target) /\ loop' \in Loops
  BY <1>1, Types, Onward
<1>4. TypeOK'
  <2>1. Scalars
    BY <1>1, <1>2, Types DEF Scalars
  <2>2. Matched(gates', loop')
    BY ZenonT(60), <1>1, <1>3, Types DEF Matched
  <2> QED BY <1>1, <1>3, <2>1, <2>2, Types, Assembled
<1>5. Queue'
  BY <1>1, <1>3, Types DEF Inv, Queue
<1>6. AnswersFit' /\ DialogFits'
  BY <1>1, <1>2 DEF Inv, AnswersFit, DialogFits
<1>7. \A h \in Gates : Answering(h) /\ loop'[h].lock \in {0, loop[h].lock}
  BY ZenonT(60), <1>1, <1>3 DEF Inv, Answers, Answering
<1> QED BY <1>1, <1>4, <1>5, <1>6, <1>7, Stayed

\* A listing arrives.
LEMMA ListedInv ==
  ASSUME ConstantsAssumption, Inv, NEW g \in Gates, NEW listed \in SUBSET Paths,
         NEW dirty \in SUBSET Paths, Listed(g, listed, dirty)
  PROVE Inv'
<1> DEFINE target == Target(listed, dirty)
           moved == target # chosen /\ (chosen # None \/ target # Stays({Main} \cap listed))
           ends == loop[g].silent /\ target = chosen
<1>1. /\ loop[g].phase = "list" /\ Wanted(g) /\ chosen' = target /\ listing' = loop[g].at
      /\ auto' = (auto \/ Preferred(listed, dirty) # None)
      /\ UNCHANGED <<scope, repo, gate, active, moves>>
      /\ moved => names' = None /\ confirm' = None /\ running' = Left
      /\ ~moved => UNCHANGED <<names, confirm, running>>
  BY DEF Listed
<1>2. auto' \in BOOLEAN
  BY <1>1
<1>3. target \in Paths \cup {None} /\ (chosen = None => Stays({Main} \cap listed) \in {Main, None})
  BY TargetFacts DEF Inv
<1>4. CASE moved
  <2>1. /\ lock' = 0 /\ UNCHANGED <<gates, waiting>>
        /\ loop' = [Outdated(loop) EXCEPT ![g].phase = "names", ![g].current = TRUE, ![g].at = At(target)]
    BY <1>4 DEF Listed
  <2> HIDE DEF target
  <2> QED BY <1>1, <1>2, <1>3, <1>4, <2>1, ListedMovesInv
<1>5. CASE ~moved /\ ~ends
  <2>1. /\ lock' = lock /\ UNCHANGED <<gates, waiting>>
        /\ loop' = [loop EXCEPT ![g].phase = "names", ![g].current = TRUE, ![g].at = At(target)]
    BY <1>5 DEF Listed
  <2> HIDE DEF target
  <2>2. At(target) = Here
    BY <1>3, <1>5 DEF At, Here
  <2> QED BY <1>1, <1>2, <1>3, <1>5, <2>1, <2>2, ListedStaysInv
<1>6. CASE ends
  <2>1. PassEnds(g, loop, lock) /\ chosen' = chosen /\ UNCHANGED <<names, confirm, running>>
    BY <1>6 DEF Listed
  <2> HIDE DEF target, ends
  <2>2. TypeOK /\ scope' \in Scopes /\ repo' \in Repos /\ listing' = <<scope, repo>>
    BY <1>1, Types DEF Inv, Wanted, Answers
  <2>3. /\ gates' \in GateSet /\ loop' \in Loops /\ Matched(gates', loop') /\ waiting' \in BOOLEAN
        /\ lock' \in {0} \cup Actions
        /\ \A h \in Gates : \/ loop'[h] = loop[h]
                            \/ loop'[h] = NoLoop
                            \/ /\ loop'[h].phase = "list" /\ loop'[h].at = <<scope', repo'>>
                               /\ loop'[h].lock = loop[h].lock
        /\ lock' = lock \/ (lock' = 0 /\ lock = loop[g].lock)
        /\ (waiting => gates[gate].queued /\ ~gates[gate].silent /\ loop[gate].signal # "stopped")
             => (waiting' => gates'[gate].queued /\ ~gates'[gate].silent /\ loop'[gate].signal # "stopped")
    BY <1>1, <2>1, <2>2, Types, PassEndsFacts
  <2>4. TypeOK'
    <3>1. Scalars
      BY <1>1, <1>2, <2>1, <2>2, <2>3, Types DEF Scalars
    <3> QED BY <2>1, <2>2, <2>3, <3>1, Types, Assembled
  <2>5. Queue'
    BY <1>1, <2>3 DEF Inv, Queue
  <2>6. AnswersFit' /\ DialogFits' /\ Here' = Here
    BY <1>1, <2>1, <2>2 DEF Inv, AnswersFit, DialogFits, Here, At
  <2>7. \A h \in Gates : Answering(h) /\ loop'[h].lock \in {0, loop[h].lock}
    <3> SUFFICES ASSUME NEW h \in Gates PROVE Answering(h) /\ loop'[h].lock \in {0, loop[h].lock}
      OBVIOUS
    <3>1. CASE loop'[h] = loop[h]
      BY <1>1, <2>6, <3>1 DEF Inv, Answers, Answering
    <3>2. CASE loop'[h] = NoLoop
      BY <3>2 DEF Answering, NoLoop
    <3> QED BY <2>3, <3>1, <3>2 DEF Answering
  <2> QED BY <1>1, <2>1, <2>3, <2>4, <2>5, <2>6, <2>7, Stayed
<1> QED BY <1>4, <1>5, <1>6

\* One lemma for each action.
LEMMA InvNext == ASSUME ConstantsAssumption, Inv, [Next]_vars PROVE Inv'
<1>1. ASSUME NEW g \in Gates, NEW listed \in SUBSET Paths, NEW dirty \in SUBSET Paths,
             Listed(g, listed, dirty)
      PROVE  Inv'
  BY <1>1, ListedInv
<1>2. ASSUME NEW g \in Gates, Unlisted(g) PROVE Inv'
  BY <1>2, UnlistedInv
<1>3. ASSUME NEW g \in Gates, Named(g) PROVE Inv'
  BY <1>3, NamedInv
<1>4. ASSUME NEW s \in Scopes, NEW g \in Gates, Enter(s, g) PROVE Inv'
  BY <1>4, EnterInv
<1>5. ASSUME Polled \/ Ask PROVE Inv'
  <2>1. moves' = moves + 1 /\ UNCHANGED <<shown, lock, running, gate, active>>
    BY <1>5 DEF Polled, Ask, Moves
  <2>2. moves' \in Nat
    BY <2>1, Types DEF Inv
  <2>3. \/ Refresh(gate, loop, TRUE, "live", 0)
        \/ Refresh(gate, loop, FALSE, "none", 0)
    BY <1>5 DEF Polled, Ask
  <2> QED BY <2>1, <2>2, <2>3, AskedInv
<1>6. CASE Hide
  BY <1>6, HideInv
<1>7. CASE Look \/ AskFirst \/ Dismiss
  BY <1>7, LookInv
<1>8. ASSUME NEW path \in Paths, Choose(path) PROVE Inv'
  BY <1>8, ChooseInv
<1>9. ASSUME NEW r \in Repos, ChooseRepo(r) PROVE Inv'
  BY <1>9, ChooseRepoInv
<1>10. ASSUME NEW i \in Actions, NEW kind \in Kinds, Act(i, kind) PROVE Inv'
  BY <1>10, ActInv
<1>11. ASSUME NEW i \in Actions, Confirm(i) PROVE Inv'
  BY <1>11, ConfirmInv
<1>12. ASSUME NEW i \in Actions, NEW ok \in BOOLEAN, Settle(i, ok) PROVE Inv'
  BY <1>12, SettleInv
<1>13. CASE UNCHANGED vars
  BY <1>13 DEF vars, shown, place, Inv, TypeOK, AnswersFit, DialogFits, HitsItsRow, Answers, Locks,
                Queue, Here, At
<1> QED BY <1>1, <1>2, <1>3, <1>4, <1>5, <1>6, <1>7, <1>8, <1>9, <1>10, <1>11, <1>12, <1>13 DEF Next

\* The inductive invariant holds in every state, whatever order passes, clicks
\* and operations end in.
THEOREM InvHolds == ASSUME ConstantsAssumption PROVE Spec => []Inv
<1>1. Init => Inv
  BY InvInit
<1>2. Inv /\ [Next]_vars => Inv'
  BY InvNext
<1> QED BY <1>1, <1>2, PTL DEF Spec

\* The state of the lens keeps its shape: a gate is in flight exactly while its
\* loop has a pass (GitLens.tsx:505-530).
THEOREM TypeCorrect == ASSUME ConstantsAssumption PROVE Spec => []TypeOK
<1>1. Inv => TypeOK
  BY DEF Inv
<1> QED BY <1>1, InvHolds, PTL

\* The lists shown are those of the repository and checkout in view, whichever
\* pass of whichever gate answers last.
THEOREM AnswersFitHolds == ASSUME ConstantsAssumption PROVE Spec => []AnswersFit
<1>1. Inv => AnswersFit
  BY DEF Inv
<1> QED BY <1>1, InvHolds, PTL

\* A dialog is about a row in view, and what it confirms happens where its row
\* was, though the conversation and the repository are read when it is answered.
THEOREM DialogHolds == ASSUME ConstantsAssumption PROVE Spec => [](DialogFits /\ HitsItsRow)
<1>1. Inv => DialogFits /\ HitsItsRow
  BY DEF Inv
<1> QED BY <1>1, InvHolds, PTL

\* A manual refresh that waits is in the queue of the gate in use, and loud.
THEOREM NoneDroppedHolds == ASSUME ConstantsAssumption PROVE Spec => []NoneDropped
<1>1. Inv => NoneDropped
  BY DEF Inv, Queue, NoneDropped
<1> QED BY <1>1, InvHolds, PTL

\* Once the automatic preference is spent, no listing that has the checkout in view
\* moves the lens (GitLens.tsx:392-412).
THEOREM NeverYankedHolds == Spec => [][NeverYanked]_vars
<1>1. NeverYanked
  BY DEF NeverYanked, Listed, Target, Stays
<1> QED BY <1>1, PTL

-----------------------------------------------------------------------------
(* Where no place is shown again while something runs there.               *)

\* A step that moves the lens to a place where nothing runs.
LEMMA AloneMoved ==
  ASSUME ~Returns, Inv, Alone, running' = Left, Free(Here')
  PROVE Alone'
<1>1. \A i \in Actions : /\ ~running'[i].current /\ running'[i].kind = running[i].kind
                         /\ running'[i].at = running[i].at
  BY LeftFacts DEF Inv
<1> QED BY <1>1 DEF Alone, Left_Apart, Apart, Free, Busy

\* A step that moves neither the lens nor the operations.
LEMMA AloneStayed == ASSUME Alone, running' = running, Here' = Here PROVE Alone'
BY DEF Alone, Left_Apart, Apart

\* What begins is alone in the checkout in view: the lock was free.
LEMMA AloneStarted ==
  ASSUME ConstantsAssumption, Inv, Alone, NEW i \in Actions, NEW kind, Start(i, kind, Here, Here), Here' = Here
  PROVE Alone'
<1>1. running \in Slots /\ lock = 0
      /\ running' = [running EXCEPT ![i] = [kind |-> kind, current |-> TRUE, at |-> Here, row |-> Here]]
  BY Types DEF Start, Inv
<1>2. /\ running'[i].current /\ running'[i].at = Here
      /\ \A j \in Actions : j # i => running'[j] = running[j]
  BY <1>1 DEF Slots
<1>3. \A j \in Actions : ~running[j].current
  BY <1>1 DEF Inv, Locks, ConstantsAssumption
<1> QED BY <1>2, <1>3 DEF Alone, Left_Apart, Apart

\* Every step leaves each operation alone in its checkout.
LEMMA AloneNext ==
  ASSUME ConstantsAssumption, ~Returns, Inv, Alone, [Next]_vars
  PROVE Alone'
<1>1. ASSUME NEW g \in Gates, NEW listed \in SUBSET Paths, NEW dirty \in SUBSET Paths,
             Listed(g, listed, dirty)
      PROVE  Alone'
  <2> DEFINE target == Target(listed, dirty)
             moved == target # chosen /\ (chosen # None \/ target # Stays({Main} \cap listed))
  <2>1. chosen' = target /\ scope' = scope /\ repo' = repo
    BY <1>1 DEF Listed
  <2>2. Here' = At(target)
    BY <2>1 DEF Here, At
  <2>3. CASE moved
    <3>1. running' = Left /\ Free(At(target))
      BY <1>1, <2>3 DEF Listed
    <3> QED BY <2>2, <3>1, AloneMoved
  <2>4. CASE ~moved
    <3>1. running' = running
      BY <1>1, <2>4 DEF Listed
    <3>2. chosen = None => Stays({Main} \cap listed) \in {Main, None}
      BY TargetFacts DEF Inv
    <3>3. At(target) = Here
      <4> HIDE DEF target
      <4> QED BY <2>4, <3>2 DEF At, Here
    <3> QED BY <2>2, <3>1, <3>3, AloneStayed
  <2> QED BY <2>3, <2>4
<1>2. ASSUME NEW path \in Paths, Choose(path) PROVE Alone'
  <2>1. running' = Left /\ Free(At(path)) /\ scope' = scope /\ repo' = repo /\ chosen' = path
    BY <1>2 DEF Choose, Reset
  <2>2. Here' = At(path)
    BY <2>1 DEF Here, At
  <2> QED BY <2>1, <2>2, AloneMoved
<1>3. ASSUME NEW r \in Repos, ChooseRepo(r) PROVE Alone'
  <2>1. running' = Left /\ Free(<<scope, r, Main>>) /\ scope' = scope /\ repo' = r /\ chosen' = None
    BY <1>3 DEF ChooseRepo, Reset
  <2>2. Here' = <<scope, r, Main>>
    BY <2>1 DEF Here, At
  <2> QED BY <2>1, <2>2, AloneMoved
<1>4. ASSUME NEW s \in Scopes, NEW g \in Gates, Enter(s, g) PROVE Alone'
  <2>1. running' = Left /\ Free(<<s, None, Main>>) /\ scope' = s /\ repo' = None /\ chosen' = None
    BY <1>4 DEF Enter, Reset
  <2>2. Here' = <<s, None, Main>>
    BY <2>1 DEF Here, At
  <2> QED BY <2>1, <2>2, AloneMoved
<1>5. ASSUME NEW i \in Actions, NEW kind \in Kinds, Act(i, kind) PROVE Alone'
  <2>1. Start(i, kind, Here, Here) /\ Here' = Here
    BY <1>5 DEF Act, shown, place, Here, At
  <2> QED BY <2>1, AloneStarted
<1>6. ASSUME NEW i \in Actions, Confirm(i) PROVE Alone'
  <2>1. Here' = Here /\ confirm = Here
    BY <1>6 DEF Confirm, place, Here, At, Inv, DialogFits
  <2>2. CASE lock = 0
    <3>1. <<scope, repo, confirm[3]>> = Here
      BY <2>1 DEF Here, At
    <3>2. Start(i, "mutation", Here, Here)
      BY <1>6, <2>1, <2>2, <3>1 DEF Confirm
    <3> QED BY <2>1, <3>2, AloneStarted
  <2>3. CASE lock # 0
    BY <1>6, <2>1, <2>3, AloneStayed DEF Confirm
  <2> QED BY <2>2, <2>3
<1>7. ASSUME NEW i \in Actions, NEW ok \in BOOLEAN, Settle(i, ok) PROVE Alone'
  <2>1. running' = [running EXCEPT ![i] = Idle] /\ Here' = Here /\ running \in Slots
    BY <1>7, Types DEF Settle, shown, place, Here, At, Inv
  <2>2. running'[i].kind = "none" /\ \A j \in Actions : j # i => running'[j] = running[j]
    BY <2>1 DEF Slots, Idle
  <2> QED BY <2>1, <2>2 DEF Alone, Left_Apart, Apart
<1>8. CASE \/ \E g \in Gates : Unlisted(g) \/ Named(g)
           \/ Polled \/ Hide \/ Look \/ Ask \/ AskFirst \/ Dismiss \/ UNCHANGED vars
  <2>1. running' = running /\ Here' = Here
    BY <1>8 DEF Unlisted, Named, Polled, Hide, Look, Ask, AskFirst, Dismiss, vars, shown, place, Here, At
  <2> QED BY <2>1, AloneStayed
<1> QED BY <1>1, <1>2, <1>3, <1>4, <1>5, <1>6, <1>7, <1>8 DEF Next

\* "Lock one target's mutation" (GitLens.tsx:747): no two mutations run in one
\* checkout, where a place that was left is not shown again while one runs there.
THEOREM OneMutationHolds ==
  ASSUME ConstantsAssumption, ~Returns
  PROVE  Spec => []OneMutation
<1>1. Init => Alone
  <2> SUFFICES ASSUME Init PROVE Alone
    OBVIOUS
  <2>1. \A i \in Actions : running[i] = Idle
    BY DEF Init
  <2>2. Idle.kind = "none"
    BY DEF Idle
  <2> QED BY <2>1, <2>2 DEF Alone, Left_Apart, Apart
<1>2. Inv /\ Alone /\ [Next]_vars => Alone'
  BY AloneNext
<1>3. Alone => OneMutation
  <2> SUFFICES ASSUME Alone, NEW i \in Actions, NEW j \in Actions, i # j,
                      {running[i].kind, running[j].kind} \subseteq {"mutation", "checkout"}
               PROVE  running[i].at # running[j].at
    BY DEF OneMutation
  <2>1. running[i].kind \in {"mutation", "checkout"} /\ running[j].kind \in {"mutation", "checkout"}
    OBVIOUS
  <2>2. running[i].kind # "none" /\ running[j].kind # "none"
    BY <2>1
  <2> QED BY <2>2 DEF Alone, Apart
<1> QED BY <1>1, <1>2, <1>3, InvHolds, PTL DEF Spec

-----------------------------------------------------------------------------
(* The switches of the side card (SettingsWrites), whoever flips them.  The *)
(* last of the popup's commits is what the user wants as long as the        *)
(* revision it will be sent under is the host's (Commits); the menus' queue *)
(* is what separates the document from what the user wants (Flips).         *)

CONSTANTS Keys, Surfaces, Bursts, EarlyFlips, MaxToggles
VARIABLES doc, store, switches, revision, dirty, mount, commits, menu, wish, burst, refused, toggles

Settings == INSTANCE SettingsWrites WITH shown <- switches

KeyMaps == [Keys -> BOOLEAN]
CommitSet == [map : KeyMaps, before : KeyMaps, revision : Nat, answer : {"none", "ok", "refused"}]
FlipSet == [key : Keys, value : BOOLEAN, stage : {"queued", "built", "ok", "refused"}, map : KeyMaps]

SettingsTyped ==
  /\ doc \in [revision : Nat, map : KeyMaps]
  /\ store \in KeyMaps /\ switches \in KeyMaps /\ wish \in KeyMaps
  /\ revision \in Nat \cup {None}
  /\ dirty \in BOOLEAN /\ burst \in BOOLEAN /\ refused \in BOOLEAN /\ toggles \in Nat
  /\ mount \in [stage : {"asked", "read", "over"}, revision : Nat, map : KeyMaps]
  /\ commits \in Seq(CommitSet) /\ menu \in Seq(FlipSet)

\* The popup's first commit is answered; the revision it knows once that is in;
\* and whether the host will take what it sends.
Took == commits # <<>> /\ commits[1].answer = "ok"
Known == IF Took THEN commits[1].revision ELSE revision
UpToDate == Known = None \/ Known = doc.revision

\* What the popup shows and will write.
Commits ==
  /\ commits = <<>> => doc.map = wish /\ ~burst
  /\ Took /\ Len(commits) = 1 => doc.map = wish
  /\ UpToDate /\ (mount.stage = "over" \/ "other" \notin Surfaces) =>
       /\ ~burst => switches = wish
       /\ commits # <<>> => commits[Len(commits)].map = wish
       /\ Took => doc.map = commits[1].map
  /\ commits # <<>> => dirty /\ commits[1].answer # "refused"
  /\ Took => commits[1].revision <= doc.revision
  /\ \A i \in 1 .. Len(commits) : i # 1 => commits[i].answer = "none"

\* Its first read.
Reads ==
  /\ mount.stage # "over" => IF "other" \in Surfaces THEN commits = <<>> /\ ~dirty ELSE UpToDate
  /\ mount.stage = "over" => revision # None
  /\ mount.revision <= doc.revision /\ (revision # None => revision <= doc.revision)
  /\ mount.stage = "read" /\ ~dirty /\ mount.revision = doc.revision => mount.map = doc.map

\* Flip i has not reached the host.
Pends(i) == menu[i].stage = "queued" \/ menu[i].stage = "built"

\* What the menus will write.
Flips ==
  /\ menu = <<>> \/ menu[1].stage # "ok" => store = doc.map
  /\ menu # <<>> =>
       /\ menu[1].stage # "refused"
       /\ menu[1].stage = "ok" => menu[1].map = doc.map
       /\ menu[1].stage = "built" => menu[1].map = [doc.map EXCEPT ![menu[1].key] = menu[1].value]
  /\ \A i \in DOMAIN menu : i # 1 => menu[i].stage = "queued"
  /\ \A k \in Keys : (\A i \in DOMAIN menu : menu[i].key = k => ~Pends(i)) => wish[k] = doc.map[k]
  /\ \A i \in DOMAIN menu :
       Pends(i) /\ (\A j \in DOMAIN menu : j > i => menu[j].key # menu[i].key)
         => wish[menu[i].key] = menu[i].value

PopupInv == SettingsTyped /\ menu = <<>> /\ (refused \/ (Commits /\ Reads))
MenuInv == SettingsTyped /\ commits = <<>> /\ (refused \/ Flips)

\* A map with one switch flipped, and what the user wants then.
LEMMA Flipped ==
  ASSUME SettingsTyped, NEW k \in Keys, Settings!Chosen(k)
  PROVE  /\ wish' \in KeyMaps /\ wish'[k] \in BOOLEAN /\ toggles' \in Nat
         /\ \A m \in KeyMaps : [m EXCEPT ![k] = wish'[k]] \in KeyMaps
         /\ [wish EXCEPT ![k] = wish'[k]] = wish'
         /\ \A j \in Keys : j # k => wish'[j] = wish[j]
<1>1. wish' = [wish EXCEPT ![k] = ~wish[k]] /\ wish \in KeyMaps /\ toggles' \in Nat
  BY DEF Settings!Chosen, SettingsTyped
<1>2. wish'[k] \in BOOLEAN /\ \A j \in Keys : j # k => wish'[j] = wish[j]
  BY <1>1 DEF KeyMaps
<1>3. ASSUME NEW m \in KeyMaps PROVE [m EXCEPT ![k] = wish'[k]] \in KeyMaps
  BY <1>2 DEF KeyMaps
<1>4. wish' \in KeyMaps
  BY <1>1 DEF KeyMaps
<1>5. [wish EXCEPT ![k] = wish'[k]] = wish'
  BY <1>1, <1>2 DEF KeyMaps
<1> QED BY <1>1, <1>2, <1>3, <1>4, <1>5

\* A queue without its first member, and with that one changed.
LEMMA QueueTail ==
  ASSUME NEW S, NEW q \in Seq(S), q # <<>>
  PROVE  /\ q[1] \in S /\ Len(q) \in Nat \ {0} /\ q[Len(q)] \in S
         /\ Tail(q) \in Seq(S) /\ Len(Tail(q)) = Len(q) - 1
         /\ \A i \in 1 .. Len(q) - 1 : Tail(q)[i] = q[i + 1]
         /\ Tail(q) # <<>> => Len(q) > 1 /\ Tail(q)[Len(Tail(q))] = q[Len(q)] /\ Tail(q)[1] = q[2]
         /\ Tail(q) = <<>> => Len(q) = 1
<1>1. Len(q) \in Nat \ {0} /\ q[1] \in S /\ q[Len(q)] \in S
  OBVIOUS
<1>2. Tail(q) \in Seq(S) /\ Len(Tail(q)) = Len(q) - 1
      /\ \A i \in 1 .. Len(q) - 1 : Tail(q)[i] = q[i + 1]
  BY <1>1
<1>3. Tail(q) # <<>> => Len(q) > 1
  BY <1>1, <1>2
<1>4. ASSUME Tail(q) = <<>> PROVE Len(Tail(q)) = 0
  <2>1. Len(<<>>) = 0
    OBVIOUS
  <2> QED BY <1>4, <2>1
<1>5. Len(q) - 1 = 0 => Len(q) = 1
  BY <1>1
<1> QED BY <1>1, <1>2, <1>3, <1>4, <1>5

LEMMA QueueFirst ==
  ASSUME NEW S, NEW q \in Seq(S), q # <<>>, NEW e \in S
  PROVE  LET p == [q EXCEPT ![1] = e] IN
         /\ p \in Seq(S) /\ Len(p) = Len(q) /\ p # <<>> /\ p[1] = e
         /\ \A i \in 1 .. Len(q) : i # 1 => p[i] = q[i]
OBVIOUS

LEMMA CommitQueue ==
  ASSUME SettingsTyped, commits # <<>>
  PROVE  /\ commits[1] \in CommitSet /\ Len(commits) \in Nat \ {0} /\ Tail(commits) \in Seq(CommitSet)
         /\ commits[Len(commits)] \in CommitSet
         /\ Len(Tail(commits)) = Len(commits) - 1
         /\ Tail(commits) # <<>> =>
              Len(commits) > 1 /\ Tail(commits)[Len(Tail(commits))] = commits[Len(commits)]
                /\ Tail(commits)[1] = commits[2]
         /\ Tail(commits) = <<>> => Len(commits) = 1
<1>1. commits \in Seq(CommitSet)
  BY DEF SettingsTyped
<1> QED BY <1>1, QueueTail

LEMMA MenuQueue ==
  ASSUME SettingsTyped, menu # <<>>
  PROVE  /\ menu[1] \in FlipSet /\ Len(menu) \in Nat \ {0} /\ Tail(menu) \in Seq(FlipSet)
         /\ Len(Tail(menu)) = Len(menu) - 1
         /\ \A i \in 1 .. Len(menu) - 1 : Tail(menu)[i] = menu[i + 1]
<1>1. menu \in Seq(FlipSet)
  BY DEF SettingsTyped
<1> QED BY <1>1, QueueTail

\* An answer to the popup's first commit.
LEMMA Replied ==
  ASSUME SettingsTyped, commits # <<>>, NEW a \in {"ok", "refused"}, NEW r \in Nat,
         commits' = [commits EXCEPT ![1].answer = a, ![1].revision = r]
  PROVE  /\ commits' \in Seq(CommitSet) /\ Len(commits') = Len(commits) /\ commits' # <<>>
         /\ commits'[1].answer = a /\ commits'[1].revision = r /\ commits'[1].map = commits[1].map
         /\ commits'[Len(commits)].map = commits[Len(commits)].map
<1>1. commits[1] \in CommitSet /\ commits \in Seq(CommitSet) /\ Len(commits) \in Nat \ {0}
  BY CommitQueue DEF SettingsTyped
<1> DEFINE c == [commits[1] EXCEPT !.answer = a, !.revision = r]
<1>2. c \in CommitSet /\ c.answer = a /\ c.revision = r /\ c.map = commits[1].map
  BY <1>1 DEF CommitSet
<1>3. commits' = [commits EXCEPT ![1] = c]
  BY <1>1, <1>2
<1> HIDE DEF c
<1>4. /\ commits' \in Seq(CommitSet) /\ Len(commits') = Len(commits) /\ commits' # <<>>
      /\ commits'[1] = c /\ \A i \in 1 .. Len(commits) : i # 1 => commits'[i] = commits[i]
  <2>1. LET p == [commits EXCEPT ![1] = c] IN
        /\ p \in Seq(CommitSet) /\ Len(p) = Len(commits) /\ p # <<>> /\ p[1] = c
        /\ \A i \in 1 .. Len(commits) : i # 1 => p[i] = commits[i]
    BY <1>1, <1>2, QueueFirst
  <2> QED BY <1>3, <2>1
<1>5. CASE Len(commits) = 1
  BY <1>2, <1>4, <1>5
<1>6. CASE Len(commits) # 1
  BY <1>1, <1>2, <1>4, <1>6
<1> QED BY <1>2, <1>4, <1>5, <1>6

\* Whatever the surfaces, a step keeps the types.
LEMMA SettingsTypes ==
  ASSUME Settings!ConstantsAssumption, SettingsTyped, [Settings!Next]_(Settings!vars)
  PROVE  SettingsTyped'
<1>1. CASE Settings!MountRead \/ Settings!Mounted \/ Settings!DocumentUpdated \/ UNCHANGED Settings!vars
  BY <1>1 DEF SettingsTyped, Settings!MountRead, Settings!Mounted, Settings!DocumentUpdated, Settings!vars
<1>2. CASE Settings!Commit
  <2>1. commits # <<>> /\ UNCHANGED <<store, switches, revision, dirty, mount, menu, wish, burst, toggles>>
        /\ (\/ /\ Settings!Takes(commits[1].map) /\ UNCHANGED refused
               /\ commits' = [commits EXCEPT ![1].answer = "ok", ![1].revision = doc.revision + 1]
            \/ /\ refused' = TRUE /\ UNCHANGED doc
               /\ commits' = [commits EXCEPT ![1].answer = "refused"])
    BY <1>2 DEF Settings!Commit
  <2>2. CASE /\ Settings!Takes(commits[1].map) /\ UNCHANGED refused
             /\ commits' = [commits EXCEPT ![1].answer = "ok", ![1].revision = doc.revision + 1]
    <3>1. doc.revision + 1 \in Nat /\ commits[1].map \in KeyMaps
      BY SMTT(40), <2>1, CommitQueue DEF SettingsTyped, CommitSet
    <3>2. commits' \in Seq(CommitSet)
      BY <2>1, <2>2, <3>1, Replied
    <3>3. doc' \in [revision : Nat, map : KeyMaps]
      BY <2>2, <3>1 DEF Settings!Takes
    <3> QED BY <2>1, <2>2, <3>2, <3>3 DEF SettingsTyped
  <2>3. CASE /\ refused' = TRUE /\ UNCHANGED doc
             /\ commits' = [commits EXCEPT ![1].answer = "refused"]
    <3>1. commits[1] \in CommitSet /\ commits \in Seq(CommitSet) /\ Len(commits) \in Nat \ {0}
      BY <2>1, CommitQueue DEF SettingsTyped
    <3>2. [commits[1] EXCEPT !.answer = "refused"] \in CommitSet
      BY <3>1 DEF CommitSet
    <3>3. commits' = [commits EXCEPT ![1] = [commits[1] EXCEPT !.answer = "refused"]]
      BY <2>3, <3>1
    <3>4. commits' \in Seq(CommitSet)
      BY <3>1, <3>2, <3>3
    <3> QED BY <2>1, <2>3, <3>4 DEF SettingsTyped
  <2> QED BY <2>1, <2>2, <2>3
<1>3. CASE Settings!CommitEnds
  <2>1. commits # <<>> /\ commits' = Tail(commits) /\ burst' = (commits' # <<>>)
        /\ UNCHANGED <<doc, dirty, mount, menu, wish, toggles, refused>>
        /\ (\/ switches' = commits[1].map /\ store' = commits[1].map /\ revision' = commits[1].revision
            \/ switches' = commits[1].before /\ UNCHANGED <<store, revision>>)
    BY <1>3 DEF Settings!CommitEnds
  <2>2. commits[1].map \in KeyMaps /\ commits[1].before \in KeyMaps /\ commits[1].revision \in Nat
        /\ Tail(commits) \in Seq(CommitSet)
    BY <2>1, CommitQueue DEF CommitSet
  <2>3. burst' \in BOOLEAN
    BY <2>1
  <2> QED BY <2>1, <2>2, <2>3 DEF SettingsTyped
<1>4. CASE Settings!Build
  <2>1. menu # <<>> /\ menu' = [menu EXCEPT ![1].stage = "built",
                          ![1].map = [store EXCEPT ![menu[1].key] = menu[1].value]]
        /\ UNCHANGED <<doc, store, switches, revision, dirty, mount, commits, wish, burst, refused, toggles>>
    BY <1>4 DEF Settings!Build
  <2>2. menu[1] \in FlipSet /\ menu \in Seq(FlipSet) /\ Len(menu) \in Nat \ {0} /\ store \in KeyMaps
    BY <2>1, MenuQueue DEF SettingsTyped
  <2> DEFINE m == [store EXCEPT ![menu[1].key] = menu[1].value]
  <2>3. m \in KeyMaps
    BY <2>2 DEF KeyMaps, FlipSet
  <2>4. [menu[1] EXCEPT !.stage = "built", !.map = m] \in FlipSet
    BY <2>2, <2>3 DEF FlipSet
  <2>5. menu' = [menu EXCEPT ![1] = [menu[1] EXCEPT !.stage = "built", !.map = m]]
    BY <2>1, <2>2
  <2> HIDE DEF m
  <2>6. menu' \in Seq(FlipSet)
    BY <2>2, <2>4, <2>5
  <2> QED BY <2>1, <2>6 DEF SettingsTyped
<1>5. CASE Settings!MenuWrite
  <2>1. menu # <<>>
        /\ UNCHANGED <<store, switches, revision, dirty, mount, commits, wish, burst, toggles>>
        /\ (\/ /\ Settings!Takes(menu[1].map) /\ menu' = [menu EXCEPT ![1].stage = "ok"]
               /\ UNCHANGED refused
            \/ /\ refused' = TRUE /\ menu' = [menu EXCEPT ![1].stage = "refused"] /\ UNCHANGED doc)
    BY <1>5 DEF Settings!MenuWrite
  <2>2. menu[1] \in FlipSet /\ menu \in Seq(FlipSet) /\ Len(menu) \in Nat \ {0}
    BY <2>1, MenuQueue DEF SettingsTyped
  <2>3. ASSUME NEW s \in {"ok", "refused"}, menu' = [menu EXCEPT ![1].stage = s]
        PROVE  menu' \in Seq(FlipSet)
    <3>1. [menu[1] EXCEPT !.stage = s] \in FlipSet
      BY <2>2 DEF FlipSet
    <3>2. menu' = [menu EXCEPT ![1] = [menu[1] EXCEPT !.stage = s]]
      BY <2>2, <2>3
    <3> QED BY <2>2, <3>1, <3>2
  <2>4. menu' \in Seq(FlipSet)
    BY <2>1, <2>3
  <2>5. menu[1].map \in KeyMaps
    BY <2>2 DEF FlipSet
  <2>6. doc' \in [revision : Nat, map : KeyMaps]
    BY <2>1, <2>5 DEF Settings!Takes, SettingsTyped
  <2>7. refused' \in BOOLEAN
    BY <2>1 DEF SettingsTyped
  <2> QED BY <2>1, <2>4, <2>6, <2>7 DEF SettingsTyped
<1>6. CASE Settings!MenuEnds
  <2>1. menu # <<>> /\ menu' = Tail(menu) /\ (store' = menu[1].map \/ store' = store)
        /\ UNCHANGED <<doc, switches, revision, dirty, mount, commits, wish, burst, refused, toggles>>
    BY <1>6 DEF Settings!MenuEnds
  <2>2. menu[1].map \in KeyMaps /\ Tail(menu) \in Seq(FlipSet)
    BY <2>1, MenuQueue DEF FlipSet
  <2> QED BY <2>1, <2>2 DEF SettingsTyped
<1>7. ASSUME NEW k \in Keys, Settings!Flip(k) PROVE SettingsTyped'
  <2>1. Settings!Chosen(k) /\ dirty' = TRUE
        /\ switches' = [switches EXCEPT ![k] = wish'[k]]
        /\ commits' = Append(commits, [map |-> switches', before |-> switches, revision |-> 0,
                                       answer |-> "none"])
        /\ UNCHANGED <<doc, store, revision, mount, menu, burst, refused>>
    BY <1>7 DEF Settings!Flip, Settings!NewCommit
  <2>2. switches' \in KeyMaps /\ switches \in KeyMaps /\ wish' \in KeyMaps /\ toggles' \in Nat
    BY <2>1, Flipped DEF SettingsTyped
  <2>3. [map |-> switches', before |-> switches, revision |-> 0, answer |-> "none"] \in CommitSet
    BY <2>2 DEF CommitSet
  <2>4. commits' \in Seq(CommitSet)
    BY <2>1, <2>3 DEF SettingsTyped
  <2> QED BY <2>1, <2>2, <2>4 DEF SettingsTyped
<1>8. ASSUME NEW k \in Keys, Settings!MenuFlip(k) PROVE SettingsTyped'
  <2>1. Settings!Chosen(k)
        /\ menu' = Append(menu, [key |-> k, value |-> wish'[k], stage |-> "queued", map |-> store])
        /\ UNCHANGED <<doc, store, switches, revision, dirty, mount, commits, burst, refused>>
    BY <1>8 DEF Settings!MenuFlip
  <2>2. wish' \in KeyMaps /\ wish'[k] \in BOOLEAN /\ store \in KeyMaps /\ toggles' \in Nat
    BY <2>1, Flipped DEF SettingsTyped
  <2>3. [key |-> k, value |-> wish'[k], stage |-> "queued", map |-> store] \in FlipSet
    BY <2>2 DEF FlipSet
  <2>4. menu' \in Seq(FlipSet)
    BY <2>1, <2>3 DEF SettingsTyped
  <2> QED BY <2>1, <2>2, <2>4 DEF SettingsTyped
<1>9. ASSUME NEW k \in Keys, Settings!Other(k) PROVE SettingsTyped'
  <2>1. Settings!Chosen(k)
        /\ doc' = [revision |-> doc.revision + 1, map |-> [doc.map EXCEPT ![k] = wish'[k]]]
        /\ UNCHANGED <<store, switches, revision, dirty, mount, commits, menu, burst, refused>>
    BY <1>9 DEF Settings!Other, Settings!Takes
  <2>2. wish' \in KeyMaps /\ doc.map \in KeyMaps /\ doc.revision \in Nat /\ toggles' \in Nat
        /\ [doc.map EXCEPT ![k] = wish'[k]] \in KeyMaps
    BY <2>1, Flipped DEF SettingsTyped
  <2>3. doc' \in [revision : Nat, map : KeyMaps]
    BY <2>1, <2>2
  <2> QED BY <2>1, <2>2, <2>3 DEF SettingsTyped
<1> QED BY <1>1, <1>2, <1>3, <1>4, <1>5, <1>6, <1>7, <1>8, <1>9 DEF Settings!Next

\* The popup's steps, while nothing was refused.
Undisturbed ==
  /\ Settings!ConstantsAssumption /\ ~Bursts
  /\ "menu" \notin Surfaces /\ ~("other" \in Surfaces /\ EarlyFlips)

PopupSound == SettingsTyped /\ Commits /\ Reads

LEMMA PopupMounts ==
  ASSUME Undisturbed, PopupSound, Settings!MountRead \/ Settings!Mounted
  PROVE  Commits' /\ Reads'
<1>0. /\ None \notin Nat /\ doc.revision \in Nat /\ mount.revision \in Nat
      /\ UNCHANGED <<doc, commits, wish, dirty, burst>>
  BY DEF Undisturbed, Settings!ConstantsAssumption, PopupSound, SettingsTyped,
         Settings!MountRead, Settings!Mounted
<1>1. CASE Settings!MountRead
  <2>1. /\ mount' = [stage |-> "read", revision |-> doc.revision, map |-> doc.map]
        /\ UNCHANGED <<revision, switches>> /\ mount.stage = "asked"
    BY <1>1 DEF Settings!MountRead
  <2>2. Took' = Took /\ Known' = Known /\ UpToDate' = UpToDate
    BY <1>0, <2>1 DEF Took, Known, UpToDate
  <2>3. Commits'
    BY <1>0, <2>1, <2>2 DEF Commits, PopupSound
  <2>4. Reads'
    BY <1>0, <2>1, <2>2 DEF Reads, PopupSound
  <2> QED BY <2>3, <2>4
<1>2. CASE Settings!Mounted
  <2>1. /\ mount' = [mount EXCEPT !.stage = "over"] /\ mount.stage = "read"
        /\ revision' = mount.revision
        /\ switches' = IF dirty THEN switches ELSE mount.map
    BY <1>2 DEF Settings!Mounted
  <2>2. mount'.stage = "over" /\ mount'.revision = mount.revision
    BY <2>1 DEF PopupSound, SettingsTyped
  <2>3. Took' = Took
    BY <1>0 DEF Took
  <2>4. Reads'
    BY <1>0, <2>1, <2>2 DEF Reads, PopupSound
  <2>5. ASSUME UpToDate'
        PROVE  /\ ~burst => switches' = wish
               /\ commits # <<>> => commits[Len(commits)].map = wish
               /\ Took => doc.map = commits[1].map
    <3>1. CASE commits = <<>>
      <4>1. mount.revision = doc.revision
        BY <1>0, <2>1, <2>3, <2>5, <3>1 DEF UpToDate, Known, Took
      <4>2. ~dirty => mount.map = wish
        BY <2>1, <3>1, <4>1 DEF PopupSound, Reads, Commits
      <4>3. dirty => UpToDate /\ "other" \notin Surfaces
        BY <2>1 DEF PopupSound, Reads
      <4>4. dirty => (~burst => switches = wish)
        BY <4>3 DEF PopupSound, Commits
      <4> QED BY <2>1, <3>1, <4>2, <4>4 DEF Took
    <3>2. CASE commits # <<>>
      <4>1. dirty /\ UpToDate /\ "other" \notin Surfaces
        BY <2>1, <3>2 DEF PopupSound, Reads, Commits
      <4> QED BY <2>1, <3>2, <4>1 DEF PopupSound, Commits
    <3> QED BY <3>1, <3>2
  <2>6. Commits'
    BY <1>0, <2>3, <2>5 DEF Commits, PopupSound
  <2> QED BY <2>4, <2>6
<1> QED BY <1>1, <1>2

LEMMA PopupCommits ==
  ASSUME Undisturbed, PopupSound, Settings!Commit, ~refused'
  PROVE  Commits' /\ Reads'
<1>1. /\ commits # <<>> /\ commits[1].answer = "none" /\ (revision = None \/ revision = doc.revision)
      /\ Settings!Takes(commits[1].map)
      /\ commits' = [commits EXCEPT ![1].answer = "ok", ![1].revision = doc.revision + 1]
      /\ UNCHANGED <<switches, revision, dirty, mount, wish, burst>>
  BY DEF Settings!Commit
<1>2. None \notin Nat /\ doc.revision \in Nat /\ mount.revision \in Nat
      /\ (revision \in Nat \/ revision = None)
  BY DEF Undisturbed, Settings!ConstantsAssumption, PopupSound, SettingsTyped
<1>3. doc'.revision = doc.revision + 1 /\ doc'.map = commits[1].map
  BY <1>1 DEF Settings!Takes
<1>4. /\ Len(commits') = Len(commits) /\ commits' # <<>> /\ commits'[1].answer = "ok"
      /\ commits'[1].revision = doc.revision + 1 /\ commits'[1].map = commits[1].map
      /\ commits'[Len(commits)].map = commits[Len(commits)].map
  <2> DEFINE r == doc.revision + 1
  <2>1. r \in Nat /\ commits' = [commits EXCEPT ![1].answer = "ok", ![1].revision = r]
    BY <1>1, <1>2
  <2> HIDE DEF r
  <2>2. /\ Len(commits') = Len(commits) /\ commits' # <<>> /\ commits'[1].answer = "ok"
        /\ commits'[1].revision = r /\ commits'[1].map = commits[1].map
        /\ commits'[Len(commits)].map = commits[Len(commits)].map
    BY <1>1, <2>1, Replied DEF PopupSound
  <2> QED BY <2>2 DEF r
<1>5. ~Took /\ UpToDate
  BY <1>1 DEF Took, Known, UpToDate
<1>6. mount.stage = "over" \/ "other" \notin Surfaces
  BY <1>1 DEF PopupSound, Reads
<1>7. (~burst => switches = wish) /\ commits[Len(commits)].map = wish /\ dirty
  BY <1>1, <1>5, <1>6 DEF PopupSound, Commits
<1>8. Took' /\ UpToDate'
  BY <1>3, <1>4 DEF Took, Known, UpToDate
<1>9. \A i \in 1 .. Len(commits) : i # 1 => commits'[i] = commits[i]
  <2>1. commits \in Seq(CommitSet) /\ Len(commits) \in Nat
    BY DEF PopupSound, SettingsTyped
  <2> QED BY <1>1, <2>1
<1>10. Commits'
  BY <1>1, <1>2, <1>3, <1>4, <1>7, <1>8, <1>9 DEF Commits, PopupSound
<1>11. Reads'
  BY <1>1, <1>2, <1>3, <1>6, <1>7, <1>8 DEF Reads, PopupSound
<1> QED BY <1>10, <1>11

LEMMA PopupEnds ==
  ASSUME Undisturbed, PopupSound, Settings!CommitEnds
  PROVE  Commits' /\ Reads'
<1>1. /\ commits # <<>> /\ commits' = Tail(commits) /\ burst' = (commits' # <<>>)
      /\ commits[1].answer # "none" /\ UNCHANGED <<doc, dirty, mount, wish>>
  BY DEF Settings!CommitEnds
<1>2. commits[1].answer = "ok" /\ Took
  BY <1>1, CommitQueue DEF PopupSound, Commits, CommitSet, Took
<1>3. switches' = commits[1].map /\ revision' = commits[1].revision
  BY <1>2 DEF Settings!CommitEnds
<1>4. None \notin Nat /\ commits[1].revision \in Nat /\ Len(commits) \in Nat \ {0}
  BY <1>1, CommitQueue DEF Undisturbed, Settings!ConstantsAssumption, PopupSound, CommitSet
<1>5. commits' # <<>> => Len(commits) > 1 /\ commits'[Len(commits')] = commits[Len(commits)]
                         /\ commits'[1] = commits[2] /\ commits[2].answer = "none"
  <2>1. commits' # <<>> => Len(commits) > 1 /\ commits'[Len(commits')] = commits[Len(commits)]
                         /\ commits'[1] = commits[2]
    BY <1>1, CommitQueue DEF PopupSound
  <2>2. Len(commits) > 1 => commits[2].answer = "none"
    BY <1>4 DEF PopupSound, Commits
  <2> QED BY <2>1, <2>2
<1>6. commits' = <<>> => Len(commits) = 1
  BY <1>1, CommitQueue DEF PopupSound
<1>7. ~Took' /\ Known' = Known /\ UpToDate' = UpToDate
  BY <1>1, <1>2, <1>3, <1>5 DEF Took, Known, UpToDate
<1>8. commits' = <<>> => doc.map = wish /\ ~burst'
  BY <1>1, <1>2, <1>6 DEF PopupSound, Commits
<1>9. \A i \in 1 .. Len(commits') : commits'[i].answer = "none"
  <2>1. commits \in Seq(CommitSet)
    BY DEF PopupSound, SettingsTyped
  <2>2. Len(commits') = Len(commits) - 1
        /\ \A i \in 1 .. Len(commits) - 1 : commits'[i] = commits[i + 1]
    BY <1>1, <2>1, QueueTail
  <2>3. \A i \in 1 .. Len(commits) : i # 1 => commits[i].answer = "none"
    BY DEF PopupSound, Commits
  <2> QED BY <1>4, <2>2, <2>3
<1>10. dirty
  BY <1>1 DEF PopupSound, Commits
<1>11. ASSUME UpToDate, mount.stage = "over" \/ "other" \notin Surfaces
       PROVE  /\ ~burst' => switches' = wish
              /\ commits' # <<>> => commits'[Len(commits')].map = wish
  <2>1. commits[Len(commits)].map = wish /\ doc.map = commits[1].map
    BY <1>1, <1>2, <1>11 DEF PopupSound, Commits
  <2>2. ~burst' => commits' = <<>>
    BY <1>1
  <2>3. ~burst' => switches' = wish
    BY <1>3, <1>8, <2>1, <2>2
  <2> QED BY <1>5, <2>1, <2>3
<1>12. Commits'
  <2>1. commits' # <<>> => commits'[1].answer # "refused"
    BY <1>5
  <2> QED BY <1>1, <1>7, <1>8, <1>9, <1>10, <1>11, <2>1 DEF Commits
<1>13. Reads'
  BY <1>1, <1>2, <1>3, <1>4, <1>7 DEF Reads, Commits, PopupSound
<1> QED BY <1>12, <1>13

LEMMA PopupFlips ==
  ASSUME Undisturbed, PopupSound, NEW k \in Keys, Settings!Flip(k)
  PROVE  Commits' /\ Reads'
<1> DEFINE c == [map |-> switches', before |-> switches, revision |-> 0, answer |-> "none"]
<1>1. /\ Settings!Chosen(k) /\ ~burst /\ (mount.stage = "over" \/ "other" \notin Surfaces)
      /\ switches' = [switches EXCEPT ![k] = wish'[k]] /\ commits' = Append(commits, c)
      /\ dirty' = TRUE /\ UNCHANGED <<doc, revision, mount, burst>>
  BY DEF Settings!Flip, Settings!NewCommit, Undisturbed
<1>2. [wish EXCEPT ![k] = wish'[k]] = wish'
  BY <1>1, Flipped DEF PopupSound
<1>3. commits \in Seq(CommitSet) /\ Len(commits) \in Nat
  BY DEF PopupSound, SettingsTyped
<1>4. c.map = switches' /\ c.answer = "none"
  OBVIOUS
<1> HIDE DEF c
<1>5. /\ Len(commits') = Len(commits) + 1 /\ commits'[Len(commits) + 1] = c /\ commits' # <<>>
      /\ \A i \in 1 .. Len(commits) : commits'[i] = commits[i]
  BY <1>1, <1>3
<1>6. commits = <<>> => commits'[1] = c
  BY <1>3, <1>5
<1>7. commits # <<>> => commits'[1] = commits[1] /\ Len(commits) > 0
  BY <1>3, <1>5
<1>8. Took' = Took /\ Known' = Known /\ UpToDate' = UpToDate
  BY <1>1, <1>4, <1>5, <1>6, <1>7 DEF Took, Known, UpToDate
<1>9. UpToDate => switches' = wish'
  BY <1>1, <1>2 DEF PopupSound, Commits
<1>10. Took => commits # <<>>
  BY DEF Took
<1>11. commits'[Len(commits')].map = switches'
  BY <1>4, <1>5
<1>12. commits'[1].answer # "refused"
  BY <1>4, <1>6, <1>7 DEF PopupSound, Commits
<1>13. ~(Took /\ Len(commits') = 1)
  BY <1>3, <1>5, <1>7, <1>10
<1>14. \A i \in 1 .. Len(commits') : i # 1 => commits'[i].answer = "none"
  BY <1>3, <1>4, <1>5 DEF PopupSound, Commits
<1>15. UpToDate /\ Took => doc.map = commits'[1].map
  BY <1>1, <1>7, <1>10 DEF PopupSound, Commits
<1>16. Took => commits'[1].revision <= doc.revision
  BY <1>7, <1>10 DEF PopupSound, Commits
<1>17. Commits'
  BY <1>1, <1>5, <1>8, <1>9, <1>11, <1>12, <1>13, <1>14, <1>15, <1>16 DEF Commits
<1>18. Reads'
  BY <1>1, <1>8 DEF Reads, PopupSound
<1> QED BY <1>17, <1>18

LEMMA PopupOthers ==
  ASSUME Undisturbed, PopupSound, NEW k \in Keys, Settings!Other(k)
  PROVE  Commits' /\ Reads'
<1>1. /\ "other" \in Surfaces /\ Settings!Chosen(k)
      /\ doc' = [revision |-> doc.revision + 1, map |-> [doc.map EXCEPT ![k] = wish'[k]]]
      /\ UNCHANGED <<switches, revision, dirty, mount, commits, burst>>
  BY DEF Settings!Other, Settings!Takes
<1>2. [wish EXCEPT ![k] = wish'[k]] = wish'
  BY <1>1, Flipped DEF PopupSound
<1>3. doc'.revision = doc.revision + 1 /\ (doc.map = wish => doc'.map = wish')
  BY <1>1, <1>2
<1>4. None \notin Nat /\ doc.revision \in Nat /\ mount.revision \in Nat
      /\ (revision \in Nat \/ revision = None) /\ (Took => commits[1].revision \in Nat)
  BY CommitQueue DEF Undisturbed, Settings!ConstantsAssumption, PopupSound, SettingsTyped, Took, CommitSet
<1>5. Took' = Took /\ Known' = Known
  BY <1>1 DEF Took, Known
<1>6. mount.stage = "over" => ~UpToDate'
  BY <1>3, <1>4, <1>5 DEF UpToDate, Known, PopupSound, Commits, Reads
<1>7. Commits'
  BY <1>1, <1>3, <1>4, <1>5, <1>6 DEF Commits, PopupSound
<1>8. Reads'
  BY <1>1, <1>3, <1>4 DEF Reads, PopupSound
<1> QED BY <1>7, <1>8

\* The menus' steps, while nothing was refused.
MenuSound == SettingsTyped /\ Flips

LEMMA MenuBuilds ==
  ASSUME Settings!ConstantsAssumption, MenuSound, Settings!Build PROVE Flips'
<1> DEFINE m == [store EXCEPT ![menu[1].key] = menu[1].value]
           e == [menu[1] EXCEPT !.stage = "built", !.map = m]
<1>1. /\ menu # <<>> /\ menu[1].stage = "queued" /\ UNCHANGED <<doc, store, wish>>
      /\ menu' = [menu EXCEPT ![1].stage = "built", ![1].map = m]
  BY DEF Settings!Build
<1>2. menu \in Seq(FlipSet) /\ menu[1] \in FlipSet /\ Len(menu) \in Nat \ {0}
  BY <1>1, MenuQueue DEF MenuSound, SettingsTyped
<1>3. menu' = [menu EXCEPT ![1] = e]
  BY <1>1, <1>2
<1>4. e.key = menu[1].key /\ e.value = menu[1].value /\ e.stage = "built" /\ e.map = m
  BY <1>2 DEF FlipSet
<1>5. store = doc.map
  BY <1>1 DEF MenuSound, Flips
<1> HIDE DEF e
<1>6. /\ Len(menu') = Len(menu) /\ DOMAIN menu' = DOMAIN menu /\ menu' # <<>> /\ menu'[1] = e
      /\ \A i \in DOMAIN menu : i # 1 => menu'[i] = menu[i]
  BY <1>2, <1>3
<1>7. \A i \in DOMAIN menu :
        menu'[i].key = menu[i].key /\ menu'[i].value = menu[i].value /\ Pends(i)' = Pends(i)
  BY <1>1, <1>2, <1>4, <1>6 DEF Pends
<1>8. menu'[1].map = [doc.map EXCEPT ![menu'[1].key] = menu'[1].value]
  BY <1>4, <1>5, <1>6
<1> QED
  <2>1. \A i \in DOMAIN menu' : i # 1 => menu'[i].stage = "queued"
    BY <1>6 DEF MenuSound, Flips
  <2>2. \A k \in Keys : (\A i \in DOMAIN menu' : menu'[i].key = k => ~Pends(i)') => wish'[k] = doc'.map[k]
    BY <1>1, <1>6, <1>7 DEF MenuSound, Flips
  <2>3. \A i \in DOMAIN menu' :
          Pends(i)' /\ (\A j \in DOMAIN menu' : j > i => menu'[j].key # menu'[i].key)
            => wish'[menu'[i].key] = menu'[i].value
    BY <1>1, <1>6, <1>7 DEF MenuSound, Flips
  <2> QED BY <1>1, <1>4, <1>5, <1>6, <1>8, <2>1, <2>2, <2>3 DEF Flips

LEMMA MenuWrites ==
  ASSUME Settings!ConstantsAssumption, MenuSound, Settings!MenuWrite, ~refused' PROVE Flips'
<1> DEFINE e == [menu[1] EXCEPT !.stage = "ok"]
<1>1. /\ menu # <<>> /\ menu[1].stage = "built" /\ UNCHANGED <<store, wish>>
      /\ Settings!Takes(menu[1].map) /\ menu' = [menu EXCEPT ![1].stage = "ok"]
  BY DEF Settings!MenuWrite
<1>2. menu \in Seq(FlipSet) /\ menu[1] \in FlipSet /\ Len(menu) \in Nat \ {0} /\ doc.map \in KeyMaps
  BY <1>1, MenuQueue DEF MenuSound, SettingsTyped
<1>3. menu' = [menu EXCEPT ![1] = e]
  BY <1>1, <1>2
<1>4. e.key = menu[1].key /\ e.value = menu[1].value /\ e.stage = "ok" /\ e.map = menu[1].map
  BY <1>2 DEF FlipSet
<1> HIDE DEF e
<1>5. /\ DOMAIN menu' = DOMAIN menu /\ menu' # <<>> /\ menu'[1] = e /\ 1 \in DOMAIN menu
      /\ \A i \in DOMAIN menu : i # 1 => menu'[i] = menu[i]
  BY <1>2, <1>3
<1>6. doc'.map = menu[1].map /\ doc'.map = [doc.map EXCEPT ![menu[1].key] = menu[1].value]
  BY <1>1 DEF MenuSound, Flips, Settings!Takes
<1>7. menu[1].key \in Keys /\ doc'.map[menu[1].key] = menu[1].value
      /\ \A k \in Keys : k # menu[1].key => doc'.map[k] = doc.map[k]
  BY <1>2, <1>6 DEF FlipSet, KeyMaps
<1>8. \A i \in DOMAIN menu : i # 1 => menu[i].stage = "queued"
  BY DEF MenuSound, Flips
<1>9. Pends(1) /\ ~Pends(1)' /\ \A i \in DOMAIN menu : i # 1 => Pends(i) /\ Pends(i)'
  BY <1>1, <1>4, <1>5, <1>8 DEF Pends
<1>10. ASSUME NEW k \in Keys, \A i \in DOMAIN menu' : menu'[i].key = k => ~Pends(i)'
       PROVE  wish[k] = doc'.map[k]
  <2>1. \A i \in DOMAIN menu : i # 1 => menu[i].key # k
    BY <1>5, <1>9, <1>10
  <2>2. CASE k = menu[1].key
    <3>1. \A j \in DOMAIN menu : j > 1 => menu[j].key # menu[1].key
      BY <2>1, <2>2
    <3>2. wish[menu[1].key] = menu[1].value
      BY <1>5, <1>9, <3>1 DEF MenuSound, Flips
    <3> QED BY <1>7, <2>2, <3>2
  <2>3. CASE k # menu[1].key
    <3>1. \A i \in DOMAIN menu : menu[i].key = k => ~Pends(i)
      BY <2>1, <2>3
    <3>2. wish[k] = doc.map[k]
      BY <3>1 DEF MenuSound, Flips
    <3> QED BY <1>7, <2>3, <3>2
  <2> QED BY <2>2, <2>3
<1>11. ASSUME NEW i \in DOMAIN menu', Pends(i)',
              \A j \in DOMAIN menu' : j > i => menu'[j].key # menu'[i].key
       PROVE  wish[menu'[i].key] = menu'[i].value
  <2>1. i \in DOMAIN menu /\ i # 1 /\ Pends(i) /\ menu'[i] = menu[i]
    BY <1>5, <1>9, <1>11
  <2>2. \A j \in DOMAIN menu : j > i => menu[j].key # menu[i].key
    <3> SUFFICES ASSUME NEW j \in DOMAIN menu, j > i PROVE menu[j].key # menu[i].key
      OBVIOUS
    <3>1. i \in Nat \ {0} /\ j \in Nat
      BY <1>2, <2>1
    <3>2. j # 1
      BY <2>1, <3>1
    <3> QED BY <1>5, <1>11, <2>1, <3>2
  <2>3. wish[menu[i].key] = menu[i].value
    BY <2>1, <2>2 DEF MenuSound, Flips
  <2> QED BY <2>1, <2>3
<1>12. \A i \in DOMAIN menu' : i # 1 => menu'[i].stage = "queued"
  BY <1>5, <1>8
<1>13. menu' # <<>> => menu'[1].stage = "ok" /\ menu'[1].map = doc'.map
  BY <1>4, <1>5, <1>6
<1> QED BY <1>1, <1>5, <1>10, <1>11, <1>12, <1>13 DEF Flips

LEMMA MenuGoesOn ==
  ASSUME Settings!ConstantsAssumption, MenuSound, Settings!MenuEnds PROVE Flips'
<1>1. /\ menu # <<>> /\ menu[1].stage \in {"ok", "refused"} /\ menu' = Tail(menu)
      /\ store' = (IF menu[1].stage = "ok" THEN menu[1].map ELSE store) /\ UNCHANGED <<doc, wish>>
  BY DEF Settings!MenuEnds
<1>2. menu[1].stage = "ok" /\ store' = doc.map
  BY <1>1 DEF MenuSound, Flips
<1>3. menu \in Seq(FlipSet) /\ Len(menu) \in Nat \ {0}
  BY <1>1, MenuQueue DEF MenuSound, SettingsTyped
<1>4. /\ menu' \in Seq(FlipSet) /\ Len(menu') = Len(menu) - 1
      /\ \A i \in 1 .. Len(menu) - 1 : menu'[i] = menu[i + 1]
  BY <1>1, MenuQueue DEF MenuSound
<1>5. DOMAIN menu = 1 .. Len(menu) /\ DOMAIN menu' = 1 .. Len(menu) - 1
  BY <1>3, <1>4
<1>6. \A i \in DOMAIN menu' : i + 1 \in DOMAIN menu /\ i + 1 # 1 /\ menu'[i] = menu[i + 1]
                              /\ Pends(i)' = Pends(i + 1)
  BY <1>3, <1>4, <1>5 DEF Pends
<1>7. ~Pends(1) /\ \A i \in DOMAIN menu : i # 1 => i - 1 \in DOMAIN menu' /\ menu'[i - 1] = menu[i]
                                                   /\ Pends(i - 1)' = Pends(i)
  BY <1>2, <1>3, <1>4, <1>5 DEF Pends
<1>8. \A i \in DOMAIN menu' : menu'[i].stage = "queued"
  BY <1>6 DEF MenuSound, Flips
<1>9. ASSUME NEW k \in Keys, \A i \in DOMAIN menu' : menu'[i].key = k => ~Pends(i)'
      PROVE  wish[k] = doc.map[k]
  <2>1. \A i \in DOMAIN menu : menu[i].key = k => ~Pends(i)
    <3> SUFFICES ASSUME NEW i \in DOMAIN menu, menu[i].key = k PROVE ~Pends(i)
      OBVIOUS
    <3>1. CASE i = 1
      BY <1>7, <3>1
    <3>2. CASE i # 1
      BY <1>7, <1>9, <3>2
    <3> QED BY <3>1, <3>2
  <2> QED BY <2>1 DEF MenuSound, Flips
<1>10. ASSUME NEW i \in DOMAIN menu', Pends(i)',
              \A j \in DOMAIN menu' : j > i => menu'[j].key # menu'[i].key
       PROVE  wish[menu'[i].key] = menu'[i].value
  <2>1. i + 1 \in DOMAIN menu /\ Pends(i + 1) /\ menu'[i] = menu[i + 1] /\ i \in Nat \ {0}
    BY <1>3, <1>5, <1>6, <1>10
  <2>2. \A j \in DOMAIN menu : j > i + 1 => menu[j].key # menu[i + 1].key
    <3> SUFFICES ASSUME NEW j \in DOMAIN menu, j > i + 1 PROVE menu[j].key # menu[i + 1].key
      OBVIOUS
    <3>1. j \in Nat /\ j # 1 /\ j - 1 > i
      BY <1>3, <1>5, <2>1
    <3>2. j - 1 \in DOMAIN menu' /\ menu'[j - 1] = menu[j]
      BY <1>7, <3>1
    <3>3. menu'[j - 1].key # menu'[i].key
      BY <1>10, <3>1, <3>2
    <3> QED BY <2>1, <3>2, <3>3
  <2>3. wish[menu[i + 1].key] = menu[i + 1].value
    BY <2>1, <2>2 DEF MenuSound, Flips
  <2> QED BY <2>1, <2>3
<1>11. menu' # <<>> => menu'[1].stage = "queued"
  BY <1>4, <1>8
<1> QED BY <1>1, <1>2, <1>8, <1>9, <1>10, <1>11 DEF Flips

LEMMA MenuFlips ==
  ASSUME Settings!ConstantsAssumption, MenuSound, NEW k \in Keys, Settings!MenuFlip(k) PROVE Flips'
<1> DEFINE e == [key |-> k, value |-> wish'[k], stage |-> "queued", map |-> store]
<1>1. Settings!Chosen(k) /\ menu' = Append(menu, e) /\ UNCHANGED <<doc, store>>
  BY DEF Settings!MenuFlip
<1>2. \A j \in Keys : j # k => wish'[j] = wish[j]
  BY <1>1, Flipped DEF MenuSound
<1>3. menu \in Seq(FlipSet) /\ Len(menu) \in Nat
  BY DEF MenuSound, SettingsTyped
<1>4. e.key = k /\ e.value = wish'[k] /\ e.stage = "queued"
  OBVIOUS
<1> HIDE DEF e
<1>0. PICK n \in Nat : n = Len(menu) + 1
  BY <1>3
<1>5. /\ n # 0 /\ menu'[n] = e /\ Len(menu') = n /\ DOMAIN menu' = 1 .. n
      /\ DOMAIN menu = 1 .. Len(menu) /\ menu' # <<>>
      /\ \A i \in DOMAIN menu : i \in DOMAIN menu' /\ menu'[i] = menu[i] /\ n > i
      /\ \A i \in DOMAIN menu' : i \in DOMAIN menu \/ i = n
  BY <1>0, <1>1, <1>3
<1>6. Pends(n)' /\ \A i \in DOMAIN menu : Pends(i)' = Pends(i)
  BY <1>4, <1>5 DEF Pends
<1>7. \A i \in DOMAIN menu : menu[i].key \in Keys
  <2>1. \A i \in DOMAIN menu : menu[i] \in FlipSet
    BY <1>3
  <2> QED BY <2>1 DEF FlipSet
<1>8. ASSUME NEW j \in Keys, \A i \in DOMAIN menu' : menu'[i].key = j => ~Pends(i)'
      PROVE  wish'[j] = doc.map[j]
  <2>1. n \in DOMAIN menu'
    BY <1>5
  <2>2. j # k
    BY <1>4, <1>5, <1>6, <1>8, <2>1
  <2>3. \A i \in DOMAIN menu : menu[i].key = j => ~Pends(i)
    BY <1>5, <1>6, <1>8
  <2>4. wish[j] = doc.map[j]
    BY <2>3 DEF MenuSound, Flips
  <2> QED BY <1>2, <2>2, <2>4
<1>9. ASSUME NEW i \in DOMAIN menu', Pends(i)',
             \A j \in DOMAIN menu' : j > i => menu'[j].key # menu'[i].key
      PROVE  wish'[menu'[i].key] = menu'[i].value
  <2>1. CASE i = n
    BY <1>4, <1>5, <2>1
  <2>2. CASE i # n
    <3>1. i \in DOMAIN menu /\ Pends(i) /\ menu'[i] = menu[i]
      BY <1>5, <1>6, <1>9, <2>2
    <3>2. \A j \in DOMAIN menu : j > i => menu[j].key # menu[i].key
      BY <1>5, <1>9, <3>1
    <3>3. wish[menu[i].key] = menu[i].value
      BY <3>1, <3>2 DEF MenuSound, Flips
    <3>4. n \in DOMAIN menu' /\ n > i
      BY <1>5, <3>1
    <3>5. menu[i].key # k
      BY <1>4, <1>5, <1>9, <3>1, <3>4
    <3> QED BY <1>2, <1>7, <3>1, <3>3, <3>5
  <2> QED BY <2>1, <2>2
<1>10. \A i \in DOMAIN menu' : i # 1 => menu'[i].stage = "queued"
  BY <1>4, <1>5 DEF MenuSound, Flips
<1>11. menu # <<>> => menu'[1] = menu[1]
  BY <1>3, <1>5
<1>12. menu = <<>> => menu'[1] = e
  BY <1>0, <1>3, <1>5
<1>13. menu'[1].stage # "ok" => store = doc.map
  BY <1>11 DEF MenuSound, Flips
<1>14. /\ menu'[1].stage # "refused"
       /\ menu'[1].stage = "ok" => menu'[1].map = doc.map
       /\ menu'[1].stage = "built" => menu'[1].map = [doc.map EXCEPT ![menu'[1].key] = menu'[1].value]
  <2>1. CASE menu = <<>>
    BY <1>4, <1>12, <2>1
  <2>2. CASE menu # <<>>
    BY <1>11, <2>2 DEF MenuSound, Flips
  <2> QED BY <2>1, <2>2
<1> QED BY <1>1, <1>8, <1>9, <1>10, <1>13, <1>14 DEF Flips

\* A refusal is remembered.
LEMMA StaysRefused ==
  ASSUME [Settings!Next]_(Settings!vars), refused PROVE refused'
BY DEF Settings!Next, Settings!vars, Settings!MountRead, Settings!Mounted, Settings!Commit,
       Settings!CommitEnds, Settings!Build, Settings!MenuWrite, Settings!MenuEnds,
       Settings!DocumentUpdated, Settings!Flip, Settings!MenuFlip, Settings!Other

LEMMA PopupNext ==
  ASSUME Undisturbed, PopupInv, [Settings!Next]_(Settings!vars) PROVE PopupInv'
<1>1. SettingsTyped'
  BY SettingsTypes DEF Undisturbed, PopupInv
<1>2. menu = <<>> /\ menu' = <<>>
  BY DEF Undisturbed, PopupInv, Settings!Next, Settings!vars, Settings!MountRead, Settings!Mounted,
         Settings!Commit, Settings!CommitEnds, Settings!Build, Settings!MenuWrite,
         Settings!MenuEnds, Settings!DocumentUpdated, Settings!Flip, Settings!MenuFlip,
         Settings!Other
<1>3. CASE refused
  BY <1>1, <1>2, <1>3, StaysRefused DEF PopupInv
<1>4. CASE refused'
  BY <1>1, <1>2, <1>4 DEF PopupInv
<1>5. CASE ~refused /\ ~refused'
  <2>1. PopupSound
    BY <1>5 DEF PopupInv, PopupSound
  <2>2. CASE Settings!MountRead \/ Settings!Mounted
    BY <1>1, <1>2, <2>1, <2>2, PopupMounts DEF PopupInv
  <2>3. CASE Settings!Commit
    BY <1>1, <1>2, <1>5, <2>1, <2>3, PopupCommits DEF PopupInv
  <2>4. CASE Settings!CommitEnds
    BY <1>1, <1>2, <2>1, <2>4, PopupEnds DEF PopupInv
  <2>5. CASE Settings!Build \/ Settings!MenuWrite \/ Settings!MenuEnds
    BY <1>2, <2>5 DEF Settings!Build, Settings!MenuWrite, Settings!MenuEnds
  <2>6. CASE Settings!DocumentUpdated \/ UNCHANGED Settings!vars
    <3>1. UNCHANGED <<doc, switches, revision, dirty, mount, commits, wish, burst>>
      BY <2>6 DEF Settings!DocumentUpdated, Settings!vars
    <3>2. Commits' /\ Reads'
      BY <2>1, <3>1 DEF PopupSound, Commits, Reads, UpToDate, Known, Took
    <3> QED BY <1>1, <1>2, <3>2 DEF PopupInv
  <2>7. ASSUME NEW k \in Keys, Settings!Flip(k) PROVE PopupInv'
    BY <1>1, <1>2, <2>1, <2>7, PopupFlips DEF PopupInv
  <2>8. ASSUME NEW k \in Keys, Settings!MenuFlip(k) PROVE FALSE
    BY <2>8 DEF Settings!MenuFlip, Undisturbed
  <2>9. ASSUME NEW k \in Keys, Settings!Other(k) PROVE PopupInv'
    BY <1>1, <1>2, <2>1, <2>9, PopupOthers DEF PopupInv
  <2> QED BY <2>2, <2>3, <2>4, <2>5, <2>6, <2>7, <2>8, <2>9 DEF Settings!Next
<1> QED BY <1>3, <1>4, <1>5

LEMMA MenuNext ==
  ASSUME Settings!ConstantsAssumption, Surfaces = {"menu"}, MenuInv,
         [Settings!Next]_(Settings!vars)
  PROVE  MenuInv'
<1>1. SettingsTyped'
  BY SettingsTypes DEF MenuInv
<1>2. commits = <<>> /\ commits' = <<>>
  BY DEF MenuInv, Settings!Next, Settings!vars, Settings!MountRead, Settings!Mounted,
         Settings!Commit, Settings!CommitEnds, Settings!Build, Settings!MenuWrite,
         Settings!MenuEnds, Settings!DocumentUpdated, Settings!Flip, Settings!MenuFlip,
         Settings!Other
<1>3. CASE refused
  BY <1>1, <1>2, <1>3, StaysRefused DEF MenuInv
<1>4. CASE refused'
  BY <1>1, <1>2, <1>4 DEF MenuInv
<1>5. CASE ~refused /\ ~refused'
  <2>1. MenuSound
    BY <1>5 DEF MenuInv, MenuSound
  <2>2. CASE Settings!Build
    BY <1>1, <1>2, <2>1, <2>2, MenuBuilds DEF MenuInv
  <2>3. CASE Settings!MenuWrite
    BY <1>1, <1>2, <1>5, <2>1, <2>3, MenuWrites DEF MenuInv
  <2>4. CASE Settings!MenuEnds
    BY <1>1, <1>2, <2>1, <2>4, MenuGoesOn DEF MenuInv
  <2>5. CASE Settings!Commit \/ Settings!CommitEnds
    BY <1>2, <2>5 DEF Settings!Commit, Settings!CommitEnds
  <2>6. CASE \/ Settings!MountRead \/ Settings!Mounted \/ Settings!DocumentUpdated
             \/ UNCHANGED Settings!vars
    <3>1. UNCHANGED <<doc, menu, wish>> /\ (store' = store \/ store' = doc.map)
      BY <2>6 DEF Settings!MountRead, Settings!Mounted, Settings!DocumentUpdated, Settings!vars
    <3>2. Flips'
      BY <2>1, <3>1 DEF MenuSound, Flips, Pends
    <3> QED BY <1>1, <1>2, <3>2 DEF MenuInv
  <2>7. ASSUME NEW k \in Keys, Settings!Flip(k) \/ Settings!Other(k) PROVE FALSE
    BY <2>7 DEF Settings!Flip, Settings!Other
  <2>8. ASSUME NEW k \in Keys, Settings!MenuFlip(k) PROVE MenuInv'
    BY <1>1, <1>2, <2>1, <2>8, MenuFlips DEF MenuInv
  <2> QED BY <2>2, <2>3, <2>4, <2>5, <2>6, <2>7, <2>8 DEF Settings!Next
<1> QED BY <1>3, <1>4, <1>5

LEMMA SettingsBegin ==
  ASSUME Settings!ConstantsAssumption, Settings!Init
  PROVE  SettingsTyped /\ Commits /\ Reads /\ Flips /\ commits = <<>> /\ menu = <<>>
<1> DEFINE off == [k \in Keys |-> FALSE]
<1>1. /\ doc = [revision |-> 0, map |-> off] /\ store = off /\ switches = off /\ wish = off
      /\ revision = None /\ dirty = FALSE /\ burst = FALSE
      /\ mount = [stage |-> "asked", revision |-> 0, map |-> off]
      /\ commits = <<>> /\ menu = <<>> /\ toggles = 0 /\ refused = FALSE
  BY DEF Settings!Init
<1>2. off \in KeyMaps
  BY DEF KeyMaps
<1> HIDE DEF off
<1>3. SettingsTyped
  <2>1. doc \in [revision : Nat, map : KeyMaps]
    BY <1>1, <1>2
  <2>2. mount \in [stage : {"asked", "read", "over"}, revision : Nat, map : KeyMaps]
    BY <1>1, <1>2
  <2>3. commits \in Seq(CommitSet) /\ menu \in Seq(FlipSet)
    BY <1>1
  <2>4. dirty \in BOOLEAN /\ burst \in BOOLEAN /\ refused \in BOOLEAN
    BY <1>1
  <2> QED BY <1>1, <1>2, <2>1, <2>2, <2>3, <2>4 DEF SettingsTyped
<1>4. ~Took /\ Known = None
  BY <1>1 DEF Took, Known
<1>5. Commits
  BY <1>1, <1>4 DEF Commits, UpToDate
<1>6. Reads
  BY <1>1, <1>4 DEF Reads, UpToDate
<1>7. Flips
  BY <1>1 DEF Flips
<1> QED BY <1>1, <1>3, <1>5, <1>6, <1>7

\* "Two same-tick writes would otherwise both spread the stale map and the later
\* patch would drop the earlier key" (plugin-settings.ts): for the menus alone, and
\* for the popup beside other pages where no burst is resumed after its first answer
\* and, if there are others, nothing is flipped before the first read.
THEOREM KeepsTogglesHolds ==
  ASSUME Settings!ConstantsAssumption,
         \/ Surfaces = {"menu"}
         \/ /\ "menu" \notin Surfaces /\ ~Bursts
            /\ ~("other" \in Surfaces /\ EarlyFlips)
  PROVE  Settings!Spec => []Settings!KeepsToggles
<1>1. CASE Surfaces = {"menu"}
  <2>1. Settings!Init => MenuInv
    BY SettingsBegin DEF MenuInv
  <2>2. MenuInv /\ [Settings!Next]_(Settings!vars) => MenuInv'
    BY <1>1, MenuNext
  <2>3. MenuInv => Settings!KeepsToggles
    <3> SUFFICES ASSUME MenuInv, menu = <<>>, ~refused PROVE doc.map = wish
      BY DEF Settings!KeepsToggles
    <3>1. Flips /\ doc.map \in KeyMaps /\ wish \in KeyMaps
      BY DEF MenuInv, SettingsTyped
    <3>2. \A k \in Keys : wish[k] = doc.map[k]
      BY <3>1 DEF Flips
    <3> QED BY <3>1, <3>2 DEF KeyMaps
  <2> QED BY <2>1, <2>2, <2>3, PTL DEF Settings!Spec
<1>2. CASE Undisturbed
  <2>1. Settings!Init => PopupInv
    BY SettingsBegin DEF PopupInv
  <2>2. PopupInv /\ [Settings!Next]_(Settings!vars) => PopupInv'
    BY <1>2, PopupNext
  <2>3. PopupInv => Settings!KeepsToggles
    BY DEF PopupInv, Commits, Settings!KeepsToggles
  <2> QED BY <2>1, <2>2, <2>3, PTL DEF Settings!Spec
<1> QED BY <1>1, <1>2 DEF Undisturbed

-----------------------------------------------------------------------------
(* A lazy chunk (ChunkLoader).  What the cache holds is of the script that  *)
(* was on disk since, as long as the disk is quiet while anything is in     *)
(* flight (Kept); between two sweeps an opener has what the cache holds, or *)
(* a load that failed (Shared).                                             *)

CONSTANTS Openers, Races, LateFails, MaxEdits, MaxSweeps, MaxFailures
VARIABLES script, cached, tracked, etag, load, opener, barrier, sweep, compared, failures

Chunk == INSTANCE ChunkLoader

LoadSet == [stage : {"none", "fetching", "making", "done", "failed"}, of : Nat, head : BOOLEAN]
CallSet == [stage : {"idle", "waiting", "sharing"}, waits : Nat, shares : Openers \cup {None},
            floor : Nat, turn : Nat]

ChunkTyped ==
  /\ script \in Nat /\ cached \in Openers \cup {None} /\ tracked \in BOOLEAN
  /\ etag \in Nat \cup {None} /\ compared \in Nat
  /\ load \in [Openers -> LoadSet] /\ opener \in [Openers -> CallSet]
  /\ barrier \in Nat /\ sweep \in [Chunk!Sweeps -> {"none", "asking", "done"}]

\* A call and the load it began: who waits or has not called shares nothing, and a
\* load is begun by a call that shares it.
Calls == \A o \in Openers :
  /\ opener[o].stage = "sharing" <=> opener[o].shares # None
  /\ opener[o].stage = "waiting" <=> opener[o].waits # 0
  /\ load[o].stage # "none" => opener[o].shares = o
  /\ load[o].stage = "none" => ~load[o].head

Ran(o) == load[o].stage = "making" \/ load[o].stage = "done"
Flying(o) == load[o].stage = "fetching" \/ load[o].stage = "making" \/ load[o].head

\* What is in flight is of the script on disk.
InFlight == \A o \in Openers :
  /\ load[o].stage = "making" \/ load[o].head => load[o].of = script
  /\ load[o].head => load[o].stage = "done"

\* What the cache holds is not older than the ETag recorded, nor, when no sweep is
\* under way, than what the last one compared with.
Kept ==
  cached # None =>
    /\ load[cached].stage # "none" /\ load[cached].stage # "failed"
    /\ Ran(cached) =>
         /\ (\E o \in Openers : Flying(o)) => load[cached].of = script
         /\ etag # None => load[cached].of >= etag
         /\ barrier = 0 => load[cached].of >= compared

\* What was compared or recorded was on disk, and one sweep is under way at most.
OneSweep ==
  /\ compared <= script /\ (etag # None => etag <= script)
  /\ \A s \in Chunk!Sweeps : sweep[s] = "asking" <=> barrier = s

\* What an opener shares is not older than its floor.
Fresh == \A o \in Openers :
  /\ opener[o].floor <= script
  /\ opener[o].stage = "sharing" =>
       /\ load[opener[o].shares].stage # "none"
       /\ Ran(opener[o].shares) => load[opener[o].shares].of >= opener[o].floor

\* Since the last sweep, it is what the cache holds.
Shared == \A o \in Openers : opener[o].stage = "sharing" =>
  /\ opener[o].turn <= Chunk!Turns
  /\ opener[o].turn = Chunk!Turns =>
       opener[o].shares = cached \/ load[opener[o].shares].stage = "failed"

ChunkInv ==
  ChunkTyped /\ Calls /\ InFlight /\ Kept /\ OneSweep /\ Fresh /\ Shared /\ Chunk!OneInstance

\* How many sweeps began and ended is a number, and one more ending is one more.
LEMMA TurnsType ==
  ASSUME Chunk!ConstantsAssumption PROVE Chunk!Turns \in Nat
<1>1. \A S : Chunk!Cardinality(S) = Cardinality(S)
  BY DEF Chunk!Cardinality, Cardinality
<1>2. IsFiniteSet(Chunk!Sweeps)
  BY FS_Interval DEF Chunk!Sweeps, Chunk!ConstantsAssumption
<1>3. \A S \in SUBSET Chunk!Sweeps : Cardinality(S) \in Nat
  BY <1>2, FS_Subset, FS_CardinalityType
<1>4. /\ {s \in Chunk!Sweeps : sweep[s] # "none"} \in SUBSET Chunk!Sweeps
      /\ {s \in Chunk!Sweeps : sweep[s] = "done"} \in SUBSET Chunk!Sweeps
  OBVIOUS
<1>5. Cardinality({s \in Chunk!Sweeps : sweep[s] # "none"}) \in Nat
  BY <1>3, <1>4
<1>6. Cardinality({s \in Chunk!Sweeps : sweep[s] = "done"}) \in Nat
  BY <1>3, <1>4
<1> QED BY <1>1, <1>5, <1>6 DEF Chunk!Turns

LEMMA TurnsSame ==
  ASSUME sweep' = sweep PROVE Chunk!Turns' = Chunk!Turns
BY DEF Chunk!Turns

LEMMA TurnsGrow ==
  ASSUME Chunk!ConstantsAssumption, ChunkTyped, NEW s \in Chunk!Sweeps, NEW stage,
         sweep' = [sweep EXCEPT ![s] = stage],
         \/ sweep[s] = "none" /\ (stage = "asking" \/ stage = "done")
         \/ sweep[s] = "asking" /\ stage = "done"
  PROVE  /\ Chunk!Turns' > Chunk!Turns /\ Chunk!Turns' \in Nat
         /\ sweep[s] = "asking" => Chunk!Turns' = Chunk!Turns + 1
<1>1. \A S : Chunk!Cardinality(S) = Cardinality(S)
  BY DEF Chunk!Cardinality, Cardinality
<1>2. IsFiniteSet(Chunk!Sweeps)
  BY FS_Interval DEF Chunk!Sweeps, Chunk!ConstantsAssumption
<1> DEFINE A == {r \in Chunk!Sweeps : sweep[r] # "none"}
           B == {r \in Chunk!Sweeps : sweep[r] = "done"}
           P == {r \in Chunk!Sweeps : sweep'[r] # "none"}
           Q == {r \in Chunk!Sweeps : sweep'[r] = "done"}
<1>3. Chunk!Turns = Cardinality(A) + Cardinality(B) /\ Chunk!Turns' = Cardinality(P) + Cardinality(Q)
  BY <1>1 DEF Chunk!Turns
<1>4. IsFiniteSet(A) /\ IsFiniteSet(B)
  BY <1>2, FS_Subset
<1>5. sweep'[s] = stage /\ \A r \in Chunk!Sweeps : r # s => sweep'[r] = sweep[r]
  BY DEF ChunkTyped
<1>6. P = A \cup {s} /\ (Q = B \/ Q = B \cup {s})
  BY <1>5
<1>7. sweep[s] = "none" => s \notin A
  OBVIOUS
<1>8. sweep[s] = "asking" => P = A /\ Q = B \cup {s} /\ s \notin B
  BY <1>5, <1>6
<1> HIDE DEF A, B, P, Q
<1>9. Cardinality(A) \in Nat /\ Cardinality(B) \in Nat
  BY <1>4, FS_CardinalityType
<1>10. /\ s \notin A => Cardinality(A \cup {s}) = Cardinality(A) + 1
       /\ s \notin B => Cardinality(B \cup {s}) = Cardinality(B) + 1
  BY <1>4, FS_AddElement
<1>11. s \in B => B \cup {s} = B
  OBVIOUS
<1>12. CASE sweep[s] = "none"
  <2>1. Cardinality(P) = Cardinality(A) + 1
    BY <1>6, <1>7, <1>10, <1>12
  <2>2. Cardinality(Q) = Cardinality(B) \/ Cardinality(Q) = Cardinality(B) + 1
    BY <1>6, <1>10, <1>11
  <2> QED BY <1>3, <1>9, <1>12, <2>1, <2>2
<1>13. CASE sweep[s] = "asking"
  <2>1. Cardinality(P) = Cardinality(A) /\ Cardinality(Q) = Cardinality(B) + 1
    BY <1>8, <1>10, <1>13
  <2> QED BY <1>3, <1>9, <2>1
<1> QED BY <1>12, <1>13

\* Those who take what the cache holds share what it holds afterwards; a load that
\* begins is of one of them, who had begun none.
LEMMA Taken ==
  ASSUME Chunk!ConstantsAssumption, ChunkTyped, Calls, NEW S \in SUBSET Openers,
         \A o \in S : opener[o].shares = None, NEW kept \in {None, cached}, NEW turns \in Nat,
         Chunk!Take(S, kept, turns)
  PROVE  /\ opener' \in [Openers -> CallSet] /\ load' \in [Openers -> LoadSet]
         /\ cached' \in Openers \cup {None}
         /\ \A o \in Openers : o \notin S => opener'[o] = opener[o]
         /\ \A o \in S : /\ opener'[o].stage = "sharing" /\ opener'[o].waits = 0
                         /\ opener'[o].shares = cached' /\ cached' # None /\ opener'[o].turn = turns
                         /\ opener'[o].floor = IF opener[o] = Chunk!NoCall THEN compared
                                               ELSE opener[o].floor
         /\ kept # None => cached' = kept /\ load' = load
         /\ kept = None /\ S = {} => cached' = None /\ load' = load
         /\ kept = None /\ S # {} =>
              /\ cached' \in S /\ load[cached'].stage = "none"
              /\ load'[cached'].stage = "fetching" /\ ~load'[cached'].head
              /\ \A o \in Openers : o # cached' => load'[o] = load[o]
<1>0. None \notin Openers
  BY DEF Chunk!ConstantsAssumption
<1>1. CASE S = {}
  <2>1. cached' = kept /\ UNCHANGED <<load, opener>>
    BY <1>1 DEF Chunk!Take
  <2> QED BY <1>1, <2>1 DEF ChunkTyped
<1>2. CASE S # {}
  <2>1. PICK first \in (IF kept = None THEN S ELSE {kept}) :
          /\ opener' = [o \in Openers |->
               IF o \in S
               THEN [stage |-> "sharing", waits |-> 0, shares |-> first, turn |-> turns,
                     floor |-> IF opener[o] = Chunk!NoCall THEN compared ELSE opener[o].floor]
               ELSE opener[o]]
          /\ load' = IF kept = None THEN [load EXCEPT ![first].stage = "fetching"] ELSE load
          /\ cached' = first
    BY <1>2 DEF Chunk!Take
  <2>2. first \in Openers /\ first # None
    BY <1>0, <2>1 DEF ChunkTyped
  <2>3. /\ \A o \in Openers : o \notin S => opener'[o] = opener[o]
        /\ \A o \in S : /\ opener'[o].stage = "sharing" /\ opener'[o].waits = 0
                        /\ opener'[o].shares = first /\ opener'[o].turn = turns
                        /\ opener'[o].floor = IF opener[o] = Chunk!NoCall THEN compared
                                              ELSE opener[o].floor
    BY <2>1
  <2>4. opener' \in [Openers -> CallSet]
    <3>1. \A o \in Openers : opener[o] \in CallSet
      BY DEF ChunkTyped
    <3>2. \A o \in Openers : opener[o].floor \in Nat
      BY <3>1 DEF CallSet
    <3>3. ASSUME NEW o \in Openers
          PROVE  [stage |-> "sharing", waits |-> 0, shares |-> first, turn |-> turns,
                  floor |-> IF opener[o] = Chunk!NoCall THEN compared ELSE opener[o].floor]
                   \in CallSet
      BY <2>2, <3>2 DEF CallSet, ChunkTyped
    <3> QED BY <2>1, <3>1, <3>3
  <2>5. CASE kept # None
    BY <1>2, <2>1, <2>2, <2>3, <2>4, <2>5 DEF ChunkTyped
  <2>6. CASE kept = None
    <3>1. first \in S /\ load' = [load EXCEPT ![first].stage = "fetching"]
      BY <2>1, <2>6
    <3>2. opener[first].shares = None /\ first # None
      BY <2>2, <3>1
    <3>3. load[first].stage = "none" /\ ~load[first].head
      BY <2>2, <3>2 DEF Calls
    <3>4. load[first] \in LoadSet
      BY <2>2 DEF ChunkTyped
    <3>5. /\ load'[first].stage = "fetching" /\ load'[first].head = load[first].head
          /\ \A o \in Openers : o # first => load'[o] = load[o]
      BY <2>2, <3>1, <3>4 DEF ChunkTyped, LoadSet
    <3>6. load' \in [Openers -> LoadSet]
      BY <2>2, <3>1, <3>4 DEF ChunkTyped, LoadSet
    <3>7. cached' = first
      BY <2>1
    <3> QED BY <1>2, <2>2, <2>3, <2>4, <2>6, <3>1, <3>3, <3>5, <3>6, <3>7
  <2> QED BY <2>5, <2>6
<1> QED BY <1>1, <1>2

\* Whoever shared before the last sweep still does, and a failed load stays failed.
LEMMA InstanceKept ==
  ASSUME ChunkTyped, Chunk!OneInstance, Shared', Chunk!Turns \in Nat, Chunk!Turns' \in Nat,
         \A o \in Openers : /\ opener[o].stage = "sharing" => opener[o].shares \in Openers
                            /\ \/ opener'[o] = opener[o]
                               \/ opener'[o].stage # "sharing"
                               \/ opener'[o].turn = Chunk!Turns',
         \A o \in Openers : load[o].stage = "failed" => load'[o].stage = "failed"
  PROVE  Chunk!OneInstance'
<1> SUFFICES ASSUME NEW o \in Openers, NEW p \in Openers,
                    opener'[o].stage = "sharing", opener'[p].stage = "sharing",
                    opener'[o].turn = opener'[p].turn, opener'[o].shares # opener'[p].shares
             PROVE  \E q \in {o, p} : load'[opener'[q].shares].stage = "failed"
  BY DEF Chunk!OneInstance
<1>1. CASE opener'[o].turn = Chunk!Turns'
  <2>1. opener'[o].shares = cached' \/ load'[opener'[o].shares].stage = "failed"
    BY <1>1 DEF Shared
  <2>2. opener'[p].shares = cached' \/ load'[opener'[p].shares].stage = "failed"
    BY <1>1 DEF Shared
  <2> QED BY <2>1, <2>2
<1>2. CASE opener'[o].turn # Chunk!Turns'
  <2>1. opener'[o] = opener[o] /\ opener'[p] = opener[p]
    BY <1>2
  <2>2. PICK q \in {o, p} : load[opener[q].shares].stage = "failed"
    BY <2>1 DEF Chunk!OneInstance
  <2>3. opener[q].shares \in Openers /\ opener'[q] = opener[q]
    BY <2>1, <2>2
  <2> QED BY <2>2, <2>3
<1> QED BY <1>1, <1>2

\* A call that shares shares the load of a call.
LEMMA SharesCall ==
  ASSUME ChunkTyped, Calls, NEW o \in Openers, opener[o].stage = "sharing"
  PROVE  opener[o].shares \in Openers
BY DEF ChunkTyped, CallSet, Calls

\* Some take what the cache holds, or begin a load if it is told to hold nothing.
LEMMA TakeKeeps ==
  ASSUME Chunk!ConstantsAssumption, ChunkInv, NEW S \in SUBSET Openers,
         \A o \in S : opener[o].shares = None, NEW kept \in {None, cached}, NEW turns \in Nat,
         Chunk!Take(S, kept, turns),
         turns = Chunk!Turns', turns >= Chunk!Turns, turns = Chunk!Turns => kept = cached,
         script' = script, compared' = compared, tracked' \in BOOLEAN, etag' \in {etag, None},
         sweep' \in [Chunk!Sweeps -> {"none", "asking", "done"}], barrier' \in Nat, OneSweep',
         kept # None /\ Ran(kept) =>
           load[kept].of >= compared /\ \A o \in S : load[kept].of >= opener[o].floor
  PROVE  ChunkInv'
<1>0. /\ ChunkTyped /\ Calls /\ InFlight /\ Kept /\ OneSweep /\ Fresh /\ Shared
      /\ Chunk!OneInstance /\ None \notin Openers /\ Chunk!Turns \in Nat
  BY TurnsType DEF ChunkInv, Chunk!ConstantsAssumption
<1>1. /\ opener' \in [Openers -> CallSet] /\ load' \in [Openers -> LoadSet]
      /\ cached' \in Openers \cup {None}
      /\ \A o \in Openers : o \notin S => opener'[o] = opener[o]
      /\ \A o \in S : /\ opener'[o].stage = "sharing" /\ opener'[o].waits = 0
                      /\ opener'[o].shares = cached' /\ cached' # None /\ opener'[o].turn = turns
                      /\ opener'[o].floor = IF opener[o] = Chunk!NoCall THEN compared
                                            ELSE opener[o].floor
      /\ kept # None => cached' = kept /\ load' = load
      /\ kept = None /\ S = {} => cached' = None /\ load' = load
      /\ kept = None /\ S # {} =>
           /\ cached' \in S /\ load[cached'].stage = "none"
           /\ load'[cached'].stage = "fetching" /\ ~load'[cached'].head
           /\ \A o \in Openers : o # cached' => load'[o] = load[o]
  BY SMTT(40), <1>0, Taken
\* A load is the same, or begins.
<1>2. \A o \in Openers : \/ load'[o] = load[o]
                         \/ /\ kept = None /\ o = cached' /\ o \in S /\ load[o].stage = "none"
                            /\ load'[o].stage = "fetching" /\ ~load'[o].head
  BY <1>1
<1>3. ChunkTyped'
  BY <1>0, <1>1 DEF ChunkTyped
<1>4. Calls'
  <2> SUFFICES ASSUME NEW o \in Openers
               PROVE  /\ opener'[o].stage = "sharing" <=> opener'[o].shares # None
                      /\ opener'[o].stage = "waiting" <=> opener'[o].waits # 0
                      /\ load'[o].stage # "none" => opener'[o].shares = o
                      /\ load'[o].stage = "none" => ~load'[o].head
    BY DEF Calls
  <2>1. CASE o \in S
    <3>1. opener'[o].stage = "sharing" /\ opener'[o].shares # None /\ opener'[o].waits = 0
          /\ opener'[o].shares = cached'
      BY <1>1, <2>1
    <3>2. load[o].stage = "none" /\ ~load[o].head
      BY <1>0, <2>1 DEF Calls
    <3> QED BY <1>2, <3>1, <3>2
  <2>2. CASE o \notin S
    <3>1. opener'[o] = opener[o] /\ load'[o] = load[o]
      BY <1>1, <1>2, <2>2
    <3> QED BY <1>0, <3>1 DEF Calls
  <2> QED BY <2>1, <2>2
<1>5. InFlight'
  BY <1>0, <1>2 DEF InFlight
<1>6. Kept'
  <2>1. CASE kept # None
    <3>1. cached' = cached /\ load' = load /\ cached # None /\ kept = cached
      BY <1>1, <2>1
    <3> QED BY <1>0, <3>1 DEF Kept, Ran, Flying
  <2>2. CASE kept = None
    <3>1. cached' = None \/ load'[cached'].stage = "fetching"
      BY <1>1, <2>2
    <3> QED BY <3>1 DEF Kept, Ran
  <2> QED BY <2>1, <2>2
<1>7. Fresh'
  <2> SUFFICES ASSUME NEW o \in Openers
               PROVE  /\ opener'[o].floor <= script
                      /\ opener'[o].stage = "sharing" =>
                           /\ load'[opener'[o].shares].stage # "none"
                           /\ Ran(opener[o].shares)' =>
                                load'[opener'[o].shares].of >= opener'[o].floor
    BY DEF Fresh
  <2>1. CASE o \in S
    <3>1. opener'[o].shares = cached' /\ (opener'[o].floor = compared \/ opener'[o].floor = opener[o].floor)
      BY <1>1, <2>1
    <3>2. opener'[o].floor <= script
      BY <1>0, <3>1 DEF OneSweep, Fresh
    <3>3. CASE kept = None
      BY <1>1, <2>1, <3>1, <3>2, <3>3 DEF Ran
    <3>4. CASE kept # None
      <4>1. cached' = kept /\ load' = load /\ kept = cached
        BY <1>1, <3>4
      <4>2. load[kept].stage # "none"
        BY <1>0, <3>4, <4>1 DEF Kept
      <4>3. Ran(kept) => load[kept].of >= opener'[o].floor
        BY <2>1, <3>1, <3>4
      <4> QED BY <3>1, <3>2, <4>1, <4>2, <4>3 DEF Ran
    <3> QED BY <3>3, <3>4
  <2>2. CASE o \notin S
    <3>1. opener'[o] = opener[o] /\ opener[o].floor <= script
      BY <1>0, <1>1, <2>2 DEF Fresh
    <3>2. ASSUME opener[o].stage = "sharing"
          PROVE  /\ load'[opener[o].shares] = load[opener[o].shares]
                 /\ load[opener[o].shares].stage # "none"
                 /\ Ran(opener[o].shares) => load[opener[o].shares].of >= opener[o].floor
      <4>1. opener[o].shares \in Openers /\ load[opener[o].shares].stage # "none"
        BY <1>0, <3>2, SharesCall DEF Fresh
      <4> QED BY <1>0, <1>2, <3>2, <4>1 DEF Fresh
    <3> QED BY <3>1, <3>2 DEF Ran
  <2> QED BY <2>1, <2>2
<1>8. Shared'
  <2> SUFFICES ASSUME NEW o \in Openers, opener'[o].stage = "sharing"
               PROVE  /\ opener'[o].turn <= turns
                      /\ opener'[o].turn = turns =>
                           opener'[o].shares = cached' \/ load'[opener'[o].shares].stage = "failed"
    BY DEF Shared
  <2>1. CASE o \in S
    BY <1>1, <2>1
  <2>2. CASE o \notin S
    <3>1. opener'[o] = opener[o] /\ opener[o].stage = "sharing"
      BY <1>1, <2>2
    <3>2. opener[o].shares \in Openers /\ opener[o].turn <= Chunk!Turns /\ opener[o].turn \in Nat
      BY <1>0, <3>1, SharesCall DEF Shared, ChunkTyped, CallSet
    <3>3. opener[o].turn <= turns
      BY <1>0, <3>2
    <3>4. ASSUME opener[o].turn = turns
          PROVE  opener[o].shares = cached' \/ load'[opener[o].shares].stage = "failed"
      <4>1. turns = Chunk!Turns /\ kept = cached
        BY <1>0, <3>2, <3>4
      <4>2. CASE opener[o].shares = cached
        BY <1>0, <1>1, <3>2, <4>1, <4>2
      <4>3. CASE load[opener[o].shares].stage = "failed"
        BY <1>2, <3>2, <4>3
      <4> QED BY <1>0, <3>1, <3>4, <4>1, <4>2, <4>3 DEF Shared
    <3> QED BY <3>1, <3>3, <3>4
  <2> QED BY <2>1, <2>2
<1>9. Chunk!OneInstance'
  <2>1. \A o \in Openers : load[o].stage = "failed" => load'[o].stage = "failed"
    BY <1>2
  <2>2. \A o \in Openers : /\ opener[o].stage = "sharing" => opener[o].shares \in Openers
                           /\ \/ opener'[o] = opener[o]
                              \/ opener'[o].stage # "sharing"
                              \/ opener'[o].turn = Chunk!Turns'
    BY <1>0, <1>1, SharesCall
  <2>3. Chunk!Turns' \in Nat
    OBVIOUS
  <2> QED BY <1>0, <1>8, <2>1, <2>2, <2>3, InstanceKept
<1> QED BY <1>3, <1>4, <1>5, <1>6, <1>7, <1>8, <1>9 DEF ChunkInv

\* A load moves on: it runs the script on disk or keeps the one it ran, and the ETag
\* recorded with it is of the script on disk.
LEMMA LoadMoves ==
  ASSUME Chunk!ConstantsAssumption, ChunkInv, NEW o \in Openers, NEW e \in LoadSet,
         load[o].stage # "none", e.stage # "none", load' = [load EXCEPT ![o] = e],
         UNCHANGED <<script, opener, sweep, barrier, compared>>,
         load[o].stage = "failed" => e.stage = "failed",
         e.stage = "failed" => cached' = None,
         cached' = cached \/ (cached' = None /\ cached \in {o, None} /\ e.stage = "failed"),
         tracked' \in BOOLEAN,
         etag' = None \/ etag' = etag \/ (etag' = script /\ load[o].head),
         e.of = script \/ (e.of = load[o].of /\ Ran(o)) \/ e.stage = "failed",
         e.stage = "making" \/ e.head => e.of = script, e.head => e.stage = "done",
         e.stage = "fetching" \/ e.stage = "making" \/ e.head => Flying(o)
  PROVE  ChunkInv'
<1>0. /\ ChunkTyped /\ Calls /\ InFlight /\ Kept /\ OneSweep /\ Fresh /\ Shared
      /\ Chunk!OneInstance /\ None \notin Openers /\ None \notin Nat
      /\ Chunk!Turns \in Nat /\ Chunk!Turns' = Chunk!Turns
  BY TurnsType, TurnsSame DEF ChunkInv, Chunk!ConstantsAssumption
<1>1. load'[o] = e /\ \A p \in Openers : p # o => load'[p] = load[p]
  BY <1>0 DEF ChunkTyped
<1>2. script \in Nat /\ compared \in Nat /\ (etag # None => etag \in Nat)
  BY <1>0 DEF ChunkTyped
<1>3. ChunkTyped'
  <2>1. load' \in [Openers -> LoadSet]
    BY <1>0 DEF ChunkTyped
  <2>2. etag' \in Nat \cup {None} /\ cached' \in Openers \cup {None}
    BY <1>0 DEF ChunkTyped
  <2> QED BY <1>0, <2>1, <2>2 DEF ChunkTyped
<1>4. Calls'
  <2> SUFFICES ASSUME NEW p \in Openers
               PROVE  /\ load'[p].stage # "none" => opener[p].shares = p
                      /\ load'[p].stage = "none" => ~load'[p].head
    BY <1>0 DEF Calls
  <2> QED BY <1>0, <1>1 DEF Calls
<1>5. InFlight'
  BY <1>0, <1>1 DEF InFlight
<1>6. \A p \in Openers : Flying(p)' => Flying(p)
  BY <1>1 DEF Flying
<1>7. OneSweep'
  BY <1>0, <1>2 DEF OneSweep
<1>8. Kept'
  <2> SUFFICES ASSUME cached' # None
               PROVE  /\ load'[cached].stage # "none" /\ load'[cached].stage # "failed"
                      /\ Ran(cached)' =>
                           /\ (\E p \in Openers : Flying(p)') => load'[cached].of = script
                           /\ etag' # None => load'[cached].of >= etag'
                           /\ barrier = 0 => load'[cached].of >= compared
    BY DEF Kept, Ran
  <2>1. cached' = cached /\ cached \in Openers /\ e.stage # "failed"
    BY <1>0 DEF ChunkTyped
  <2>2. load[cached].stage # "none" /\ load[cached].stage # "failed"
    BY <1>0, <2>1 DEF Kept
  <2>3. load'[cached].stage # "none" /\ load'[cached].stage # "failed"
    BY <1>1, <2>1, <2>2
  <2>4. ASSUME Ran(cached)'
        PROVE  load'[cached].of = script \/ (Ran(cached) /\ load'[cached].of = load[cached].of)
    BY <1>1, <2>1, <2>4 DEF Ran
  <2>5. ASSUME Ran(cached)', load'[cached].of = script
        PROVE  /\ etag' # None => load'[cached].of >= etag'
               /\ barrier = 0 => load'[cached].of >= compared
    BY <1>0, <1>2, <2>5 DEF OneSweep
  <2>6. ASSUME Ran(cached), load'[cached].of = load[cached].of
        PROVE  /\ (\E p \in Openers : Flying(p)') => load'[cached].of = script
               /\ etag' # None => load'[cached].of >= etag'
               /\ barrier = 0 => load'[cached].of >= compared
    <3>1. (\E p \in Openers : Flying(p)) => load[cached].of = script
      BY <1>0, <2>1, <2>6 DEF Kept
    <3>2. etag # None => load[cached].of >= etag
      BY <1>0, <2>1, <2>6 DEF Kept
    <3>3. barrier = 0 => load[cached].of >= compared
      BY <1>0, <2>1, <2>6 DEF Kept
    <3>4. load[o].head => load[cached].of = script
      BY <3>1 DEF Flying
    <3>5. etag' # None => load[cached].of >= etag'
      BY <1>2, <3>2, <3>4
    <3> QED BY <1>6, <2>6, <3>1, <3>3, <3>5
  <2> QED BY <2>3, <2>4, <2>5, <2>6
<1>9. Fresh'
  <2> SUFFICES ASSUME NEW p \in Openers, opener[p].stage = "sharing"
               PROVE  /\ load'[opener[p].shares].stage # "none"
                      /\ Ran(opener[p].shares)' => load'[opener[p].shares].of >= opener[p].floor
    BY <1>0 DEF Fresh, Ran
  <2>1. /\ opener[p].shares \in Openers /\ load[opener[p].shares].stage # "none"
        /\ opener[p].floor <= script /\ opener[p].floor \in Nat
        /\ Ran(opener[p].shares) => load[opener[p].shares].of >= opener[p].floor
    BY <1>0, SharesCall DEF Fresh, ChunkTyped, CallSet
  <2>2. CASE opener[p].shares = o
    <3>1. ASSUME Ran(o)' PROVE e.of >= opener[p].floor
      BY <1>1, <1>2, <2>1, <2>2, <3>1 DEF Ran
    <3>2. Ran(opener[p].shares)' => Ran(o)'
      BY <1>0, <2>2 DEF Ran
    <3> QED BY <1>1, <2>2, <3>1, <3>2
  <2>3. CASE opener[p].shares # o
    BY <1>1, <2>1, <2>3 DEF Ran
  <2> QED BY <2>2, <2>3
<1>10. Shared'
  <2> SUFFICES ASSUME NEW p \in Openers, opener[p].stage = "sharing"
               PROVE  /\ opener[p].turn <= Chunk!Turns
                      /\ opener[p].turn = Chunk!Turns =>
                           opener[p].shares = cached' \/ load'[opener[p].shares].stage = "failed"
    BY <1>0 DEF Shared
  <2>1. /\ opener[p].shares \in Openers /\ opener[p].turn <= Chunk!Turns
        /\ opener[p].turn = Chunk!Turns =>
             opener[p].shares = cached \/ load[opener[p].shares].stage = "failed"
    BY <1>0, SharesCall DEF Shared
  <2>2. load[opener[p].shares].stage = "failed" => load'[opener[p].shares].stage = "failed"
    BY <1>1, <2>1
  <2>3. opener[p].shares = cached =>
          opener[p].shares = cached' \/ load'[opener[p].shares].stage = "failed"
    BY <1>0, <1>1, <2>1
  <2> QED BY <2>1, <2>2, <2>3
<1>11. Chunk!OneInstance'
  <2>1. \A p \in Openers : load[p].stage = "failed" => load'[p].stage = "failed"
    BY <1>1
  <2>2. \A p \in Openers : /\ opener[p].stage = "sharing" => opener[p].shares \in Openers
                           /\ \/ opener'[p] = opener[p]
                              \/ opener'[p].stage # "sharing"
                              \/ opener'[p].turn = Chunk!Turns'
    BY <1>0, SharesCall
  <2> QED BY <1>0, <1>10, <2>1, <2>2, InstanceKept
<1> QED BY <1>3, <1>4, <1>5, <1>7, <1>8, <1>9, <1>10, <1>11 DEF ChunkInv

LEMMA LoadsGoOn ==
  ASSUME Chunk!ConstantsAssumption, ~Races, ~LateFails, ChunkInv, NEW o \in Openers,
         Chunk!Execute(o) \/ Chunk!Materialize(o) \/ Chunk!Fail(o) \/ Chunk!RecordEtag(o)
  PROVE  ChunkInv'
<1>0. load[o] \in LoadSet /\ load \in [Openers -> LoadSet] /\ script \in Nat /\ tracked \in BOOLEAN
  BY DEF ChunkInv, ChunkTyped
<1>f. /\ load[o].stage = "making" \/ load[o].head => load[o].of = script
      /\ load[o].head => load[o].stage = "done"
      /\ load[o].stage = "none" => ~load[o].head
  BY DEF ChunkInv, InFlight, Calls
<1>1. CASE Chunk!Execute(o)
  <2> DEFINE e == [load[o] EXCEPT !.stage = "making", !.of = script]
  <2>1. /\ e \in LoadSet /\ e.stage = "making" /\ e.of = script /\ e.head = load[o].head
        /\ load' = [load EXCEPT ![o] = e]
    BY <1>0, <1>1 DEF Chunk!Execute, LoadSet
  <2>2. load[o].stage = "fetching" /\ UNCHANGED <<script, cached, tracked, etag, opener, barrier, sweep, compared>>
    BY <1>1 DEF Chunk!Execute
  <2> HIDE DEF e
  <2>3. ~load[o].head /\ Flying(o)
    BY <1>f, <2>2 DEF Flying
  <2> QED BY <1>0, <2>1, <2>2, <2>3, LoadMoves
<1>2. CASE Chunk!Materialize(o)
  <2> DEFINE e == [load[o] EXCEPT !.stage = "done", !.head = (cached # None)]
  <2>1. /\ e \in LoadSet /\ e.stage = "done" /\ e.of = load[o].of
        /\ load' = [load EXCEPT ![o] = e]
    BY <1>0, <1>2 DEF Chunk!Materialize, LoadSet
  <2>2. load[o].stage = "making" /\ UNCHANGED <<script, cached, etag, opener, barrier, sweep, compared>>
        /\ tracked' \in BOOLEAN
    BY <1>0, <1>2 DEF Chunk!Materialize
  <2> HIDE DEF e
  <2>3. load[o].of = script /\ Flying(o) /\ Ran(o)
    BY <1>f, <2>2 DEF Flying, Ran
  <2> QED BY <1>0, <2>1, <2>2, <2>3, LoadMoves
<1>3. CASE Chunk!Fail(o)
  <2> DEFINE e == [load[o] EXCEPT !.stage = "failed"]
  <2>1. /\ e \in LoadSet /\ e.stage = "failed" /\ e.of = load[o].of /\ e.head = load[o].head
        /\ load' = [load EXCEPT ![o] = e]
    BY <1>0, <1>3 DEF Chunk!Fail, LoadSet
  <2>2. /\ load[o].stage = "fetching" \/ load[o].stage = "making"
        /\ cached = o \/ cached = None
        /\ cached' = None /\ tracked' = FALSE /\ etag' = None
        /\ UNCHANGED <<script, opener, barrier, sweep, compared>>
    BY <1>3 DEF Chunk!Fail
  <2> HIDE DEF e
  <2>3. ~load[o].head /\ Flying(o)
    BY <1>f, <2>2 DEF Flying
  <2>4. cached' = cached \/ (cached' = None /\ cached \in {o, None} /\ e.stage = "failed")
    BY <2>1, <2>2
  <2> QED BY <1>0, <2>1, <2>2, <2>3, <2>4, LoadMoves
<1>4. CASE Chunk!RecordEtag(o)
  <2> DEFINE e == [load[o] EXCEPT !.head = FALSE]
  <2>1. /\ e \in LoadSet /\ e.stage = load[o].stage /\ e.of = load[o].of /\ ~e.head
        /\ load' = [load EXCEPT ![o] = e]
    BY <1>0, <1>4 DEF Chunk!RecordEtag, LoadSet
  <2>2. /\ load[o].head /\ (etag' = script \/ etag' = None)
        /\ UNCHANGED <<script, cached, tracked, opener, barrier, sweep, compared>>
    BY <1>4 DEF Chunk!RecordEtag
  <2> HIDE DEF e
  <2>3. load[o].of = script /\ load[o].stage = "done" /\ Flying(o)
    BY <1>f, <2>2 DEF Flying
  <2> QED BY <1>0, <2>1, <2>2, <2>3, LoadMoves
<1> QED BY <1>1, <1>2, <1>3, <1>4

LEMMA OpenKeeps ==
  ASSUME Chunk!ConstantsAssumption, ChunkInv, NEW o \in Openers, Chunk!Open(o)
  PROVE  ChunkInv'
<1>0. /\ ChunkTyped /\ Calls /\ InFlight /\ Kept /\ OneSweep /\ Fresh /\ Shared
      /\ Chunk!OneInstance /\ None \notin Openers /\ None \notin Nat
      /\ Chunk!Turns \in Nat /\ Chunk!Turns' = Chunk!Turns
  BY TurnsType, TurnsSame DEF ChunkInv, Chunk!ConstantsAssumption, Chunk!Open
<1>1. /\ opener[o] = Chunk!NoCall
      /\ UNCHANGED <<script, tracked, etag, barrier, sweep, compared, failures>>
  BY DEF Chunk!Open
<1>2. /\ opener[o].shares = None /\ opener[o].stage = "idle" /\ opener[o].floor = 0
      /\ compared \in Nat /\ script \in Nat /\ tracked \in BOOLEAN /\ barrier \in Nat
      /\ load[o].stage = "none"
  <2>1. opener[o].shares = None /\ opener[o].stage = "idle" /\ opener[o].floor = 0
    BY <1>1 DEF Chunk!NoCall
  <2> QED BY <1>0, <2>1 DEF ChunkTyped, Calls
<1>3. CASE barrier = 0
  <2> DEFINE S == {o}
  <2>1. Chunk!Take(S, cached, Chunk!Turns)
    BY <1>3 DEF Chunk!Open
  <2>2. \A p \in S : opener[p].shares = None
    BY <1>2
  <2>3. cached # None /\ Ran(cached) =>
          load[cached].of >= compared /\ \A p \in S : load[cached].of >= opener[p].floor
    <3> SUFFICES ASSUME cached # None, Ran(cached)
                 PROVE  load[cached].of >= compared /\ load[cached].of >= 0
      BY <1>2
    <3>1. load[cached].of >= compared
      BY <1>0, <1>3 DEF Kept
    <3>2. load[cached].of \in Nat
      BY <1>0 DEF ChunkTyped, LoadSet
    <3> QED BY <3>1, <3>2
  <2>4. OneSweep'
    BY <1>0, <1>1 DEF OneSweep
  <2>5. S \in SUBSET Openers /\ cached \in {None, cached}
    OBVIOUS
  <2> HIDE DEF S
  <2>6. Chunk!Turns >= Chunk!Turns
    BY <1>0
  <2>7. sweep' \in [Chunk!Sweeps -> {"none", "asking", "done"}]
    BY <1>0, <1>1 DEF ChunkTyped
  <2> QED BY <1>0, <1>1, <1>2, <2>1, <2>2, <2>3, <2>4, <2>5, <2>6, <2>7, TakeKeeps
<1>4. CASE barrier # 0
  <2> DEFINE c == [Chunk!NoCall EXCEPT !.stage = "waiting", !.waits = barrier, !.floor = compared]
  <2>1. opener' = [opener EXCEPT ![o] = c] /\ UNCHANGED <<cached, load>>
    BY <1>4 DEF Chunk!Open
  <2>2. /\ c.stage = "waiting" /\ c.waits = barrier /\ c.floor = compared /\ c.shares = None
        /\ c \in CallSet
    BY <1>2 DEF Chunk!NoCall, CallSet
  <2> HIDE DEF c
  <2>3. opener'[o] = c /\ \A p \in Openers : p # o => opener'[p] = opener[p]
    BY <1>0, <2>1 DEF ChunkTyped
  <2>4. ChunkTyped'
    <3>1. opener' \in [Openers -> CallSet]
      BY <1>0, <2>1, <2>2 DEF ChunkTyped
    <3> QED BY <1>0, <1>1, <2>1, <3>1 DEF ChunkTyped
  <2>5. Calls'
    <3> SUFFICES ASSUME NEW p \in Openers
                 PROVE  /\ opener'[p].stage = "sharing" <=> opener'[p].shares # None
                        /\ opener'[p].stage = "waiting" <=> opener'[p].waits # 0
                        /\ load[p].stage # "none" => opener'[p].shares = p
                        /\ load[p].stage = "none" => ~load[p].head
      BY <2>1 DEF Calls
    <3>1. CASE p = o
      BY <1>0, <1>2, <1>4, <2>2, <2>3, <3>1 DEF Calls
    <3>2. CASE p # o
      BY <1>0, <2>3, <3>2 DEF Calls
    <3> QED BY <3>1, <3>2
  <2>6. InFlight' /\ Kept' /\ OneSweep'
    BY <1>0, <1>1, <2>1 DEF InFlight, Kept, OneSweep, Ran, Flying
  <2>7. \A p \in Openers : opener'[p].stage = "sharing" => p # o /\ opener'[p] = opener[p]
    BY <2>2, <2>3
  <2>8. Fresh'
    <3> SUFFICES ASSUME NEW p \in Openers
                 PROVE  /\ opener'[p].floor <= script
                        /\ opener'[p].stage = "sharing" =>
                             /\ load[opener'[p].shares].stage # "none"
                             /\ Ran(opener[p].shares)' => load[opener'[p].shares].of >= opener'[p].floor
      BY <1>1, <2>1 DEF Fresh, Ran
    <3>1. CASE p = o
      BY <1>0, <2>2, <2>3, <3>1 DEF OneSweep
    <3>2. CASE p # o
      BY <1>0, <2>1, <2>3, <3>2 DEF Fresh, Ran
    <3> QED BY <3>1, <3>2
  <2>9. Shared'
    BY <1>0, <2>1, <2>7 DEF Shared
  <2>10. Chunk!OneInstance'
    <3>1. \A p \in Openers : load[p].stage = "failed" => load'[p].stage = "failed"
      BY <2>1
    <3>2. \A p \in Openers : /\ opener[p].stage = "sharing" => opener[p].shares \in Openers
                             /\ \/ opener'[p] = opener[p]
                                \/ opener'[p].stage # "sharing"
                                \/ opener'[p].turn = Chunk!Turns'
      BY <1>0, <2>7, SharesCall
    <3> QED BY <1>0, <2>9, <3>1, <3>2, InstanceKept
  <2> QED BY <2>4, <2>5, <2>6, <2>8, <2>9, <2>10 DEF ChunkInv
<1> QED BY <1>3, <1>4

LEMMA SweepKeeps ==
  ASSUME Chunk!ConstantsAssumption, ~Races, ChunkInv, NEW s \in Chunk!Sweeps, Chunk!Sweep(s)
  PROVE  ChunkInv'
<1>0. /\ ChunkTyped /\ Calls /\ InFlight /\ Kept /\ OneSweep /\ Fresh /\ Shared
      /\ Chunk!OneInstance /\ None \notin Openers /\ None \notin Nat /\ Chunk!Turns \in Nat
  BY TurnsType DEF ChunkInv, Chunk!ConstantsAssumption
<1>1. /\ sweep[s] = "none" /\ barrier = 0 /\ compared' = script
      /\ UNCHANGED <<script, tracked, etag, load, opener>>
      /\ \/ sweep' = [sweep EXCEPT ![s] = "asking"] /\ barrier' = s /\ UNCHANGED cached
         \/ sweep' = [sweep EXCEPT ![s] = "done"] /\ barrier' = 0 /\ cached' = None
  BY DEF Chunk!Sweep
<1>2. s \in Nat \ {0} /\ \A r \in Chunk!Sweeps : r \in Nat \ {0}
  BY DEF Chunk!Sweeps
<1>3. Chunk!Turns' > Chunk!Turns /\ Chunk!Turns' \in Nat
  BY <1>0, <1>1, TurnsGrow
<1>4. /\ sweep' \in [Chunk!Sweeps -> {"none", "asking", "done"}] /\ barrier' \in Nat
      /\ \A r \in Chunk!Sweeps : r # s => sweep'[r] = sweep[r]
      /\ \/ sweep'[s] = "asking" /\ barrier' = s
         \/ sweep'[s] = "done" /\ barrier' = 0
  BY <1>0, <1>1, <1>2 DEF ChunkTyped
<1>5. script \in Nat
  BY <1>0 DEF ChunkTyped
<1>6. ChunkTyped'
  BY <1>0, <1>1, <1>4 DEF ChunkTyped
<1>7. Calls' /\ InFlight' /\ Fresh'
  BY <1>0, <1>1 DEF Calls, InFlight, Fresh, Ran
<1>8. OneSweep'
  BY <1>0, <1>1, <1>2, <1>4, <1>5 DEF OneSweep
<1>9. Kept'
  <2>1. CASE cached' = None
    BY <2>1 DEF Kept
  <2>2. CASE cached' # None
    <3>1. cached' = cached /\ barrier' # 0
      BY <1>1, <1>2, <2>2
    <3> QED BY <1>0, <1>1, <3>1 DEF Kept, Ran, Flying
  <2> QED BY <2>1, <2>2
<1>10. Shared'
  <2> SUFFICES ASSUME NEW p \in Openers, opener[p].stage = "sharing"
               PROVE  opener[p].turn <= Chunk!Turns' /\ opener[p].turn # Chunk!Turns'
    BY <1>1 DEF Shared
  <2>1. opener[p].turn \in Nat /\ opener[p].turn <= Chunk!Turns
    BY <1>0 DEF Shared, ChunkTyped, CallSet
  <2> QED BY <1>0, <1>3, <2>1
<1>11. Chunk!OneInstance'
  <2>1. \A p \in Openers : load[p].stage = "failed" => load'[p].stage = "failed"
    BY <1>1
  <2>2. \A p \in Openers : /\ opener[p].stage = "sharing" => opener[p].shares \in Openers
                           /\ \/ opener'[p] = opener[p]
                              \/ opener'[p].stage # "sharing"
                              \/ opener'[p].turn = Chunk!Turns'
    BY <1>0, <1>1, SharesCall
  <2> QED BY <1>0, <1>3, <1>10, <2>1, <2>2, InstanceKept
<1> QED BY <1>6, <1>7, <1>8, <1>9, <1>10, <1>11 DEF ChunkInv

LEMMA EndSweepKeeps ==
  ASSUME Chunk!ConstantsAssumption, ~Races, ChunkInv, NEW s \in Chunk!Sweeps, Chunk!EndSweep(s)
  PROVE  ChunkInv'
<1>0. /\ ChunkTyped /\ Calls /\ InFlight /\ Kept /\ OneSweep /\ Fresh /\ Shared
      /\ Chunk!OneInstance /\ None \notin Openers /\ None \notin Nat /\ Chunk!Turns \in Nat
  BY TurnsType DEF ChunkInv, Chunk!ConstantsAssumption
<1> DEFINE S == Chunk!Waiting(s)
<1>1. /\ sweep[s] = "asking" /\ sweep' = [sweep EXCEPT ![s] = "done"]
      /\ barrier' = (IF barrier = s THEN 0 ELSE barrier) /\ UNCHANGED <<script, compared>>
      /\ \/ etag = script /\ Chunk!Take(S, cached, Chunk!Turns + 1) /\ UNCHANGED <<tracked, etag>>
         \/ Chunk!Take(S, None, Chunk!Turns + 1) /\ tracked' = FALSE /\ etag' = None
  BY DEF Chunk!EndSweep
<1>2. s \in Nat \ {0} /\ \A r \in Chunk!Sweeps : r \in Nat \ {0}
  BY DEF Chunk!Sweeps
<1>3. barrier = s /\ barrier' = 0
  BY <1>0, <1>1 DEF OneSweep
<1>4. Chunk!Turns' = Chunk!Turns + 1 /\ Chunk!Turns' \in Nat
  BY <1>0, <1>1, TurnsGrow
<1>5. /\ sweep' \in [Chunk!Sweeps -> {"none", "asking", "done"}]
      /\ \A r \in Chunk!Sweeps : sweep'[r] # "asking"
  BY <1>0, <1>1, <1>3 DEF ChunkTyped, OneSweep
<1>6. OneSweep'
  <2>1. compared' <= script' /\ (etag' # None => etag' <= script')
    BY <1>0, <1>1 DEF OneSweep
  <2>2. \A r \in Chunk!Sweeps : ~(sweep'[r] = "asking") /\ ~(barrier' = r)
    BY <1>2, <1>3, <1>5
  <2> QED BY <2>1, <2>2 DEF OneSweep
<1>7. S \in SUBSET Openers /\ \A o \in S : opener[o].shares = None
  <2>1. \A o \in S : o \in Openers /\ opener[o].waits # 0
    BY <1>2 DEF Chunk!Waiting
  <2>2. \A o \in S : o \in Openers /\ opener[o].stage # "sharing"
    BY <1>0, <2>1 DEF Calls
  <2> QED BY <1>0, <2>2 DEF Calls
<1> HIDE DEF S
<1> DEFINE turns == Chunk!Turns + 1
<1>8. turns \in Nat /\ turns = Chunk!Turns' /\ turns >= Chunk!Turns /\ turns # Chunk!Turns
  BY <1>0, <1>4
<1>9. CASE etag = script /\ Chunk!Take(S, cached, turns) /\ UNCHANGED <<tracked, etag>>
  <2>1. cached # None /\ Ran(cached) =>
          load[cached].of >= compared /\ \A p \in S : load[cached].of >= opener[p].floor
    <3> SUFFICES ASSUME cached # None, Ran(cached), NEW p \in S
                 PROVE  load[cached].of >= opener[p].floor
      <4>1. ASSUME cached # None, Ran(cached) PROVE load[cached].of >= compared
        <5>1. load[cached].of >= script /\ load[cached].of \in Nat /\ compared \in Nat /\ script \in Nat
          BY <1>0, <1>9, <4>1 DEF Kept, ChunkTyped, LoadSet
        <5>2. compared <= script
          BY <1>0 DEF OneSweep
        <5> QED BY <5>1, <5>2
      <4> QED BY <4>1
    <3>1. load[cached].of >= script /\ load[cached].of \in Nat /\ script \in Nat
      BY <1>0, <1>9 DEF Kept, ChunkTyped, LoadSet
    <3>2. opener[p].floor <= script /\ opener[p].floor \in Nat
      BY <1>0, <1>7 DEF Fresh, ChunkTyped, CallSet
    <3> QED BY <3>1, <3>2
  <2>2. tracked' \in BOOLEAN /\ etag' \in {etag, None} /\ barrier' \in Nat
    BY <1>0, <1>3, <1>9 DEF ChunkTyped
  <2> HIDE DEF turns
  <2> QED BY <1>0, <1>1, <1>5, <1>6, <1>7, <1>8, <1>9, <2>1, <2>2, TakeKeeps
<1>10. CASE Chunk!Take(S, None, turns) /\ tracked' = FALSE /\ etag' = None
  <2>1. tracked' \in BOOLEAN /\ etag' \in {etag, None} /\ barrier' \in Nat
    BY <1>3, <1>10
  <2> HIDE DEF turns
  <2> DEFINE kept == None
  <2>2. Chunk!Take(S, kept, turns) /\ kept \in {None, cached} /\ kept = None
    BY <1>10
  <2> HIDE DEF kept
  <2> QED BY <1>0, <1>1, <1>5, <1>6, <1>7, <1>8, <2>1, <2>2, TakeKeeps
<1> QED BY <1>1, <1>9, <1>10

LEMMA EditKeeps ==
  ASSUME Chunk!ConstantsAssumption, ~Races, ChunkInv, Chunk!Edit
  PROVE  ChunkInv'
<1>0. /\ ChunkTyped /\ Calls /\ InFlight /\ Kept /\ OneSweep /\ Fresh /\ Shared
      /\ Chunk!OneInstance /\ None \notin Nat
  BY DEF ChunkInv, Chunk!ConstantsAssumption
<1>1. /\ \A o \in Openers : ~Flying(o)
      /\ script' = script + 1
      /\ UNCHANGED <<cached, tracked, etag, load, opener, barrier, sweep, compared>>
  BY DEF Chunk!Edit, Flying
<1>2. script \in Nat /\ compared \in Nat /\ (etag # None => etag \in Nat)
  BY <1>0 DEF ChunkTyped
<1>3. ChunkTyped'
  BY <1>0, <1>1, <1>2 DEF ChunkTyped
<1>4. Calls' /\ Kept'
  BY <1>0, <1>1 DEF Calls, Kept, Ran, Flying
<1>5. InFlight'
  BY <1>1 DEF InFlight, Flying
<1>6. OneSweep'
  BY <1>0, <1>1, <1>2 DEF OneSweep
<1>7. Fresh'
  <2>1. \A o \in Openers : opener[o].floor \in Nat
    BY <1>0 DEF ChunkTyped, CallSet
  <2> QED BY <1>0, <1>1, <1>2, <2>1 DEF Fresh, Ran
<1>8. Shared' /\ Chunk!OneInstance'
  BY <1>0, <1>1, TurnsSame DEF Shared, Chunk!OneInstance
<1> QED BY <1>3, <1>4, <1>5, <1>6, <1>7, <1>8 DEF ChunkInv

LEMMA ChunkNext ==
  ASSUME Chunk!ConstantsAssumption, ~Races, ~LateFails, ChunkInv, [Chunk!Next]_(Chunk!vars)
  PROVE  ChunkInv'
<1>1. ASSUME NEW o \in Openers,
             \/ Chunk!Open(o) \/ Chunk!Execute(o) \/ Chunk!Materialize(o) \/ Chunk!Fail(o)
             \/ Chunk!RecordEtag(o)
      PROVE  ChunkInv'
  BY <1>1, OpenKeeps, LoadsGoOn
<1>2. ASSUME NEW s \in Chunk!Sweeps, Chunk!Sweep(s) \/ Chunk!EndSweep(s) PROVE ChunkInv'
  BY <1>2, SweepKeeps, EndSweepKeeps
<1>3. CASE UNCHANGED Chunk!vars
  <2>1. /\ ChunkTyped' /\ Calls' /\ InFlight' /\ Kept' /\ OneSweep' /\ Fresh' /\ Chunk!OneInstance'
    BY <1>3 DEF Chunk!vars, ChunkInv, ChunkTyped, Calls, InFlight, Kept, OneSweep, Fresh,
                Chunk!OneInstance, Ran, Flying
  <2>2. Shared'
    BY <1>3, TurnsSame DEF Chunk!vars, ChunkInv, Shared
  <2> QED BY <2>1, <2>2 DEF ChunkInv
<1> QED BY <1>1, <1>2, <1>3, EditKeeps DEF Chunk!Next

LEMMA ChunkBegin ==
  ASSUME Chunk!ConstantsAssumption, Chunk!Init PROVE ChunkInv
<1>1. /\ script = 1 /\ cached = None /\ tracked = FALSE /\ etag = None
      /\ load = [o \in Openers |-> Chunk!NoLoad] /\ opener = [o \in Openers |-> Chunk!NoCall]
      /\ barrier = 0 /\ sweep = [s \in Chunk!Sweeps |-> "none"] /\ compared = 0
      /\ None \notin Openers
  BY DEF Chunk!Init, Chunk!ConstantsAssumption
<1>2. /\ Chunk!NoLoad \in LoadSet /\ Chunk!NoLoad.stage = "none" /\ ~Chunk!NoLoad.head
      /\ Chunk!NoCall \in CallSet /\ Chunk!NoCall.stage = "idle" /\ Chunk!NoCall.waits = 0
      /\ Chunk!NoCall.shares = None /\ Chunk!NoCall.floor = 0
  BY DEF Chunk!NoLoad, Chunk!NoCall, LoadSet, CallSet
<1>3. /\ \A o \in Openers : load[o] = Chunk!NoLoad /\ opener[o] = Chunk!NoCall
      /\ \A s \in Chunk!Sweeps : sweep[s] = "none" /\ s # 0
  BY <1>1 DEF Chunk!Sweeps
<1>4. ChunkTyped
  BY <1>1, <1>2 DEF ChunkTyped
<1>5. Calls /\ InFlight /\ Kept /\ Fresh /\ Shared /\ Chunk!OneInstance
  BY <1>1, <1>2, <1>3 DEF Calls, InFlight, Kept, Fresh, Shared, Chunk!OneInstance
<1>6. OneSweep
  BY <1>1, <1>3 DEF OneSweep
<1> QED BY <1>4, <1>5, <1>6 DEF ChunkInv

\* "A lazy tab opening mid-revalidation can never render stale exports" and "Load
\* (once)" (chunk-loader.ts), for any openers, edits and sweeps: where the script is
\* not edited while a load or its ETag is under way and sweeps do not overlap, and no
\* load fails that the cache no longer holds.
THEOREM ChunkIsFreshHolds ==
  ASSUME Chunk!ConstantsAssumption, ~Races, ~LateFails
  PROVE  Chunk!Spec => []Chunk!ChunkIsFresh
<1>1. Chunk!Init => ChunkInv
  BY ChunkBegin
<1>2. ChunkInv /\ [Chunk!Next]_(Chunk!vars) => ChunkInv'
  BY ChunkNext
<1>3. ChunkInv => Chunk!ChunkIsFresh
  BY DEF ChunkInv, Chunk!ChunkIsFresh, Chunk!NoneStale, Fresh, Ran
<1> QED BY <1>1, <1>2, <1>3, PTL DEF Chunk!Spec

-----------------------------------------------------------------------------
(* The store of every conversation's layout (SessionStore).  Every operation *)
(* that puts an entry turns one session from its entry into the next and     *)
(* drops at most one other, neither that session nor the one on screen       *)
(* (Turns, PutFacts); a pending write is then the entry, and where none is   *)
(* pending storage gives the entry back (Writes).                            *)

CONSTANTS Sessions, Cap, MaxId, Parts, ActiveDrafts, BackgroundClears
VARIABLES current, snapshot, recent, states, timers, storage, counter, latest

Store == INSTANCE SessionStore

\* A nonempty set of numbers has a least.
LEMMA Least == ASSUME NEW T \in SUBSET Nat, T # {} PROVE \E n \in T : \A m \in T : n <= m
<1>1. PICK n \in T : \A m \in T : ~(<<m, n>> \in OpToRel(<, Nat))
  BY NatLessThanWellFounded, WFMin
<1>2. \A m \in T : ~(m < n)
  BY <1>1 DEF OpToRel
<1> QED BY <1>2

\* One key less: the others stay, in their order.
LEMMA Spliced ==
  ASSUME NEW S, NEW s \in Seq(S), NEW e
  PROVE  \/ e \notin Store!ToSet(s) /\ Store!RemoveFirst(s, e) = s
         \/ \E k \in 1..Len(s), r \in Seq(S) :
              /\ s[k] = e /\ r = Store!RemoveFirst(s, e) /\ Len(r) = Len(s) - 1
              /\ \A j \in 1..Len(s)-1 : r[j] = IF j < k THEN s[j] ELSE s[j+1]
<1>1. CASE ~\E i \in 1..Len(s) : s[i] = e
  BY <1>1 DEF Store!RemoveFirst, Store!ToSet
<1>2. CASE \E i \in 1..Len(s) : s[i] = e
  <2>1. PICK I : I = {i \in 1..Len(s) : s[i] = e}
    OBVIOUS
  <2>i. I \in SUBSET Nat /\ I # {}
    BY <1>2, <2>1
  <2>2. PICK n \in I : \A m \in I : n <= m
    BY <2>i, Least
  <2>m. Store!Min(I) \in I
    BY <2>2 DEF Store!Min
  <2>3. PICK k \in 1..Len(s) : s[k] = e /\ k = Store!Min(I)
    BY <2>1, <2>m
  <2>4. Store!SelectInSeq(s, LAMBDA v : v = e) = k
    BY <2>1, <2>2, <2>3 DEF Store!SelectInSeq
  <2>5. PICK r : r = SubSeq(s, 1, k-1) \o SubSeq(s, k+1, Len(s))
    OBVIOUS
  <2>6. Store!RemoveFirst(s, e) = r
    BY <1>2, <2>4, <2>5 DEF Store!RemoveFirst, Store!RemoveAt
  <2>7. /\ r \in Seq(S) /\ Len(r) = Len(s) - 1
        /\ \A j \in 1..Len(s)-1 : r[j] = IF j < k THEN s[j] ELSE s[j+1]
    <3>1. PICK p : p = SubSeq(s, 1, k-1)
      OBVIOUS
    <3>2. PICK q : q = SubSeq(s, k+1, Len(s))
      OBVIOUS
    <3>3. p \in Seq(S) /\ Len(p) = k-1 /\ \A j \in 1..k-1 : p[j] = s[j]
      BY <3>1
    <3>4. q \in Seq(S) /\ Len(q) = Len(s) - k /\ \A j \in 1..Len(s)-k : q[j] = s[k+j]
      BY <3>2
    <3>5. r = p \o q
      BY <2>5, <3>1, <3>2
    <3>6. r \in Seq(S) /\ Len(r) = Len(s) - 1
      BY <3>3, <3>4, <3>5
    <3>7. ASSUME NEW j \in 1..Len(s)-1
          PROVE  r[j] = IF j < k THEN s[j] ELSE s[j+1]
      <4>1. CASE j < k
        BY <3>3, <3>4, <3>5, <4>1
      <4>2. CASE j >= k
        <5>1. r[j] = q[j-k+1] /\ j-k+1 \in 1..Len(s)-k
          BY <3>3, <3>4, <3>5, <4>2
        <5> QED BY <5>1, <3>4, <4>2
      <4> QED BY <4>1, <4>2
    <3> QED BY <3>6, <3>7
  <2> QED BY <2>3, <2>6, <2>7
<1> QED BY <1>1, <1>2

\* Of keys that are there once each, the rest is there once each.
LEMMA Fewer ==
  ASSUME NEW S, NEW s \in Seq(S), NEW e, Store!IsInjective(s)
  PROVE  LET r == Store!RemoveFirst(s, e) IN
         /\ r \in Seq(S) /\ Store!IsInjective(r)
         /\ \A x : x \in Store!ToSet(r) <=> x \in Store!ToSet(s) /\ x # e
         /\ Len(r) = IF e \in Store!ToSet(s) THEN Len(s) - 1 ELSE Len(s)
<1>1. CASE e \notin Store!ToSet(s) /\ Store!RemoveFirst(s, e) = s
  BY <1>1
<1>2. ASSUME NEW k \in 1..Len(s), NEW r \in Seq(S),
             s[k] = e, r = Store!RemoveFirst(s, e), Len(r) = Len(s) - 1,
             \A j \in 1..Len(s)-1 : r[j] = IF j < k THEN s[j] ELSE s[j+1]
      PROVE  /\ Store!IsInjective(r) /\ e \in Store!ToSet(s)
             /\ \A x : x \in Store!ToSet(r) <=> x \in Store!ToSet(s) /\ x # e
  <2>1. Store!IsInjective(r)
    <3> SUFFICES ASSUME NEW i \in 1..Len(s)-1, NEW j \in 1..Len(s)-1, r[i] = r[j]
                 PROVE  i = j
      BY <1>2 DEF Store!IsInjective
    <3>1. PICK a \in 1..Len(s) : a = (IF i < k THEN i ELSE i+1) /\ s[a] = r[i]
      BY <1>2
    <3>2. PICK b \in 1..Len(s) : b = (IF j < k THEN j ELSE j+1) /\ s[b] = r[j]
      BY <1>2
    <3>3. a = b
      BY <3>1, <3>2 DEF Store!IsInjective
    <3> QED BY <3>1, <3>2, <3>3
  <2>2. ASSUME NEW x
        PROVE  x \in Store!ToSet(r) <=> x \in Store!ToSet(s) /\ x # e
    <3>1. ASSUME x \in Store!ToSet(r)
          PROVE  x \in Store!ToSet(s) /\ x # e
      <4>1. PICK j \in 1..Len(s)-1 : r[j] = x
        BY <3>1, <1>2 DEF Store!ToSet
      <4>2. PICK a \in 1..Len(s) : a # k /\ s[a] = x
        BY <4>1, <1>2
      <4>3. s[a] # e
        BY SMTT(40), <4>2, <1>2 DEF Store!IsInjective
      <4> QED BY <4>2, <4>3 DEF Store!ToSet
    <3>2. ASSUME x \in Store!ToSet(s), x # e
          PROVE  x \in Store!ToSet(r)
      <4>1. PICK i \in 1..Len(s) : s[i] = x
        BY <3>2 DEF Store!ToSet
      <4>2. i # k
        BY <4>1, <3>2, <1>2
      <4>3. PICK j \in 1..Len(s)-1 : r[j] = x
        <5>1. CASE i < k
          BY <4>1, <5>1, <1>2
        <5>2. CASE i > k
          <6>1. i - 1 \in 1..Len(s)-1 /\ r[i-1] = s[i]
            BY <5>2, <1>2
          <6> QED BY <6>1, <4>1
        <5> QED BY <4>2, <5>1, <5>2
      <4> QED BY <4>3, <1>2 DEF Store!ToSet
    <3> QED BY <3>1, <3>2
  <2>3. e \in Store!ToSet(s)
    BY <1>2 DEF Store!ToSet
  <2> QED BY <2>1, <2>2, <2>3
<1> QED BY <1>1, <1>2, Spliced

\* One key more.
LEMMA OneMore ==
  ASSUME NEW S, NEW s \in Seq(S), NEW e \in S, Store!IsInjective(s), e \notin Store!ToSet(s)
  PROVE  LET r == Append(s, e) IN
         /\ r \in Seq(S) /\ Len(r) = Len(s) + 1 /\ r[Len(s)+1] = e
         /\ Store!IsInjective(r)
         /\ \A x : x \in Store!ToSet(r) <=> x \in Store!ToSet(s) \/ x = e
<1>1. PICK r : r = Append(s, e)
  OBVIOUS
<1>2. r \in Seq(S) /\ Len(r) = Len(s) + 1 /\ r[Len(s)+1] = e /\ \A i \in 1..Len(s) : r[i] = s[i]
  BY <1>1
<1>3. \A i \in 1..Len(s) : s[i] # e
  BY DEF Store!ToSet
<1>4. Store!IsInjective(r)
  BY <1>2, <1>3 DEF Store!IsInjective
<1>5. \A x : x \in Store!ToSet(r) <=> x \in Store!ToSet(s) \/ x = e
  <2>1. ASSUME NEW x, x \in Store!ToSet(r) PROVE x \in Store!ToSet(s) \/ x = e
    BY <2>1, <1>2 DEF Store!ToSet
  <2>2. ASSUME NEW x, x \in Store!ToSet(s) PROVE x \in Store!ToSet(r)
    <3>1. PICK i \in 1..Len(s) : x = s[i]
      BY <2>2 DEF Store!ToSet
    <3> QED BY <3>1, <1>2 DEF Store!ToSet
  <2>3. e \in Store!ToSet(r)
    BY <1>2 DEF Store!ToSet
  <2> QED BY <2>1, <2>2, <2>3
<1> QED BY <1>1, <1>2, <1>4, <1>5

\* What the cache holds of each session, and which is on screen.
StoreTypes ==
  /\ current \in Sessions \cup {None}
  /\ recent \in Seq(Sessions) /\ Store!IsInjective(recent) /\ Len(recent) <= Cap
  /\ \A s \in Sessions : s \in Store!ToSet(recent) <=> states[s] # None
  /\ states \in [Sessions -> Store!Copies] /\ timers \in [Sessions -> Store!Copies]
  /\ storage \in [Sessions -> Store!Copies] /\ latest \in [Sessions -> Store!Copies]
  /\ counter \in 0..MaxId

\* A tree has each of its ids once; and ids are minted above those of the tree on
\* screen.
Once(state) == Store!IsInjective(state.ids)
Minted(state, n) == \A i \in DOMAIN state.ids : state.ids[i] <= n
StoreIds ==
  /\ \A s \in Sessions : states[s] # None => Once(states[s])
  /\ \A s \in Sessions : timers[s] # None => Once(timers[s])
  /\ \A s \in Sessions : storage[s] # None => Once(storage[s])
  /\ IF current = None THEN snapshot = None
     ELSE snapshot \in Store!State /\ Once(snapshot) /\ Minted(snapshot, counter)

LEMMA States ==
  ASSUME NEW state \in Store!State
  PROVE  /\ state.ids \in Seq(1..MaxId)
         /\ \A i \in DOMAIN state.ids : state.ids[i] \in 1..MaxId
<1>1. PICK s \in Seq(1..MaxId) : s = state.ids
  BY DEF Store!State
<1>2. \A S : \A q \in Seq(S) : \A i \in DOMAIN q : q[i] \in S
  OBVIOUS
<1> QED BY <1>1, <1>2

\* The counter a tree seeds is above its ids.
LEMMA Seeds ==
  ASSUME Store!SessionStoreAssumption, NEW state \in Store!State
  PROVE  Store!MaxCounterId(state) \in 0..MaxId /\ Minted(state, Store!MaxCounterId(state))
<1>1. PICK T : T = {m \in Nat : \A i \in DOMAIN state.ids : state.ids[i] <= m}
  OBVIOUS
<1>2. MaxId \in T /\ T \in SUBSET Nat
  BY <1>1, States DEF Store!SessionStoreAssumption
<1>3. PICK n \in T : \A m \in T : n <= m
  BY <1>2, Least
<1>4. n \in 0..MaxId /\ \A i \in DOMAIN state.ids : state.ids[i] <= n
  BY <1>1, <1>2, <1>3 DEF Store!SessionStoreAssumption
<1>5. n = 0 \/ \E i \in DOMAIN state.ids : state.ids[i] = n
  <2>1. SUFFICES ASSUME n # 0 PROVE \E i \in DOMAIN state.ids : state.ids[i] = n
    OBVIOUS
  <2>2. n - 1 \in Nat /\ n - 1 \notin T
    BY <1>3, <1>4, <2>1
  <2>3. PICK i \in DOMAIN state.ids : ~(state.ids[i] <= n - 1)
    BY <1>1, <2>2
  <2>4. state.ids[i] = n
    BY <1>4, <2>2, <2>3, States
  <2> QED BY <2>4
<1>6. \E m \in 0..MaxId : /\ m = 0 \/ m \in Store!ToSet(state.ids)
                          /\ \A id \in Store!ToSet(state.ids) : id <= m
  BY <1>4, <1>5 DEF Store!ToSet
<1>7. /\ Store!MaxCounterId(state) \in 0..MaxId
      /\ \A id \in Store!ToSet(state.ids) : id <= Store!MaxCounterId(state)
  BY <1>6 DEF Store!MaxCounterId
<1> QED BY <1>7 DEF Minted, Store!ToSet

\* What the callers make of a state: another, with each id once if the new one is
\* above the rest.
LEMMA Changes ==
  ASSUME NEW state \in Store!State
  PROVE  /\ \A id \in 1..MaxId : Store!Opened(state, id) \in Store!State
         /\ \A id : Store!Closed(state, id) \in Store!State
         /\ \A next \in {Store!Marked(state), Store!Cleared(state), Store!Drafted(state),
                         Store!Diffed(state), Store!Sanitized(state)} :
              next \in Store!State /\ next.ids = state.ids
<1>1. ASSUME NEW id \in 1..MaxId PROVE Store!Opened(state, id) \in Store!State
  <2>1. Append(state.ids, id) \in Seq(1..MaxId)
    BY States
  <2> QED BY <2>1 DEF Store!Opened, Store!State
<1>2. ASSUME NEW id PROVE Store!Closed(state, id) \in Store!State
  <2>1. Store!RemoveFirst(state.ids, id) \in Seq(1..MaxId)
    BY Spliced, States
  <2> QED BY <2>1 DEF Store!Closed, Store!State
<1>3. ASSUME NEW next \in {Store!Marked(state), Store!Cleared(state), Store!Drafted(state),
                          Store!Diffed(state), Store!Sanitized(state)}
      PROVE  next \in Store!State /\ next.ids = state.ids
  BY <1>3 DEF Store!Marked, Store!Cleared, Store!Drafted, Store!Diffed, Store!Sanitized, Store!State
<1> QED BY <1>1, <1>2, <1>3

LEMMA Opens ==
  ASSUME Store!SessionStoreAssumption, NEW state \in Store!State, Once(state),
         NEW n \in Nat, n + 1 <= MaxId, Minted(state, n)
  PROVE  LET next == Store!Opened(state, n + 1)
         IN  next \in Store!State /\ Once(next) /\ Minted(next, n + 1)
<1>1. PICK s \in Seq(1..MaxId) : s = state.ids /\ Store!IsInjective(s)
  BY States DEF Once
<1>2. n + 1 \in 1..MaxId /\ n + 1 \notin Store!ToSet(s)
  BY <1>1, States DEF Store!ToSet, Minted, Store!SessionStoreAssumption
<1>3. PICK r : r = Append(s, n + 1)
  OBVIOUS
<1>4. r \in Seq(1..MaxId) /\ Store!IsInjective(r)
  BY <1>1, <1>2, <1>3, OneMore
<1>7. \A i \in DOMAIN r : r[i] <= n + 1
  <2>1. \A i \in 1..Len(s) : s[i] \in Nat /\ s[i] <= n
    BY <1>1, States DEF Minted
  <2>2. DOMAIN r = 1..Len(s)+1 /\ r[Len(s)+1] = n + 1 /\ \A i \in 1..Len(s) : r[i] = s[i]
    BY <1>2, <1>3
  <2> QED BY <2>1, <2>2
<1>5. Store!Opened(state, n + 1).ids = r
  BY <1>1, <1>3 DEF Store!Opened, Store!State
<1>6. Store!Opened(state, n + 1) \in Store!State
  BY <1>2, Changes
<1> QED BY <1>4, <1>5, <1>6, <1>7 DEF Once, Minted

LEMMA Closes ==
  ASSUME NEW state \in Store!State, Once(state), NEW n, Minted(state, n), NEW id
  PROVE  LET next == Store!Closed(state, id)
         IN  next \in Store!State /\ Once(next) /\ Minted(next, n)
<1>1. PICK s \in Seq(1..MaxId) : s = state.ids /\ Store!IsInjective(s)
  BY States DEF Once
<1>2. PICK r \in Seq(1..MaxId) : r = Store!RemoveFirst(s, id) /\ Store!IsInjective(r)
                              /\ \A x : x \in Store!ToSet(r) <=> x \in Store!ToSet(s) /\ x # id
  BY <1>1, Fewer
<1>3. \A i \in DOMAIN r : r[i] <= n
  <2>1. SUFFICES ASSUME NEW i \in DOMAIN r PROVE r[i] <= n
    OBVIOUS
  <2>2. r[i] \in Store!ToSet(s)
    BY <1>2, <2>1 DEF Store!ToSet
  <2>3. PICK j \in DOMAIN s : s[j] = r[i]
    BY <2>2 DEF Store!ToSet
  <2> QED BY <1>1, <2>3 DEF Minted
<1>4. Store!Closed(state, id).ids = r
  BY <1>1, <1>2 DEF Store!Closed, Store!State
<1> QED BY <1>2, <1>3, <1>4, Changes DEF Once, Minted

\* A session's entry, or what is loaded for it, has its ids under the counter that
\* comes with it.
LEMMA Entries ==
  ASSUME Store!SessionStoreAssumption, StoreTypes, StoreIds, NEW s \in Sessions
  PROVE  LET e == Store!Entry(s) IN
         /\ e.counter \in Nat /\ (states[s] # None \/ storage[s] # None => e.counter <= MaxId)
         /\ e.counter <= MaxId => e.state \in Store!State /\ Once(e.state)
         /\ Minted(e.state, e.counter)
         /\ states[s] # None => e.state = states[s]
         /\ states[s] = None /\ storage[s] # None => e.state = Store!Sanitized(storage[s])
<1>0. MaxId \in Nat /\ counter \in Nat
  BY DEF StoreTypes, Store!SessionStoreAssumption
<1>1. CASE states[s] # None
  <2>1. states[s] \in Store!State /\ Once(states[s])
    BY <1>1 DEF StoreTypes, StoreIds, Store!Copies
  <2>2. Store!Entry(s) = [state |-> states[s], counter |-> Store!MaxCounterId(states[s])]
    BY <1>1 DEF Store!Entry
  <2> QED BY <1>0, <1>1, <2>1, <2>2, Seeds
<1>2. CASE states[s] = None /\ storage[s] # None
  <2>1. storage[s] \in Store!State /\ Once(storage[s])
    BY <1>2 DEF StoreTypes, StoreIds, Store!Copies
  <2>2. Store!Entry(s) = [state |-> Store!Sanitized(storage[s]),
                          counter |-> Store!MaxCounterId(storage[s])]
    BY <1>2 DEF Store!Entry, Store!Loaded
  <2>3. Store!Sanitized(storage[s]) \in Store!State
        /\ Store!Sanitized(storage[s]).ids = storage[s].ids
    BY <2>1, Changes
  <2>4. /\ Store!MaxCounterId(storage[s]) \in 0..MaxId
        /\ Minted(Store!Sanitized(storage[s]), Store!MaxCounterId(storage[s]))
    BY <2>1, <2>3, Seeds DEF Minted
  <2> QED BY <1>0, <1>2, <2>1, <2>2, <2>3, <2>4 DEF Once
<1>3. CASE states[s] = None /\ storage[s] = None
  <2>1. Store!Entry(s) = [state |-> Store!DefaultState(counter + 1), counter |-> counter + 1]
    BY <1>3 DEF Store!Entry, Store!Loaded
  <2>2. Store!DefaultState(counter + 1).ids = <<counter + 1>>
    BY DEF Store!DefaultState
  <2>3. Once(Store!DefaultState(counter + 1)) /\ Minted(Store!DefaultState(counter + 1), counter + 1)
    BY <1>0, <2>2 DEF Once, Minted, Store!IsInjective
  <2>4. counter + 1 <= MaxId => Store!DefaultState(counter + 1) \in Store!State
    BY <1>0 DEF Store!DefaultState, Store!State
  <2> QED BY <1>0, <1>3, <2>1, <2>3, <2>4
<1> QED BY <1>1, <1>2, <1>3

\* The order of the keys once s is touched, the key it gives up for the bound, and
\* what is left: the one given up is neither s nor the one on screen, for there are
\* three at least then.
Orders(s, screen, order, gone, next) ==
  /\ order = Append(Store!RemoveFirst(recent, s), s)
  /\ gone = Store!Victim(order, screen) /\ next = Store!RemoveFirst(order, gone)
  /\ gone \in Sessions \cup {None} /\ gone # s /\ (screen # None => gone # screen)
  /\ gone # None => states[gone] # None
  /\ next \in Seq(Sessions) /\ Store!IsInjective(next) /\ Len(next) <= Cap
  /\ \A t \in Sessions : t \in Store!ToSet(next) <=> t = s \/ (t # gone /\ states[t] # None)

LEMMA Ordered ==
  ASSUME Store!SessionStoreAssumption, StoreTypes, NEW s \in Sessions,
         NEW screen \in Sessions \cup {None}
  PROVE  \E order, gone, next : Orders(s, screen, order, gone, next)
<1>a. PICK order : order = Append(Store!RemoveFirst(recent, s), s)
  OBVIOUS
<1>b. PICK gone : gone = Store!Victim(order, screen)
  OBVIOUS
<1>c. PICK next : next = Store!RemoveFirst(order, gone)
  OBVIOUS
<1>1. PICK rest : rest = Store!RemoveFirst(recent, s)
  OBVIOUS
<1>2. /\ rest \in Seq(Sessions) /\ Store!IsInjective(rest) /\ Len(rest) <= Cap
      /\ \A x : x \in Store!ToSet(rest) <=> x \in Store!ToSet(recent) /\ x # s
  <2>1. recent \in Seq(Sessions) /\ Store!IsInjective(recent) /\ Len(recent) <= Cap /\ Cap \in Nat
    BY DEF StoreTypes, Store!SessionStoreAssumption
  <2>2. /\ rest \in Seq(Sessions) /\ Store!IsInjective(rest)
        /\ \A x : x \in Store!ToSet(rest) <=> x \in Store!ToSet(recent) /\ x # s
        /\ Len(rest) = IF s \in Store!ToSet(recent) THEN Len(recent) - 1 ELSE Len(recent)
    BY <1>1, <2>1, Fewer
  <2>3. Len(rest) <= Cap
    BY <2>1, <2>2
  <2> QED BY <2>2, <2>3
<1>3. s \notin Store!ToSet(rest)
  BY <1>2
<1>4. /\ order \in Seq(Sessions) /\ Len(order) = Len(rest) + 1 /\ order[Len(order)] = s
      /\ Store!IsInjective(order)
      /\ \A x : x \in Store!ToSet(order) <=> x \in Store!ToSet(recent) \/ x = s
  BY <1>a, <1>1, <1>2, <1>3, OneMore
<1>5. Cap \in Nat \ {0, 1} /\ None \notin Sessions /\ Len(order) \in Nat /\ Len(order) <= Cap + 1
  BY <1>2, <1>4 DEF Store!SessionStoreAssumption
<1>6. \A t \in Sessions : t \in Store!ToSet(recent) <=> states[t] # None
  BY DEF StoreTypes
<1>8. /\ next \in Seq(Sessions) /\ Store!IsInjective(next)
      /\ \A x : x \in Store!ToSet(next) <=> x \in Store!ToSet(order) /\ x # gone
      /\ Len(next) = IF gone \in Store!ToSet(order) THEN Len(order) - 1 ELSE Len(order)
  BY <1>c, <1>4, Fewer
<1>11. /\ gone \in Sessions \cup {None} /\ gone # s /\ (screen # None => gone # screen)
       /\ (gone # None => states[gone] # None) /\ Len(next) <= Cap
       /\ \A t \in Sessions :
            t \in Store!ToSet(next) <=> t = s \/ (t # gone /\ states[t] # None)
  <2>s. CASE Len(order) <= Cap
    <3>1. gone = None
      BY <1>b, <2>s DEF Store!Victim
    <3>2. None \notin Store!ToSet(order)
      BY <1>4, <1>5 DEF Store!ToSet
    <3>3. Len(next) <= Cap
      BY <1>8, <2>s, <3>1, <3>2
    <3>4. \A t \in Sessions : t \in Store!ToSet(next) <=> t = s \/ (t # gone /\ states[t] # None)
      BY <1>4, <1>5, <1>6, <1>8, <3>1
    <3> QED BY <1>5, <3>1, <3>3, <3>4
  <2>l. CASE Len(order) > Cap
    <3>1. PICK I : I = {i \in 1..Len(order) : order[i] \in Store!Evictable(order, screen)}
      OBVIOUS
    <3>2. \A i \in 1..Len(order) : i \in I <=> order[i] # screen
      BY <3>1 DEF Store!Evictable, Store!ToSet
    <3>3. 1 \in 1..Len(order) /\ 2 \in 1..Len(order) /\ Len(order) \notin {1, 2}
      <4>1. PICK n : n = Len(order)
        OBVIOUS
      <4>2. n \in Nat /\ n >= 3
        BY <1>5, <2>l, <4>1
      <4> QED BY <4>1, <4>2
    <3>4. order[1] # order[2]
      BY <1>4, <3>3 DEF Store!IsInjective
    <3>5. PICK k \in {1, 2} : k \in I /\ \A i \in I : k <= i
      <4>1. \A i \in I : i \in Nat /\ 1 <= i
        BY <3>1
      <4>2. CASE order[1] # screen
        BY <3>2, <3>3, <4>1, <4>2
      <4>3. CASE order[1] = screen
        <5>1. 1 \notin I /\ 2 \in I
          BY <3>2, <3>3, <3>4, <4>3
        <5>2. \A i \in I : 2 <= i
          BY <4>1, <5>1
        <5> QED BY <5>1, <5>2
      <4> QED BY <4>2, <4>3
    <3>6. Store!Min(I) = k
      <4>1. \A i \in I : i \in Nat
        BY <3>1
      <4>2. Store!Min(I) \in I /\ \A i \in I : Store!Min(I) <= i
        BY <3>5 DEF Store!Min
      <4>3. PICK m : m = Store!Min(I)
        OBVIOUS
      <4>4. m \in Nat /\ m <= k /\ k <= m
        BY <3>5, <4>1, <4>2, <4>3
      <4> QED BY <4>3, <4>4
    <3>7. Store!SelectInSeq(order, LAMBDA v : v \in Store!Evictable(order, screen)) = k
      BY <3>1, <3>5, <3>6 DEF Store!SelectInSeq
    <3>8. gone = order[k] /\ k \in 1..Len(order) /\ k # Len(order)
      BY <1>b, <1>5, <2>l, <3>3, <3>5, <3>7 DEF Store!Victim
    <3>9. gone \in Sessions /\ gone # screen /\ gone # s /\ gone \in Store!ToSet(order)
      BY <1>4, <1>5, <3>2, <3>5, <3>8 DEF Store!IsInjective, Store!ToSet
    <3>10. Len(next) <= Cap
      BY <1>5, <1>8, <3>9
    <3>11. states[gone] # None
      BY <1>4, <1>6, <3>9
    <3>12. \A t \in Sessions : t \in Store!ToSet(next) <=> t = s \/ (t # gone /\ states[t] # None)
      BY <1>4, <1>6, <1>8, <3>9
    <3> QED BY <3>9, <3>10, <3>11, <3>12
  <2> QED BY <1>5, <2>s, <2>l
<1>12. Orders(s, screen, order, gone, next)
  BY <1>a, <1>b, <1>c, <1>8, <1>11 DEF Orders
<1> QED BY <1>12

\* What putting a session's state does to every session's copies.
Evicts(t) ==
  /\ states'[t] = None /\ timers'[t] = None
  /\ storage'[t] = IF timers[t] # None THEN states[t] ELSE storage[t]
Same(t) == states'[t] = states[t] /\ timers'[t] = timers[t] /\ storage'[t] = storage[t]
Puts(s, state, timer) == states'[s] = state /\ timers'[s] = timer /\ storage'[s] = storage[s]

LEMMA PutFacts ==
  ASSUME Store!SessionStoreAssumption, StoreTypes, NEW s \in Sessions, NEW state \in Store!State,
         NEW screen \in Sessions \cup {None}, NEW pending \in [Sessions -> Store!Copies],
         \A t \in Sessions \ {s} : pending[t] = timers[t],
         Store!Put(s, state, screen, pending)
  PROVE  /\ recent' \in Seq(Sessions) /\ Store!IsInjective(recent') /\ Len(recent') <= Cap
         /\ \A t \in Sessions : t \in Store!ToSet(recent') <=> states'[t] # None
         /\ states' \in [Sessions -> Store!Copies] /\ timers' \in [Sessions -> Store!Copies]
         /\ storage' \in [Sessions -> Store!Copies]
         /\ Puts(s, state, pending[s])
         /\ \A t \in Sessions \ {s} : Same(t) \/ (Evicts(t) /\ states[t] # None /\ t # screen)
<1>1. PICK order, gone, next : Orders(s, screen, order, gone, next)
  BY Ordered
<1>4. /\ order = Append(Store!RemoveFirst(recent, s), s)
      /\ gone = Store!Victim(order, screen) /\ next = Store!RemoveFirst(order, gone)
      /\ gone \in Sessions \cup {None} /\ gone # s /\ (screen # None => gone # screen)
      /\ gone # None => states[gone] # None
      /\ next \in Seq(Sessions) /\ Store!IsInjective(next) /\ Len(next) <= Cap
      /\ \A t \in Sessions : t \in Store!ToSet(next) <=> t = s \/ (t # gone /\ states[t] # None)
  BY <1>1 DEF Orders
<1>5. /\ recent' = next
      /\ states' = [t \in Sessions |-> IF t = s THEN state ELSE IF t = gone THEN None ELSE states[t]]
      /\ timers' = [t \in Sessions |-> IF t = gone THEN None ELSE pending[t]]
      /\ storage' = [t \in Sessions |-> IF t = gone /\ timers[t] # None THEN states[t] ELSE storage[t]]
  BY <1>4 DEF Store!Put, Store!Flushed
<1>6. /\ states \in [Sessions -> Store!Copies] /\ timers \in [Sessions -> Store!Copies]
      /\ storage \in [Sessions -> Store!Copies] /\ None \in Store!Copies /\ state \in Store!Copies
      /\ None \notin Sessions /\ state # None
  BY DEF StoreTypes, Store!Copies, Store!SessionStoreAssumption
<1>7. /\ states' \in [Sessions -> Store!Copies] /\ timers' \in [Sessions -> Store!Copies]
      /\ storage' \in [Sessions -> Store!Copies]
  BY <1>5, <1>6
<1>8. Puts(s, state, pending[s])
  BY <1>4, <1>5 DEF Puts
<1>9. ASSUME NEW t \in Sessions \ {s}
      PROVE  Same(t) \/ (Evicts(t) /\ states[t] # None /\ t # screen)
  <2>1. CASE t = gone
    <3>1. Evicts(t)
      BY <1>5, <2>1 DEF Evicts
    <3> QED BY <1>4, <1>6, <2>1, <3>1
  <2>2. CASE t # gone
    BY <1>5, <1>9, <2>2 DEF Same
  <2> QED BY <2>1, <2>2
<1>10. ASSUME NEW t \in Sessions PROVE t \in Store!ToSet(recent') <=> states'[t] # None
  BY <1>4, <1>5, <1>6
<1> QED BY <1>4, <1>5, <1>7, <1>8, <1>9, <1>10

\* A copy that storage would give back as it is: no diff is open in it.
Flat(c) == c = None \/ Store!Sanitized(c) = c

\* What else holds of the copies, each part where nothing in the code breaks it: the
\* published state is the entry; a pending write stores the entry, and storage gives
\* it back once none is pending; and that is what the reader made of the session.
Quiet == ~BackgroundClears /\ "diff" \notin Parts
Shown == ~ActiveDrafts => Store!SnapshotIsEntry
Pending(t) == timers[t] # None => timers[t] = states[t]
Written(t) ==
  latest[t] # None /\ timers[t] = None =>
    storage[t] # None /\ (states[t] # None => Store!Sanitized(storage[t]) = states[t])
Writes ==
  Quiet => /\ Flat(snapshot)
           /\ \A t \in Sessions : Flat(states[t]) /\ Pending(t) /\ Written(t)
AsLeft == Quiet /\ ~ActiveDrafts => Store!Transparent
StoreInv == StoreTypes /\ StoreIds /\ Shown /\ Writes /\ AsLeft

\* The state a session's change starts from is its entry, or what storage holds.
From(s, from) ==
  IF states[s] # None THEN from = states[s]
  ELSE storage[s] # None => from = Store!Sanitized(storage[s])

\* Every operation that puts an entry turns a session from one state into the next,
\* with that state's write pending, or leaves it as it is.
Turns(s, from, next, wanted, pending) ==
  /\ s \in Sessions /\ next \in Store!State /\ Once(next)
  /\ wanted \in Store!Copies /\ latest' = [latest EXCEPT ![s] = wanted]
  /\ current' \in Sessions \cup {None} /\ counter' \in 0..MaxId
  /\ IF current' = None THEN snapshot' = None
     ELSE snapshot' \in Store!State /\ Once(snapshot') /\ Minted(snapshot', counter')
  /\ pending \in [Sessions -> Store!Copies] /\ \A t \in Sessions \ {s} : pending[t] = timers[t]
  /\ pending[s] \in {timers[s], next}
  /\ Store!Put(s, next, current', pending)
  /\ ~ActiveDrafts =>
       IF current' = s THEN snapshot' = next ELSE current' = current /\ snapshot' = snapshot
  /\ Quiet =>
       /\ Flat(next) /\ Flat(snapshot')
       /\ \/ /\ pending[s] = next /\ (~ActiveDrafts => From(s, from))
             /\ latest[s] \in {None, from} => wanted = next
          \/ pending[s] = timers[s] /\ next = from /\ wanted = latest[s] /\ From(s, from)

LEMMA Turned ==
  ASSUME Store!SessionStoreAssumption, StoreInv, NEW s, NEW from, NEW next, NEW wanted, NEW pending,
         Turns(s, from, next, wanted, pending)
  PROVE  StoreInv'
<1>1. /\ s \in Sessions /\ next \in Store!State /\ current' \in Sessions \cup {None}
      /\ pending \in [Sessions -> Store!Copies] /\ \A t \in Sessions \ {s} : pending[t] = timers[t]
      /\ Store!Put(s, next, current', pending) /\ StoreTypes
  BY DEF Turns, StoreInv
<1>2. /\ recent' \in Seq(Sessions) /\ Store!IsInjective(recent') /\ Len(recent') <= Cap
      /\ \A t \in Sessions : t \in Store!ToSet(recent') <=> states'[t] # None
      /\ states' \in [Sessions -> Store!Copies] /\ timers' \in [Sessions -> Store!Copies]
      /\ storage' \in [Sessions -> Store!Copies]
      /\ Puts(s, next, pending[s])
      /\ \A t \in Sessions \ {s} : Same(t) \/ (Evicts(t) /\ states[t] # None /\ t # current')
  <2>1. PICK screen \in Sessions \cup {None} : screen = current'
    BY <1>1
  <2> QED BY <1>1, <2>1, PutFacts
<1>3. /\ latest \in [Sessions -> Store!Copies] /\ latest' = [latest EXCEPT ![s] = wanted]
      /\ wanted \in Store!Copies
  BY <1>1 DEF StoreTypes, Turns
<1>4. /\ latest'[s] = wanted /\ latest' \in [Sessions -> Store!Copies]
      /\ \A t \in Sessions \ {s} : latest'[t] = latest[t]
  BY <1>1, <1>3
<1>5. next # None /\ None \notin Sessions
  BY <1>1 DEF Store!SessionStoreAssumption
<1>6. StoreTypes'
  BY <1>2, <1>4 DEF StoreTypes, Turns, Store!ToSet, Store!IsInjective, Store!Copies, Store!State
<1>7. StoreIds'
  <2>1. ASSUME NEW t \in Sessions
        PROVE  /\ states'[t] # None => Once(states'[t])
               /\ timers'[t] # None => Once(timers'[t])
               /\ storage'[t] # None => Once(storage'[t])
    <3>1. /\ states[t] # None => Once(states[t])
          /\ timers[t] # None => Once(timers[t])
          /\ storage[t] # None => Once(storage[t])
          /\ Once(next) /\ pending[s] \in {timers[s], next}
      BY DEF StoreInv, StoreIds, Turns
    <3>2. CASE t = s
      BY <1>2, <3>1, <3>2 DEF Puts
    <3>3. CASE t # s
      <4>1. CASE Same(t)
        BY <3>1, <4>1 DEF Same
      <4>2. CASE Evicts(t) /\ states[t] # None
        BY <3>1, <4>2 DEF Evicts
      <4> QED BY <1>2, <3>3, <4>1, <4>2
    <3> QED BY <3>2, <3>3
  <2> QED BY <2>1 DEF StoreIds, Turns, Once, Minted, Store!State, Store!IsInjective
<1>8. Shown'
  <2>1. SUFFICES ASSUME ~ActiveDrafts, current' # None PROVE snapshot' = states'[current']
    BY DEF Shown, Store!SnapshotIsEntry
  <2>2. CASE current' = s
    BY <1>2, <2>1, <2>2 DEF Turns, Puts
  <2>3. CASE current' # s
    <3>1. current' = current /\ snapshot' = snapshot /\ snapshot = states[current]
      BY <2>1, <2>3 DEF Turns, StoreInv, Shown, Store!SnapshotIsEntry
    <3>2. current \in Sessions \ {s}
      BY <1>1, <2>1, <2>3, <3>1
    <3>3. states'[current] = states[current]
      BY <1>2, <3>1, <3>2 DEF Same
    <3> QED BY <3>1, <3>3
  <2> QED BY <2>2, <2>3
<1>9. Writes'
  <2>1. SUFFICES ASSUME Quiet
                 PROVE  /\ Flat(snapshot')
                        /\ \A t \in Sessions : Flat(states'[t]) /\ Pending(t)' /\ Written(t)'
    BY DEF Writes, Quiet, Flat, Store!Sanitized
  <2>2. ASSUME NEW t \in Sessions PROVE Flat(states'[t]) /\ Pending(t)' /\ Written(t)'
    <3>1. Flat(states[t]) /\ Pending(t) /\ Written(t)
      BY <2>1 DEF StoreInv, Writes
    <3>2. CASE t = s
      <4>1. Flat(next) /\ states'[t] = next /\ storage'[t] = storage[t] /\ timers'[t] = pending[s]
            /\ latest'[t] = wanted
        BY <1>2, <1>4, <2>1, <3>2 DEF Turns, Puts
      <4>2. CASE pending[s] = next
        BY <1>5, <4>1, <4>2 DEF Pending, Written
      <4>3. CASE pending[s] = timers[s] /\ next = from /\ wanted = latest[s] /\ From(s, from)
        BY <1>5, <3>1, <3>2, <4>1, <4>3 DEF Pending, Written, From
      <4> QED BY <2>1, <4>1, <4>2, <4>3 DEF Turns
    <3>3. CASE t # s
      <4>1. latest'[t] = latest[t]
        BY <1>4, <3>3
      <4>2. CASE Same(t)
        BY <3>1, <4>1, <4>2 DEF Same, Pending, Written
      <4>3. CASE Evicts(t) /\ states[t] # None
        BY <3>1, <4>1, <4>3 DEF Evicts, Pending, Written, Flat
      <4> QED BY <1>2, <3>3, <4>2, <4>3
    <3> QED BY <3>2, <3>3
  <2> QED BY <2>1, <2>2 DEF Turns
<1>10. AsLeft'
  <2>1. SUFFICES ASSUME Quiet, ~ActiveDrafts, NEW t \in Sessions, latest'[t] # None
                 PROVE  IF states'[t] # None THEN states'[t] = latest'[t]
                        ELSE storage'[t] # None /\ Store!Sanitized(storage'[t]) = latest'[t]
    BY DEF AsLeft, Quiet, Store!Transparent, Store!Sanitized
  <2>2. /\ latest[t] # None =>
             IF states[t] # None THEN states[t] = latest[t]
             ELSE storage[t] # None /\ Store!Sanitized(storage[t]) = latest[t]
        /\ Flat(states[t]) /\ Written(t)
    BY <2>1 DEF StoreInv, AsLeft, Store!Transparent, Writes
  <2>3. CASE t = s
    <3>1. states'[t] = next /\ latest'[t] = wanted
      BY <1>2, <1>4, <2>3 DEF Puts
    <3>2. From(s, from)
      BY <2>1 DEF Turns
    <3>3. latest[s] \in {None, from}
      BY <2>2, <2>3, <3>2 DEF From
    <3>4. wanted = next
      BY <2>1, <2>3, <3>1, <3>3 DEF Turns
    <3> QED BY <1>5, <3>1, <3>4
  <2>4. CASE t # s
    <3>1. latest'[t] = latest[t]
      BY <1>4, <2>4
    <3>2. CASE Same(t)
      BY <2>1, <2>2, <3>1, <3>2 DEF Same
    <3>3. CASE Evicts(t) /\ states[t] # None
      BY <2>1, <2>2, <3>1, <3>3 DEF Evicts, Written, Flat
    <3> QED BY <1>2, <2>4, <3>2, <3>3
  <2> QED BY <2>3, <2>4
<1> QED BY <1>6, <1>7, <1>8, <1>9, <1>10 DEF StoreInv

\* Flat is what has no diff, and so is each change of it, except that which opens one.
LEMMA FlatIs ==
  ASSUME Store!SessionStoreAssumption, NEW state \in Store!State
  PROVE  Flat(state) <=> state.diff = FALSE
<1>1. ASSUME state.diff = FALSE PROVE Flat(state)
  BY <1>1 DEF Flat, Store!Sanitized, Store!State
<1>2. Store!Sanitized(state).diff = FALSE /\ state # None
  BY DEF Store!Sanitized, Store!State, Store!SessionStoreAssumption
<1> QED BY <1>1, <1>2 DEF Flat

LEMMA StayFlat ==
  ASSUME Store!SessionStoreAssumption, NEW state \in Store!State
  PROVE  /\ Flat(Store!Sanitized(state))
         /\ Flat(state) => /\ \A id \in 1..MaxId : Flat(Store!Opened(state, id))
                           /\ \A id : Flat(Store!Closed(state, id))
                           /\ \A next \in {Store!Marked(state), Store!Cleared(state),
                                           Store!Drafted(state)} : Flat(next)
<1>1. Store!Sanitized(state) \in Store!State /\ Store!Sanitized(state).diff = FALSE
  BY Changes DEF Store!Sanitized, Store!State
<1>2. ASSUME NEW id \in 1..MaxId
      PROVE  Store!Opened(state, id) \in Store!State /\ Store!Opened(state, id).diff = state.diff
  BY Changes DEF Store!Opened, Store!State
<1>3. ASSUME NEW id
      PROVE  Store!Closed(state, id) \in Store!State /\ Store!Closed(state, id).diff = state.diff
  BY Changes DEF Store!Closed, Store!State
<1>4. ASSUME NEW next \in {Store!Marked(state), Store!Cleared(state), Store!Drafted(state)}
      PROVE  next \in Store!State /\ next.diff = state.diff
  <2>1. next \in Store!State
    BY Changes
  <2>2. next.diff = state.diff
    BY <1>4 DEF Store!Marked, Store!Cleared, Store!Drafted, Store!State
  <2> QED BY <2>1, <2>2
<1> QED BY <1>1, <1>2, <1>3, <1>4, FlatIs

LEMMA DefaultIsFlat == ASSUME NEW id PROVE Flat(Store!DefaultState(id))
<1>1. PICK q : q = <<id>>
  OBVIOUS
<1>2. PICK d : d = FALSE
  OBVIOUS
<1>3. [[ids |-> q, unread |-> d, draft |-> d, diff |-> d] EXCEPT !.diff = d]
        = [ids |-> q, unread |-> d, draft |-> d, diff |-> d]
  OBVIOUS
<1>4. Store!Sanitized(Store!DefaultState(id)) = Store!DefaultState(id)
  BY <1>1, <1>2, <1>3 DEF Store!DefaultState, Store!Sanitized
<1> QED BY <1>4 DEF Flat

\* The entry a session has, or loads, as a state to go on from.
LEMMA EntryIsFrom ==
  ASSUME Store!SessionStoreAssumption, StoreInv, NEW s \in Sessions
  PROVE  /\ From(s, Store!Entry(s).state)
         /\ Quiet => Flat(Store!Entry(s).state)
<1>1. CASE states[s] # None
  <2>1. Store!Entry(s).state = states[s]
    BY <1>1 DEF Store!Entry
  <2> QED BY <1>1, <2>1 DEF From, StoreInv, Writes
<1>2. CASE states[s] = None /\ storage[s] # None
  <2>1. Store!Entry(s).state = Store!Sanitized(storage[s]) /\ storage[s] \in Store!State
    BY <1>2 DEF Store!Entry, Store!Loaded, StoreInv, StoreTypes, Store!Copies
  <2> QED BY <1>2, <2>1, StayFlat DEF From
<1>3. CASE states[s] = None /\ storage[s] = None
  <2>1. Store!Entry(s).state = Store!DefaultState(counter + 1)
    BY <1>3 DEF Store!Entry, Store!Loaded
  <2> QED BY <1>3, <2>1, DefaultIsFlat DEF From
<1> QED BY <1>1, <1>2, <1>3

\* What the reader wants a session to be is a state, and is the state at hand where
\* nothing else was ever wanted.
LEMMA Wants ==
  ASSUME StoreTypes, NEW s \in Sessions, NEW state \in Store!State
  PROVE  /\ Store!Wanted(s, state) \in Store!State
         /\ latest[s] \in {None, state} => Store!Wanted(s, state) = state
  BY DEF StoreTypes, Store!Wanted, Store!Copies

\* The session on screen goes from what is published to another state.
LEMMA Published ==
  ASSUME Store!SessionStoreAssumption, StoreInv, current # None, counter' \in 0..MaxId,
         NEW next \in Store!State, Once(next), Minted(next, counter'), NEW wanted \in Store!State,
         Quiet => Flat(next), latest[current] \in {None, snapshot} => wanted = next,
         Store!Publish(next, wanted)
  PROVE  StoreInv'
<1>1. PICK s \in Sessions : s = current
  BY DEF StoreInv, StoreTypes
<1>2. PICK pending : pending = Store!Scheduled(s, next)
  OBVIOUS
<1>3. /\ pending \in [Sessions -> Store!Copies] /\ \A t \in Sessions \ {s} : pending[t] = timers[t]
      /\ pending[s] = next
  BY <1>2 DEF Store!Scheduled, StoreInv, StoreTypes, Store!Copies
<1>4. current' = s /\ snapshot' = next /\ Store!Put(s, next, s, pending)
      /\ latest' = [latest EXCEPT ![s] = wanted]
  BY <1>1, <1>2 DEF Store!Publish
<1>5. ~ActiveDrafts => From(s, snapshot)
  BY <1>1 DEF StoreInv, Shown, Store!SnapshotIsEntry, From, StoreIds, Store!SessionStoreAssumption
<1>6. s # None /\ wanted \in Store!Copies
  BY <1>1 DEF Store!Copies
<1>7. Turns(s, snapshot, next, wanted, pending)
  BY <1>1, <1>3, <1>4, <1>5, <1>6 DEF Turns
<1> QED BY <1>7, Turned

\* A session's entry, on screen or behind it, goes on with a write pending.
LEMMA Reduced ==
  ASSUME Store!SessionStoreAssumption, StoreInv, NEW s \in Sessions, s # current \/ ActiveDrafts,
         NEW from \in Store!State, From(s, from),
         NEW next \in Store!State, Once(next), NEW wanted \in Store!State,
         Quiet => Flat(next), latest[s] \in {None, from} => wanted = next,
         Store!Put(s, next, current, Store!Scheduled(s, next)),
         latest' = [latest EXCEPT ![s] = wanted],
         current' = current, snapshot' = snapshot, counter' \in 0..MaxId, counter' >= counter
  PROVE  StoreInv'
<1>2. PICK pending : pending = Store!Scheduled(s, next)
  OBVIOUS
<1>3. /\ pending \in [Sessions -> Store!Copies] /\ \A t \in Sessions \ {s} : pending[t] = timers[t]
      /\ pending[s] = next
  BY <1>2 DEF Store!Scheduled, StoreInv, StoreTypes, Store!Copies
<1>4. current \in Sessions \cup {None} /\ wanted \in Store!Copies /\ (Quiet => Flat(snapshot))
  BY DEF StoreInv, StoreTypes, Writes, Store!Copies
<1>5. IF current' = None THEN snapshot' = None
      ELSE snapshot' \in Store!State /\ Once(snapshot') /\ Minted(snapshot', counter')
  <2>1. SUFFICES ASSUME current # None PROVE Minted(snapshot, counter')
    BY DEF StoreInv, StoreIds
  <2>2. snapshot \in Store!State /\ Minted(snapshot, counter)
    BY <2>1 DEF StoreInv, StoreIds
  <2>3. ASSUME NEW i \in DOMAIN snapshot.ids PROVE snapshot.ids[i] <= counter'
    <3>1. snapshot.ids[i] \in Nat /\ counter \in Nat /\ counter' \in Nat
      BY <2>2, States DEF StoreInv, StoreTypes
    <3> QED BY <2>2, <3>1 DEF Minted
  <2> QED BY <2>3 DEF Minted
<1>6. Turns(s, from, next, wanted, pending)
  BY <1>2, <1>3, <1>4, <1>5 DEF Turns
<1> QED BY <1>6, Turned

LEMMA SetSessions ==
  ASSUME Store!SessionStoreAssumption, StoreInv, NEW s \in Sessions, Store!SetSession(s)
  PROVE  StoreInv'
<1>1. PICK e : e = Store!Entry(s)
  OBVIOUS
<1>2. /\ e.counter <= MaxId /\ current' = s /\ snapshot' = e.state /\ counter' = e.counter
      /\ Store!Put(s, e.state, s, timers) /\ latest' = latest
  BY <1>1 DEF Store!SetSession
<1>3. /\ e.counter \in Nat /\ e.state \in Store!State /\ Once(e.state)
      /\ Minted(e.state, e.counter)
  BY <1>1, <1>2, Entries DEF StoreInv
<1>4. From(s, e.state) /\ (Quiet => Flat(e.state))
  BY <1>1, EntryIsFrom
<1>5. /\ timers \in [Sessions -> Store!Copies] /\ latest \in [Sessions -> Store!Copies]
      /\ s # None /\ MaxId \in Nat
  BY DEF StoreInv, StoreTypes, Store!SessionStoreAssumption
<1>6. latest' = [latest EXCEPT ![s] = latest[s]] /\ latest[s] \in Store!Copies
  BY <1>2, <1>5
<1>7. counter' \in 0..MaxId
  BY <1>2, <1>3, <1>5
<1>8. Turns(s, e.state, e.state, latest[s], timers)
  BY <1>2, <1>3, <1>4, <1>5, <1>6, <1>7 DEF Turns
<1> QED BY <1>8, Turned

LEMMA OpensFor ==
  ASSUME Store!SessionStoreAssumption, StoreInv, NEW s \in Sessions, Store!OpenFor(s)
  PROVE  StoreInv'
<1>1. PICK e : e = Store!Entry(s)
  OBVIOUS
<1>2. PICK next : next = Store!Opened(e.state, e.counter + 1)
  OBVIOUS
<1>3. PICK wanted : wanted = Store!Opened(Store!Wanted(s, e.state), e.counter + 1)
  OBVIOUS
<1>4. /\ s # current /\ e.counter + 1 <= MaxId
      /\ counter' = Store!Restored(e.counter + 1)
      /\ Store!Put(s, next, current, Store!Scheduled(s, next))
      /\ latest' = [latest EXCEPT ![s] = wanted]
      /\ current' = current /\ snapshot' = snapshot
  BY <1>1, <1>2, <1>3 DEF Store!OpenFor
<1>5. MaxId \in Nat /\ counter \in 0..MaxId /\ e.counter \in Nat
  BY <1>1, Entries DEF StoreInv, StoreTypes, Store!SessionStoreAssumption
<1>6. /\ e.counter + 1 \in 1..MaxId /\ e.counter <= MaxId
      /\ counter' \in 0..MaxId /\ counter' >= counter
  BY <1>4, <1>5 DEF Store!Restored
<1>7. e.state \in Store!State /\ Once(e.state) /\ Minted(e.state, e.counter)
  BY <1>1, <1>6, Entries DEF StoreInv
<1>8. From(s, e.state) /\ (Quiet => Flat(e.state))
  BY <1>1, EntryIsFrom
<1>9. next \in Store!State /\ Once(next)
  BY <1>2, <1>4, <1>5, <1>7, Opens
<1>10. /\ wanted \in Store!State
       /\ latest[s] \in {None, e.state} => wanted = next
  BY <1>2, <1>3, <1>6, <1>7, Wants, Changes DEF StoreInv
<1>11. Quiet => Flat(next)
  BY <1>2, <1>6, <1>7, <1>8, StayFlat
<1> QED BY <1>4, <1>6, <1>7, <1>8, <1>9, <1>10, <1>11, Reduced

LEMMA WritesDraft ==
  ASSUME Store!SessionStoreAssumption, StoreInv, NEW s \in Sessions, Store!WriteDraft(s)
  PROVE  StoreInv'
<1>1. PICK e : e = Store!Entry(s)
  OBVIOUS
<1>2. PICK next : next = Store!Drafted(e.state)
  OBVIOUS
<1>3. PICK wanted : wanted = Store!Drafted(Store!Wanted(s, e.state))
  OBVIOUS
<1>4. /\ s # current \/ ActiveDrafts
      /\ states[s] # None \/ storage[s] # None
      /\ counter' = Store!Restored(e.counter)
      /\ Store!Put(s, next, current, Store!Scheduled(s, next))
      /\ latest' = [latest EXCEPT ![s] = wanted]
      /\ current' = current /\ snapshot' = snapshot
  BY <1>1, <1>2, <1>3 DEF Store!WriteDraft
<1>5. MaxId \in Nat /\ counter \in 0..MaxId /\ e.counter \in Nat /\ e.counter <= MaxId
  BY <1>1, <1>4, Entries DEF StoreInv, StoreTypes, Store!SessionStoreAssumption
<1>6. counter' \in 0..MaxId /\ counter' >= counter
  BY <1>4, <1>5 DEF Store!Restored
<1>7. e.state \in Store!State /\ Once(e.state)
  BY <1>1, <1>5, Entries DEF StoreInv
<1>8. From(s, e.state) /\ (Quiet => Flat(e.state))
  BY <1>1, EntryIsFrom
<1>9. next \in Store!State /\ Once(next)
  BY <1>2, <1>7, Changes DEF Once
<1>10. /\ wanted \in Store!State
       /\ latest[s] \in {None, e.state} => wanted = next
  BY <1>2, <1>3, <1>7, Wants, Changes DEF StoreInv
<1>11. Quiet => Flat(next)
  BY <1>2, <1>7, <1>8, StayFlat
<1> QED BY <1>4, <1>6, <1>7, <1>8, <1>9, <1>10, <1>11, Reduced

\* A mark is cleared behind the screen: no write is scheduled, which only the parts
\* that do without it can bear.
LEMMA ClearsFor ==
  ASSUME Store!SessionStoreAssumption, StoreInv, NEW s \in Sessions, Store!ClearUnreadFor(s)
  PROVE  StoreInv'
<1>1. PICK next : next = Store!Cleared(states[s])
  OBVIOUS
<1>2. PICK wanted : wanted = Store!Cleared(Store!Wanted(s, states[s]))
  OBVIOUS
<1>3. /\ s # current /\ states[s] # None /\ ~Quiet
      /\ Store!Put(s, next, current, timers) /\ latest' = [latest EXCEPT ![s] = wanted]
      /\ current' = current /\ snapshot' = snapshot /\ counter' = counter
  BY <1>1, <1>2 DEF Store!ClearUnreadFor, Quiet
<1>4. states[s] \in Store!State /\ Once(states[s])
  BY <1>3 DEF StoreInv, StoreTypes, StoreIds, Store!Copies
<1>5. next \in Store!State /\ Once(next) /\ wanted \in Store!Copies
  BY <1>1, <1>2, <1>4, Wants, Changes DEF Once, StoreInv, Store!Copies
<1>6. /\ IF current = None THEN snapshot = None
         ELSE snapshot \in Store!State /\ Once(snapshot) /\ Minted(snapshot, counter)
      /\ current \in Sessions \cup {None} /\ counter \in 0..MaxId
      /\ timers \in [Sessions -> Store!Copies]
  BY DEF StoreInv, StoreIds, StoreTypes
<1>7. Turns(s, states[s], next, wanted, timers)
  BY <1>3, <1>5, <1>6 DEF Turns
<1> QED BY <1>7, Turned

\* The reader's own changes of the session on screen.
LEMMA ScreenIs ==
  ASSUME StoreInv, current # None
  PROVE  /\ current \in Sessions /\ snapshot \in Store!State /\ Once(snapshot)
         /\ Minted(snapshot, counter) /\ counter \in 0..MaxId
         /\ Quiet => Flat(snapshot)
         /\ Store!Wanted(current, snapshot) \in Store!State
         /\ latest[current] \in {None, snapshot} => Store!Wanted(current, snapshot) = snapshot
<1>1. /\ current \in Sessions /\ snapshot \in Store!State /\ Once(snapshot)
      /\ Minted(snapshot, counter) /\ counter \in 0..MaxId /\ (Quiet => Flat(snapshot))
      /\ StoreTypes
  BY DEF StoreInv, StoreTypes, StoreIds, Writes
<1> QED BY <1>1, Wants

LEMMA OpensOnScreen ==
  ASSUME Store!SessionStoreAssumption, StoreInv, Store!Open
  PROVE  StoreInv'
<1>1. PICK next : next = Store!Opened(snapshot, counter + 1)
  OBVIOUS
<1>2. PICK wanted : wanted = Store!Opened(Store!Wanted(current, snapshot), counter + 1)
  OBVIOUS
<1>3. /\ current # None /\ counter < MaxId /\ counter' = counter + 1
      /\ Store!Publish(next, wanted)
  BY <1>1, <1>2 DEF Store!Open
<1>4. MaxId \in Nat /\ counter \in Nat /\ counter' \in 0..MaxId /\ counter + 1 \in 1..MaxId
  BY <1>3, ScreenIs DEF Store!SessionStoreAssumption
<1>5. next \in Store!State /\ Once(next) /\ Minted(next, counter')
  BY <1>1, <1>3, <1>4, ScreenIs, Opens
<1>6. wanted \in Store!State /\ (latest[current] \in {None, snapshot} => wanted = next)
  BY <1>1, <1>2, <1>3, <1>4, ScreenIs, Changes
<1>7. Quiet => Flat(next)
  BY <1>1, <1>3, <1>4, ScreenIs, StayFlat
<1> QED BY <1>3, <1>4, <1>5, <1>6, <1>7, Published

LEMMA ClosesOnScreen ==
  ASSUME Store!SessionStoreAssumption, StoreInv, Store!Close
  PROVE  StoreInv'
<1>1. PICK i \in 2..Len(snapshot.ids) :
        Store!Publish(Store!Closed(snapshot, snapshot.ids[i]),
                      Store!Closed(Store!Wanted(current, snapshot), snapshot.ids[i]))
  BY DEF Store!Close
<1>2. PICK next : next = Store!Closed(snapshot, snapshot.ids[i])
  OBVIOUS
<1>3. PICK wanted : wanted = Store!Closed(Store!Wanted(current, snapshot), snapshot.ids[i])
  OBVIOUS
<1>4. current # None /\ counter' = counter /\ Store!Publish(next, wanted)
  BY <1>1, <1>2, <1>3 DEF Store!Close
<1>5. next \in Store!State /\ Once(next) /\ Minted(next, counter)
  BY <1>2, <1>4, ScreenIs, Closes
<1>6. wanted \in Store!State /\ (latest[current] \in {None, snapshot} => wanted = next)
  BY <1>2, <1>3, <1>4, ScreenIs, Changes
<1>7. Quiet => Flat(next)
  BY <1>2, <1>4, ScreenIs, StayFlat
<1>8. counter' \in 0..MaxId /\ Minted(next, counter')
  BY <1>4, <1>5, ScreenIs
<1> QED BY <1>4, <1>5, <1>6, <1>7, <1>8, Published

LEMMA ChangesOnScreen ==
  ASSUME Store!SessionStoreAssumption, StoreInv, current # None, counter' = counter,
         \/ Store!Publish(Store!Marked(snapshot), Store!Marked(Store!Wanted(current, snapshot)))
         \/ Store!Publish(Store!Cleared(snapshot), Store!Cleared(Store!Wanted(current, snapshot)))
         \/ /\ Store!Publish(Store!Diffed(snapshot), Store!Diffed(Store!Wanted(current, snapshot)))
            /\ ~Quiet
  PROVE  StoreInv'
<1>1. PICK next, wanted :
        /\ Store!Publish(next, wanted)
        /\ \/ /\ next = Store!Marked(snapshot)
              /\ wanted = Store!Marked(Store!Wanted(current, snapshot))
           \/ /\ next = Store!Cleared(snapshot)
              /\ wanted = Store!Cleared(Store!Wanted(current, snapshot))
           \/ /\ next = Store!Diffed(snapshot) /\ ~Quiet
              /\ wanted = Store!Diffed(Store!Wanted(current, snapshot))
  OBVIOUS
<1>2. next \in Store!State /\ next.ids = snapshot.ids
  BY <1>1, ScreenIs, Changes
<1>3. Once(next) /\ Minted(next, counter') /\ counter' \in 0..MaxId
  BY <1>2, ScreenIs DEF Once, Minted
<1>4. wanted \in Store!State /\ (latest[current] \in {None, snapshot} => wanted = next)
  BY <1>1, ScreenIs, Changes
<1>5. Quiet => Flat(next)
  BY <1>1, ScreenIs, StayFlat
<1> QED BY <1>1, <1>2, <1>3, <1>4, <1>5, Published

\* The pending write of a session lands.
LEMMA Persists ==
  ASSUME Store!SessionStoreAssumption, StoreInv, NEW s \in Sessions, Store!Persist(s)
  PROVE  StoreInv'
<1>1. /\ timers[s] # None /\ storage' = [storage EXCEPT ![s] = timers[s]]
      /\ timers' = [timers EXCEPT ![s] = None]
      /\ UNCHANGED <<current, snapshot, recent, states, counter, latest>>
  BY DEF Store!Persist
<1>2. /\ timers \in [Sessions -> Store!Copies] /\ storage \in [Sessions -> Store!Copies]
      /\ timers[s] \in Store!Copies /\ None \in Store!Copies
  BY DEF StoreInv, StoreTypes, Store!Copies
<1>3. /\ timers' \in [Sessions -> Store!Copies] /\ storage' \in [Sessions -> Store!Copies]
      /\ timers'[s] = None /\ storage'[s] = timers[s]
      /\ \A t \in Sessions \ {s} : timers'[t] = timers[t] /\ storage'[t] = storage[t]
  BY <1>1, <1>2
<1>4. StoreTypes'
  BY <1>1, <1>3 DEF StoreInv, StoreTypes, Store!Copies, Store!State, Store!ToSet, Store!IsInjective
<1>5. StoreIds'
  BY <1>1, <1>3 DEF StoreInv, StoreIds, Once, Minted, Store!State, Store!IsInjective
<1>6. Shown'
  BY <1>1 DEF StoreInv, Shown, Store!SnapshotIsEntry
<1>7. Writes'
  <2>1. SUFFICES ASSUME Quiet, NEW t \in Sessions PROVE Pending(t)' /\ Written(t)'
    BY <1>1 DEF StoreInv, Writes, Quiet, Flat, Store!Sanitized
  <2>2. Flat(states[t]) /\ Pending(t) /\ Written(t)
    BY <2>1 DEF StoreInv, Writes
  <2>3. CASE t = s
    BY <1>1, <1>3, <2>2, <2>3 DEF Pending, Written, Flat
  <2>4. CASE t # s
    BY <1>1, <1>3, <2>2, <2>4 DEF Pending, Written
  <2> QED BY <2>3, <2>4
<1>8. AsLeft'
  <2>1. SUFFICES ASSUME Quiet, ~ActiveDrafts, NEW t \in Sessions, latest[t] # None
                 PROVE  IF states[t] # None THEN states[t] = latest[t]
                        ELSE storage'[t] # None /\ Store!Sanitized(storage'[t]) = latest[t]
    BY <1>1 DEF AsLeft, Quiet, Store!Transparent, Store!Sanitized
  <2>2. /\ IF states[t] # None THEN states[t] = latest[t]
           ELSE storage[t] # None /\ Store!Sanitized(storage[t]) = latest[t]
        /\ Pending(s)
    BY <2>1 DEF StoreInv, AsLeft, Store!Transparent, Writes
  <2>3. CASE t = s
    BY <1>1, <2>2, <2>3 DEF Pending
  <2>4. CASE t # s
    BY <1>3, <2>2, <2>4
  <2> QED BY <2>3, <2>4
<1> QED BY <1>4, <1>5, <1>6, <1>7, <1>8 DEF StoreInv

\* The page is gone, and what it leaves is in storage.
LEMMA Reloads ==
  ASSUME Store!SessionStoreAssumption, StoreInv, Store!Reload
  PROVE  StoreInv'
<1>1. /\ current' = None /\ snapshot' = None /\ recent' = <<>> /\ counter' = 0
      /\ states' = [s \in Sessions |-> None] /\ timers' = [s \in Sessions |-> None]
      /\ latest' = [s \in Sessions |->
                      IF storage[s] = None THEN None ELSE Store!Sanitized(storage[s])]
      /\ storage' = storage
  BY DEF Store!Reload
<1>2. /\ storage \in [Sessions -> Store!Copies] /\ None \in Store!Copies
      /\ \A s \in Sessions : storage[s] # None => Store!Sanitized(storage[s]) \in Store!Copies
      /\ MaxId \in Nat /\ Cap \in Nat
  BY Changes DEF StoreInv, StoreTypes, Store!Copies, Store!SessionStoreAssumption
<1>3. latest' \in [Sessions -> Store!Copies]
  BY <1>1, <1>2
<1>4. /\ recent' \in Seq(Sessions) /\ Store!IsInjective(recent') /\ Len(recent') <= Cap
      /\ \A s : s \notin Store!ToSet(recent')
  BY <1>1, <1>2 DEF Store!IsInjective, Store!ToSet
<1>5. StoreTypes'
  BY <1>1, <1>2, <1>3, <1>4
     DEF StoreTypes, Store!Copies, Store!State, Store!ToSet, Store!IsInjective
<1>6. StoreIds'
  BY <1>1 DEF StoreInv, StoreIds, Once, Minted, Store!State, Store!IsInjective
<1>7. Shown'
  BY <1>1 DEF Shown, Store!SnapshotIsEntry
<1>8. Writes'
  BY <1>1 DEF Writes, Flat, Pending, Written, Quiet
<1>9. AsLeft'
  BY <1>1 DEF AsLeft, Store!Transparent, Quiet, Store!Sanitized
<1> QED BY <1>5, <1>6, <1>7, <1>8, <1>9 DEF StoreInv

LEMMA SetsNone ==
  ASSUME StoreInv, Store!SetNone
  PROVE  StoreInv'
<1>1. /\ current' = None /\ snapshot' = None
      /\ UNCHANGED <<recent, states, timers, storage, counter, latest>>
  BY DEF Store!SetNone
<1>2. StoreTypes'
  BY <1>1 DEF StoreInv, StoreTypes, Store!Copies, Store!State, Store!ToSet, Store!IsInjective
<1>3. StoreIds'
  BY <1>1 DEF StoreInv, StoreIds, Once, Minted, Store!State, Store!IsInjective
<1>4. Shown'
  BY <1>1 DEF Shown, Store!SnapshotIsEntry
<1>5. Writes'
  BY <1>1 DEF StoreInv, Writes, Flat, Pending, Written, Quiet, Store!Sanitized
<1>6. AsLeft'
  BY <1>1 DEF StoreInv, AsLeft, Store!Transparent, Quiet, Store!Sanitized
<1> QED BY <1>2, <1>3, <1>4, <1>5, <1>6 DEF StoreInv

LEMMA StoreInit == ASSUME Store!SessionStoreAssumption, Store!Init PROVE StoreInv
<1>1. None \in Store!Copies /\ MaxId \in Nat /\ Cap \in Nat
  BY DEF Store!Copies, Store!SessionStoreAssumption
<1>2. /\ recent \in Seq(Sessions) /\ Store!IsInjective(recent) /\ Len(recent) <= Cap
      /\ \A s : s \notin Store!ToSet(recent)
  BY <1>1 DEF Store!Init, Store!IsInjective, Store!ToSet
<1>3. StoreTypes
  BY <1>1, <1>2 DEF Store!Init, StoreTypes
<1> QED BY <1>3 DEF Store!Init, StoreInv, StoreIds, Shown, Writes, AsLeft, Flat, Pending, Written,
                    Store!SnapshotIsEntry, Store!Transparent

LEMMA StoreNext ==
  ASSUME Store!SessionStoreAssumption, StoreInv, [Store!Next]_(Store!vars)
  PROVE  StoreInv'
<1>1. ASSUME NEW s \in Sessions,
             \/ Store!SetSession(s) \/ Store!OpenFor(s) \/ Store!WriteDraft(s)
             \/ Store!ClearUnreadFor(s) \/ Store!Persist(s)
      PROVE  StoreInv'
  BY <1>1, SetSessions, OpensFor, WritesDraft, ClearsFor, Persists
<1>2. CASE Store!SetNone
  BY <1>2, SetsNone
<1>3. CASE Store!Open
  BY <1>3, OpensOnScreen
<1>4. CASE Store!Close
  BY <1>4, ClosesOnScreen
<1>5. CASE Store!MarkUnread \/ Store!ClearUnread \/ Store!OpenDiff
  BY <1>5, ChangesOnScreen DEF Store!MarkUnread, Store!ClearUnread, Store!OpenDiff, Quiet
<1>6. CASE Store!Reload
  BY <1>6, Reloads
<1>7. CASE UNCHANGED Store!vars
  <2>1. UNCHANGED <<current, snapshot, recent, states, timers, storage, counter, latest>>
    BY <1>7 DEF Store!vars
  <2>2. StoreTypes'
    BY <2>1 DEF StoreInv, StoreTypes, Store!Copies, Store!State, Store!ToSet, Store!IsInjective
  <2>3. StoreIds'
    BY <2>1 DEF StoreInv, StoreIds, Once, Minted, Store!State, Store!IsInjective
  <2>4. Shown' /\ Writes' /\ AsLeft'
    BY <2>1 DEF StoreInv, Shown, Writes, AsLeft, Flat, Pending, Written, Quiet, Store!Sanitized,
                Store!SnapshotIsEntry, Store!Transparent
  <2> QED BY <2>2, <2>3, <2>4 DEF StoreInv
<1> QED BY <1>1, <1>2, <1>3, <1>4, <1>5, <1>6, <1>7 DEF Store!Next

\* The store is type correct: the cache is as long as its cap allows, and holds an
\* entry for each of the keys in the order and for no other (state.ts).
THEOREM StoreTypeCorrect ==
  ASSUME Store!SessionStoreAssumption
  PROVE  Store!Spec => []Store!TypeOK
<1>1. StoreInv => Store!TypeOK
  <2>1. SUFFICES ASSUME StoreInv PROVE Store!TypeOK
    OBVIOUS
  <2>2. snapshot \in Store!Copies
    BY <2>1 DEF StoreInv, StoreIds, Store!Copies
  <2>3. Store!ToSet(recent) \subseteq Sessions
    BY <2>1 DEF StoreInv, StoreTypes, Store!ToSet
  <2>4. Store!ToSet(recent) = {s \in Sessions : states[s] # None}
    BY <2>1, <2>3 DEF StoreInv, StoreTypes
  <2> QED BY <2>1, <2>2, <2>4 DEF StoreInv, StoreTypes, Store!TypeOK
<1> QED BY StoreInit, StoreNext, <1>1, PTL DEF Store!Spec

\* The copies of a layout are coherent: the ids of a tree are distinct whichever
\* session minted in between, the published state is the entry, a pending write is
\* never older than memory, and eviction loses nothing (state.ts).
THEOREM StoreCoherentHolds ==
  ASSUME Store!SessionStoreAssumption
  PROVE  Store!Spec => []Store!StoreCoherent
<1>1. StoreInv => Store!StoreCoherent
  <2>1. SUFFICES ASSUME StoreInv PROVE Store!StoreCoherent
    OBVIOUS
  <2>2. Store!IdsDistinct
    BY <2>1 DEF StoreInv, StoreIds, Store!IdsDistinct, Once
  <2>3. Store!SnapshotIsEntry \/ ActiveDrafts
    BY <2>1 DEF StoreInv, Shown
  <2>4. ASSUME Quiet PROVE Store!WritesCurrent
    <3>1. SUFFICES ASSUME NEW s \in Sessions, latest[s] # None, states[s] # None
                   PROVE  IF timers[s] # None THEN timers[s] = states[s]
                          ELSE storage[s] # None /\ Store!Sanitized(storage[s]) = states[s]
      BY DEF Store!WritesCurrent
    <3> QED BY <2>1, <2>4, <3>1 DEF StoreInv, Writes, Pending, Written
  <2>5. ASSUME Quiet, ~ActiveDrafts PROVE Store!Transparent
    BY <2>1, <2>5 DEF StoreInv, AsLeft
  <2> QED BY <2>2, <2>3, <2>4, <2>5 DEF Store!StoreCoherent, Quiet
<1> QED BY StoreInit, StoreNext, <1>1, PTL DEF Store!Spec
=============================================================================
