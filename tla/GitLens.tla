------------------------------ MODULE GitLens ------------------------------
(***************************************************************************)
(* The Git lens of the changes tab (client/changes/GitLens.tsx): which      *)
(* checkout it shows, the passes that list the checkouts and load the       *)
(* branches of the chosen one, and the mutations the user starts there.    *)
(*                                                                         *)
(* What it shows is moved by the user (another checkout, another child     *)
(* repository), by the tab (another conversation or folder) and by the     *)
(* listing itself (the first one may prefer a dirty linked checkout, a     *)
(* later one may miss the chosen one), all while passes and mutations are   *)
(* under way.  Requests to refresh queue behind a gate; the poll's pass     *)
(* carries the poll's signal.  Left out: the status (GitStatusStore), the  *)
(* message drafts, the error banners, folding.                             *)
(***************************************************************************)
EXTENDS Naturals, FiniteSets

CONSTANTS
  Scopes,       \* conversations and folders
  Repos,        \* child repositories, None for the one of the folder itself
  Main, Linked, \* the current checkout, and the linked ones
  None,
  Returns,      \* whether a place may be shown again while a mutation runs there
  Actions,      \* the operations that can be at the host together, from 1 on
  MaxMoves      \* bound on what the user, the tab and the poll begin

Paths == {Main} \cup Linked
Places == Scopes \X Repos \X Paths
Gates == {1, 2} \* the one in use and one that was left

ConstantsAssumption ==
  /\ Scopes # {} /\ None \in Repos /\ IsFiniteSet(Linked) /\ Main \notin Linked
  /\ None \notin Paths \cup Places \cup (Scopes \X Repos)
  /\ Actions \subseteq Nat \ {0} /\ 1 \in Actions /\ Returns \in BOOLEAN /\ MaxMoves \in Nat

VARIABLES
  scope, repo, chosen,  \* what the lens shows
  auto,     \* whether the first listing's preference is spent
  listing,  \* the folder and repository whose checkouts are listed, or None
  names,    \* the place whose branches are shown, or None
  confirm,  \* the place of the row a dialog asks about, or None
  lock,     \* the operation that holds the lock, or 0
  running,  \* operations at the host
  gates, gate,  \* the gates, and the one in use
  loop,     \* the refresh loop in each gate
  active,   \* whether the lens is looked at, and polled
  moves,
  waiting   \* history: a loud request was made after the last loud pass began, and
            \* not behind a pass of the poll that was stopped

place == <<scope, repo, chosen, auto>>
shown == <<place, listing, names, confirm>>
vars == <<shown, lock, running, gates, gate, loop, active, moves, waiting>>

At(path) == <<scope, repo, IF path = None THEN Main ELSE path>>
Here == At(chosen)

\* current: nothing derived was dropped since the pass or operation began (the
\* generation it read then is still the one in use).
Open == [inFlight |-> FALSE, queued |-> FALSE, silent |-> TRUE]
NoLoop == [phase |-> "none", silent |-> TRUE, current |-> FALSE, at |-> None,
           signal |-> "none", lock |-> 0]
Idle == [kind |-> "none", current |-> FALSE, at |-> None, row |-> None]
Kinds == {"mutation", "checkout", "suggestion"}

Busy(p) == \E i \in Actions : running[i].at = p
Free(p) == Returns \/ ~Busy(p)

TypeOK ==
  /\ scope \in Scopes /\ repo \in Repos /\ chosen \in Paths \cup {None}
  /\ auto \in BOOLEAN /\ active \in BOOLEAN /\ waiting \in BOOLEAN /\ moves \in Nat
  /\ listing \in (Scopes \X Repos) \cup {None}
  /\ names \in Places \cup {None} /\ confirm \in Places \cup {None}
  /\ lock \in {0} \cup Actions /\ gate \in Gates
  /\ running \in [Actions -> [kind : Kinds \cup {"none"}, current : BOOLEAN,
                             at : Places \cup {None}, row : Places \cup {None}]]
  /\ gates \in [Gates -> [inFlight : BOOLEAN, queued : BOOLEAN, silent : BOOLEAN]]
  /\ loop \in [Gates -> [phase : {"none", "list", "names"}, silent : BOOLEAN, current : BOOLEAN,
                         at : (Scopes \X Repos) \cup Places \cup {None},
                         signal : {"none", "live", "stopped"}, lock : {0} \cup Actions]]
  /\ \A g \in Gates : /\ gates[g].queued => gates[g].inFlight
                      /\ gates[g].inFlight <=> loop[g].phase # "none"

Init ==
  /\ scope = (CHOOSE s \in Scopes : TRUE) /\ repo = None /\ chosen = None /\ auto = FALSE
  /\ listing = None /\ names = None /\ confirm = None /\ lock = 0
  /\ running = [i \in Actions |-> Idle]
  /\ gates = [g \in Gates |-> [Open EXCEPT !.inFlight = (g = 1)]]
  /\ gate = 1
  /\ loop = [g \in Gates |-> IF g = 1 THEN [NoLoop EXCEPT !.phase = "list", !.silent = FALSE, !.current = TRUE,
                                                !.at = <<scope, repo>>]
                             ELSE NoLoop]
  /\ active = TRUE /\ moves = 0 /\ waiting = FALSE

-----------------------------------------------------------------------------
(* Refreshes. *)

\* refresh: a request that finds the gate in flight is queued, and is loud when
\* one of those queued is.
Begun(silent, signal, for) ==
  [phase |-> "list", silent |-> silent, current |-> TRUE, at |-> <<scope', repo'>>,
   signal |-> signal, lock |-> for]
\* Mutant: the last request says whether the replay is silent.
Queued_Last(g, silent) == [g EXCEPT !.queued = TRUE, !.silent = silent]
Queued(g, silent) == [g EXCEPT !.queued = TRUE, !.silent = @ /\ silent]
\* The loops are ls when the request comes.
Refresh(g, ls, silent, signal, for) ==
  IF gates[g].inFlight
  THEN /\ gates' = [gates EXCEPT ![g] = Queued(@, silent)]
       /\ loop' = ls
       /\ waiting' = (waiting \/ (~silent /\ ls[g].signal # "stopped"))
  ELSE /\ gates' = [gates EXCEPT ![g] = [Open EXCEPT !.inFlight = TRUE]]
       /\ loop' = [ls EXCEPT ![g] = Begun(silent, signal, for)]
       /\ waiting' = (waiting /\ silent)

\* A pass of the loop in gate g is over: the next one begins if a request is
\* queued and the signal is not stopped; if not, the loop ends, and the mutation
\* that waited for it gives up the lock (it is `held` now).
PassEnds(g, ls, held) ==
  LET l == ls[g]
      again == gates[g].queued /\ l.signal # "stopped" IN
  /\ gates' = [gates EXCEPT ![g] = [Open EXCEPT !.inFlight = again]]
  /\ loop' = [ls EXCEPT ![g] = IF again THEN Begun(gates[g].silent, l.signal, l.lock) ELSE NoLoop]
  /\ waiting' = (waiting /\ ~(again /\ g = gate /\ ~gates[g].silent))
  /\ lock' = IF ~again /\ held = l.lock THEN 0 ELSE held

\* clearDerived: nothing of the previous place is shown or can be acted on, and
\* what is under way for it is not current any more.
Outdated(ls) == [g \in Gates |-> [ls[g] EXCEPT !.current = FALSE]]
Left == [i \in Actions |-> [running[i] EXCEPT !.current = FALSE]]

\* Where a listing takes the lens: it stays if it can, and the first listing may
\* prefer the only linked checkout with changes when the current one has none.
Stays(listed) ==
  IF chosen \in listed THEN chosen ELSE IF Main \in listed THEN Main ELSE None
Preferred(listed, dirty) ==
  IF Main \notin dirty /\ Cardinality(dirty) = 1 THEN CHOOSE p \in dirty : TRUE
  ELSE IF Main \in listed THEN Main ELSE None
\* Mutant: the preference is tried at every listing.
Target_Always(listed, dirty) ==
  IF Preferred(listed, dirty) # None THEN Preferred(listed, dirty) ELSE Stays(listed)
Target(listed, dirty) ==
  IF ~auto /\ Preferred(listed, dirty) # None THEN Preferred(listed, dirty) ELSE Stays(listed)

\* Mutant: an answer for a place that was left is taken.
Wanted_Any(g) == loop[g].signal # "stopped"
Wanted(g) == loop[g].current /\ loop[g].signal # "stopped"

\* runOnce, up to the branches: the host lists the checkouts, some with changes.
Listed(g, listed, dirty) ==
  LET target == Target(listed, dirty)
      changed == target # chosen
      moved == changed /\ (chosen # None \/ target # Stays({Main} \cap listed))
      ls == IF moved THEN Outdated(loop) ELSE loop
      held == IF moved THEN 0 ELSE lock IN
  /\ loop[g].phase = "list" /\ Wanted(g)
  /\ dirty \subseteq listed /\ (listed = {} \/ Main \in listed)
  /\ moved => Free(At(target))
  /\ auto' = (auto \/ Preferred(listed, dirty) # None)
  /\ chosen' = target /\ listing' = loop[g].at
  /\ IF moved THEN names' = None /\ confirm' = None /\ running' = Left
     ELSE UNCHANGED <<names, confirm, running>>
  /\ UNCHANGED <<scope, repo, gate, active, moves>>
  /\ IF loop[g].silent /\ ~changed
     THEN PassEnds(g, ls, held)
     ELSE /\ loop' = [ls EXCEPT ![g].phase = "names", ![g].current = TRUE, ![g].at = At(target)]
          /\ lock' = held
          /\ UNCHANGED <<gates, waiting>>
\* It fails, or its answer is not wanted any more.
Unlisted(g) ==
  /\ loop[g].phase = "list"
  /\ UNCHANGED <<shown, running, gate, active, moves>>
  /\ PassEnds(g, loop, lock)

\* loadTarget: the branches arrive, for the place as it was when they were asked for.
Named(g) ==
  /\ loop[g].phase = "names"
  /\ names' = IF loop[g].current THEN loop[g].at ELSE names
  /\ UNCHANGED <<place, listing, confirm, running, gate, active, moves>>
  /\ PassEnds(g, loop, lock)

-----------------------------------------------------------------------------
(* What the user and the tab do. *)

Moves == moves < MaxMoves /\ moves' = moves + 1

Polled ==
  /\ Moves /\ active /\ \A g \in Gates : loop[g].signal # "live"
  /\ UNCHANGED <<shown, lock, running, gate, active>>
  /\ Refresh(gate, loop, TRUE, "live", 0)
\* The other lens is looked at: the poll is stopped, and its pass with it; and back.
Hide ==
  /\ Moves /\ active /\ active' = FALSE
  /\ loop' = [g \in Gates |-> IF loop[g].signal = "live" THEN [loop[g] EXCEPT !.signal = "stopped"] ELSE loop[g]]
  /\ waiting' = (waiting /\ loop[gate].signal # "live")
  /\ UNCHANGED <<shown, lock, running, gates, gate>>
Look ==
  /\ ~active /\ active' = TRUE
  /\ UNCHANGED <<shown, lock, running, gates, gate, loop, moves, waiting>>

\* The refresh button, or the tab is on screen again.
Ask ==
  /\ Moves /\ active
  /\ UNCHANGED <<shown, lock, running, gate, active>>
  /\ Refresh(gate, loop, FALSE, "none", 0)

\* Mutant: the dialog about a row of the previous place stays open.
Reset_Asked == names' = None /\ running' = Left /\ lock' = 0 /\ UNCHANGED confirm
Reset == names' = None /\ running' = Left /\ lock' = 0 /\ confirm' = None

\* chooseWorktree
Choose(path) ==
  /\ Moves /\ active /\ lock = 0 /\ path # chosen /\ Free(At(path))
  /\ auto' = TRUE /\ chosen' = path /\ Reset
  /\ UNCHANGED <<scope, repo, listing, gate, active>>
  /\ Refresh(gate, Outdated(loop), FALSE, "none", 0)
\* chooseRepo
ChooseRepo(r) ==
  /\ Moves /\ active /\ lock = 0 /\ r \notin {repo, None} /\ Free(<<scope, r, Main>>)
  /\ auto' = TRUE /\ repo' = r /\ chosen' = None /\ listing' = None /\ Reset
  /\ UNCHANGED <<scope, gate, active>>
  /\ Refresh(gate, Outdated(loop), FALSE, "none", 0)
\* Another conversation or folder: all starts over, behind a gate of its own.
Enter(s, g) ==
  /\ Moves /\ s # scope /\ g # gate /\ ~gates[g].inFlight /\ Free(<<s, None, Main>>)
  /\ scope' = s /\ repo' = None /\ chosen' = None /\ auto' = FALSE /\ listing' = None /\ Reset
  /\ gate' = g /\ UNCHANGED active
  /\ gates' = [gates EXCEPT ![g].inFlight = TRUE]
  /\ loop' = [Outdated(loop) EXCEPT ![g] = Begun(FALSE, "none", 0)]
  /\ waiting' = FALSE

-----------------------------------------------------------------------------
(* Operations at the host. *)

\* A slot no operation and no loop uses.
Unused(i) ==
  /\ running[i].kind = "none" /\ \A g \in Gates : loop[g].lock # i
  /\ \A j \in Actions : j < i => running[j].kind # "none" \/ \E g \in Gates : loop[g].lock = j
\* runAction, checkout, suggestMessage: one at a time.
Start(i, kind, at, row) ==
  /\ Unused(i) /\ lock = 0 /\ lock' = i
  /\ running' = [running EXCEPT ![i] = [kind |-> kind, current |-> TRUE, at |-> at, row |-> row]]
Act(i, kind) ==
  /\ Moves /\ active /\ Start(i, kind, Here, Here)
  /\ UNCHANGED <<shown, gates, gate, loop, active, waiting>>
\* A row's menu asks before it discards, reverts or picks: the dialog names the
\* checkout of its row, the conversation and the repository are read when it is
\* answered.
AskFirst ==
  /\ Moves /\ active /\ confirm = None /\ confirm' = Here
  /\ UNCHANGED <<place, listing, names, lock, running, gates, gate, loop, active, waiting>>
Confirm(i) ==
  /\ confirm # None /\ confirm' = None
  /\ IF lock = 0 THEN Start(i, "mutation", <<scope, repo, confirm[3]>>, confirm)
     ELSE i = 1 /\ UNCHANGED <<lock, running>>
  /\ UNCHANGED <<place, listing, names, gates, gate, loop, active, moves, waiting>>
Dismiss ==
  /\ confirm # None /\ confirm' = None
  /\ UNCHANGED <<place, listing, names, lock, running, gates, gate, loop, active, moves, waiting>>

\* Mutant: what ends in a place that was left releases the lock of another.
Released_Any(i) == 0
Released(i) == IF lock = i THEN 0 ELSE lock
\* It ends at the host.  A mutation refreshes whether or not it failed, if its
\* place is still shown, and holds the lock until its own refresh is over; a
\* checkout refreshes if it succeeded.
Settle(i, ok) ==
  LET a == running[i]
      refreshes == a.current /\ (a.kind = "mutation" \/ (a.kind = "checkout" /\ ok)) IN
  /\ a.kind \in Kinds
  /\ running' = [running EXCEPT ![i] = Idle]
  /\ lock' = IF refreshes /\ ~gates[gate].inFlight THEN lock ELSE Released(i)
  /\ UNCHANGED <<shown, gate, active, moves>>
  /\ IF refreshes THEN Refresh(gate, loop, FALSE, "none", i) ELSE UNCHANGED <<gates, loop, waiting>>

Next ==
  \/ \E g \in Gates :
       \/ \E listed, dirty \in SUBSET Paths : Listed(g, listed, dirty)
       \/ Unlisted(g) \/ Named(g)
       \/ \E s \in Scopes : Enter(s, g)
  \/ Polled \/ Hide \/ Look \/ Ask
  \/ \E path \in Paths : Choose(path)
  \/ \E r \in Repos : ChooseRepo(r)
  \/ \E i \in Actions : \/ \E kind \in Kinds : Act(i, kind)
                        \/ Confirm(i)
                        \/ \E ok \in BOOLEAN : Settle(i, ok)
  \/ AskFirst \/ Dismiss

Spec == Init /\ [][Next]_vars

-----------------------------------------------------------------------------
(* Properties. *)

\* The checkouts listed are those of the repository shown, and the branches those
\* of the checkout shown, whatever pass answers last.
AnswersFit == /\ listing # None => listing = <<scope, repo>>
              /\ names # None => names = Here

\* GitLens.tsx:714-720: a dialog is about a row of what is shown, and what it
\* confirms happens where its row was.
DialogFits == confirm # None => confirm = Here
HitsItsRow == \A i \in Actions : running[i].at = running[i].row

\* "Lock one target's mutation": no two run in one checkout.
OneMutation ==
  \A i, j \in Actions : i # j /\ {running[i].kind, running[j].kind} \subseteq {"mutation", "checkout"}
    => running[i].at # running[j].at

\* "a manual refresh is never silently dropped" (:520-521): one that waits is
\* in the queue of a gate in flight, and is not silent.
NoneDropped == waiting => gates[gate].queued /\ ~gates[gate].silent

\* Once the automatic preference is spent, a listing that has the checkout in view
\* does not move the lens.
NeverYanked ==
  \A g \in Gates, listed, dirty \in SUBSET Paths :
       auto /\ chosen \in listed /\ Listed(g, listed, dirty) => chosen' = chosen
=============================================================================
