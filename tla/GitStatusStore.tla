--------------------------- MODULE GitStatusStore ---------------------------
(***************************************************************************)
(* The page's one store of git status (client/ui/git-status.ts), for one   *)
(* scope: a slot is what the scope's consumers share, an object that is    *)
(* registered under the scope's key, dropped when the last consumer leaves *)
(* and minted again by the next render.  Consumers are React components:   *)
(* a batch of them renders, each carrying the slot it found, and then the  *)
(* effects of the batch run, those that release before those that retain.  *)
(* What a consumer has on screen is what its last render read.             *)
(*                                                                         *)
(* Left out: paths and their index, line counts, the cadence (a consumer   *)
(* polls or does not), and other scopes, but for the cap they press on.    *)
(***************************************************************************)
EXTENDS Naturals, FiniteSets

CONSTANTS
  Consumers,
  Polls,       \* the consumers that ask for the timer
  Slots,       \* bound: slot objects, numbered
  Slowest,     \* the tier without a timer
  LateEffects, \* answers and actions may come between a render and its effects
  MaxRev,      \* bound: changes of the repository
  MaxFailures, \* bound: status calls that fail
  Unseen, Failed \* no answer yet or no slot; the answer of a call that failed

ConstantsAssumption ==
  /\ Polls \subseteq Consumers /\ Slots \subseteq Nat \ {0} /\ Slots # {}
  /\ Slowest \in Nat \ {0} /\ LateEffects \in BOOLEAN /\ MaxRev \in Nat /\ MaxFailures \in Nat
  /\ {Unseen, Failed} \cap Nat = {} /\ Unseen # Failed

VARIABLES
  rev,       \* how often the repository changed
  acted,     \* history: rev after the last action of the user's own
  registry,  \* the slot under the key, or Unseen
  slot,      \* slot -> its fields
  answer,    \* slot -> the answer of the call under way: Unseen, a rev or Failed
  mode,      \* consumer -> "off", "hidden" or "shown"
  carried,   \* consumer -> the slot of its last render
  held,      \* consumer -> the slot its effect retained
  screen,    \* consumer -> what its last render read
  dirty,     \* consumers told to render again
  batch,     \* consumers rendered, whose effects are to come
  failed

store == <<registry, slot, answer>>
page == <<mode, carried, held, screen, dirty, batch>>
vars == <<rev, acted, store, page, failed>>

Fresh ==
  [snapshot |-> Unseen, loading |-> FALSE, error |-> FALSE, running |-> FALSE, pending |-> FALSE,
   visible |-> 0, pollers |-> 0, tier |-> 0, timer |-> Unseen]

View(s) == <<s.snapshot, s.loading, s.error>>

Revs == 0..MaxRev
Tiers == 0..Slowest

TypeOK ==
  /\ rev \in Revs /\ acted \in Revs /\ failed \in 0..MaxFailures
  /\ registry \in Slots \cup {Unseen}
  /\ slot \in [Slots -> [snapshot : Revs \cup {Unseen}, loading : BOOLEAN, error : BOOLEAN,
                         running : BOOLEAN, pending : BOOLEAN,
                         visible : 0..Cardinality(Consumers), pollers : 0..Cardinality(Polls),
                         tier : Tiers, timer : Tiers \cup {Unseen}]]
  /\ answer \in [Slots -> Revs \cup {Unseen, Failed}]
  /\ mode \in [Consumers -> {"off", "hidden", "shown"}]
  /\ carried \in [Consumers -> Slots \cup {Unseen}] /\ held \in [Consumers -> Slots \cup {Unseen}]
  /\ DOMAIN screen = Consumers /\ dirty \subseteq Consumers /\ batch \subseteq Consumers

Init ==
  /\ rev = 0 /\ acted = 0 /\ failed = 0
  /\ registry = Unseen /\ slot = [s \in Slots |-> Fresh] /\ answer = [s \in Slots |-> Unseen]
  /\ mode = [c \in Consumers |-> "off"]
  /\ carried = [c \in Consumers |-> Unseen] /\ held = [c \in Consumers |-> Unseen]
  /\ screen = [c \in Consumers |-> View(Fresh)]
  /\ dirty = {} /\ batch = {}

-----------------------------------------------------------------------------
\* The page renders what it was told to, and runs the effects, before it goes on.
Prompt == LateEffects \/ (batch = {} /\ dirty = {})

\* Who notify() reaches.
Listeners(id) == {c \in Consumers : mode[c] # "off" /\ carried[c] = id}

\* fetchSlot() on a slot: it starts, or is queued behind the one under way.
\* Mutant: a call that lands during another is dropped.
Fetched_Drops(s) ==
  IF s.running THEN s ELSE [s EXCEPT !.running = TRUE, !.loading = (s.snapshot = Unseen)]
Fetched(s) ==
  IF s.running THEN [s EXCEPT !.pending = TRUE]
  ELSE [s EXCEPT !.running = TRUE, !.loading = (s.snapshot = Unseen)]

\* It notifies if the spinner comes or goes.
Spins(s) == ~s.running /\ s.loading # (s.snapshot = Unseen)

Fetch(id) ==
  /\ slot' = [slot EXCEPT ![id] = Fetched(@)]
  /\ answer' = IF slot[id].running THEN answer ELSE [answer EXCEPT ![id] = Unseen]
  /\ dirty' = IF Spins(slot[id]) THEN dirty \cup Listeners(id) ELSE dirty

\* The timer's tier, or none for the slowest.
Armed(s) == IF s.tier = Slowest THEN Unseen ELSE s.tier

Evictable(s) == s.visible = 0 /\ ~s.running

\* The registry after slot id was forgotten.
Forgotten(id) == IF registry = id THEN Unseen ELSE registry

\* A slot object nobody refers to is garbage, and a mint may return it.
InUse(id, reg, has, s) == id = reg \/ s.running \/ \E c \in Consumers : id = has[c] \/ id = held[c]
Collected(reg, has, ss) == [i \in Slots |-> IF InUse(i, reg, has, ss[i]) THEN ss[i] ELSE Fresh]

\* The host runs git status.
Reads(id) ==
  /\ slot[id].running /\ answer[id] = Unseen /\ Prompt
  /\ answer' = [answer EXCEPT ![id] = rev]
  /\ UNCHANGED <<rev, acted, registry, slot, page, failed>>
ReadFails(id) ==
  /\ slot[id].running /\ answer[id] = Unseen /\ Prompt /\ failed < MaxFailures
  /\ failed' = failed + 1 /\ answer' = [answer EXCEPT ![id] = Failed]
  /\ UNCHANGED <<rev, acted, registry, slot, page>>

\* Whether an answer changes what a consumer sees: an idle poll is silent.
\* Mutant: only a new snapshot counts.
Changed_Snapshot(s, got) == got # Failed /\ s.snapshot # got
Changed(s, got) == IF got = Failed THEN ~s.error ELSE s.error \/ s.snapshot # got

\* noteFetchDuration(): a timer in use runs at the pace of the new tier.
\* Mutant: it goes on at the old one.
Paced_Never(s, tier) == [s EXCEPT !.tier = tier]
Paced(s, tier) ==
  LET now == [s EXCEPT !.tier = tier] IN
  IF tier = s.tier \/ s.pollers = 0 THEN now ELSE [now EXCEPT !.timer = Armed(now)]

Answered(s, got) ==
  LET seen == IF got = Failed THEN [s EXCEPT !.error = TRUE]
              ELSE [s EXCEPT !.snapshot = got, !.error = FALSE] IN
  [seen EXCEPT !.running = FALSE, !.loading = FALSE]

\* The next fetch, if one was asked for meanwhile.
\* Mutant: it is forgotten.
Continued_Never(s) == [s EXCEPT !.pending = FALSE]
Continued(s) == IF s.pending THEN Fetched([s EXCEPT !.pending = FALSE]) ELSE s

Settle(id, tier) ==
  LET done == Paced(Answered(slot[id], answer[id]), tier)
      next == Continued(done) IN
  /\ slot[id].running /\ answer[id] # Unseen /\ Prompt
  /\ answer' = [answer EXCEPT ![id] = Unseen]
  /\ registry' = IF Evictable(next) THEN Forgotten(id) ELSE registry
  /\ slot' = Collected(registry', carried, [slot EXCEPT ![id] = next])
  /\ dirty' = IF Changed(slot[id], answer[id]) \/ slot[id].loading \/ (done.pending /\ Spins(done))
              THEN dirty \cup Listeners(id) ELSE dirty
  /\ UNCHANGED <<rev, acted, mode, carried, held, screen, batch, failed>>

\* The timer, or a consumer's refresh().
Tick(id) ==
  /\ slot[id].timer # Unseen /\ Prompt /\ Fetch(id)
  /\ UNCHANGED <<rev, acted, registry, mode, carried, held, screen, batch, failed>>
Refresh(c) ==
  /\ mode[c] = "shown" /\ Prompt /\ Fetch(carried[c])
  /\ UNCHANGED <<rev, acted, registry, mode, carried, held, screen, batch, failed>>

\* Someone else changes the repository; or the user does, here, and the store is
\* told (invalidateGitStatus).
Change ==
  /\ rev < MaxRev /\ rev' = rev + 1 /\ Prompt
  /\ UNCHANGED <<acted, store, page, failed>>
Act ==
  /\ rev < MaxRev /\ rev' = rev + 1 /\ acted' = rev' /\ Prompt
  /\ IF registry = Unseen THEN UNCHANGED <<slot, answer, dirty>> ELSE Fetch(registry)
  /\ UNCHANGED <<registry, mode, carried, held, screen, batch, failed>>

\* trimSlots(): another scope is minted at the cap.
Trim ==
  /\ registry # Unseen /\ Evictable(slot[registry]) /\ Prompt /\ registry' = Unseen
  /\ slot' = Collected(Unseen, carried, slot)
  /\ UNCHANGED <<rev, acted, answer, page, failed>>

-----------------------------------------------------------------------------
\* slotOf() in the render of a batch: of consumers that are to be shown, hidden or
\* unmounted, or were told to render.
Free(id) == ~InUse(id, registry, carried, slot[id])
Found == IF registry # Unseen THEN registry ELSE CHOOSE i \in Slots : Free(i)

Render(cs, becomes) ==
  LET up == {c \in cs : becomes[c] # "off"} IN
  /\ batch = {} /\ cs # {} /\ (LateEffects \/ dirty \subseteq cs)
  /\ \A c \in cs : becomes[c] # mode[c] \/ c \in dirty
  /\ registry = Unseen /\ up # {} => \E i \in Slots : Free(i)
  /\ mode' = [c \in Consumers |-> IF c \in cs THEN becomes[c] ELSE mode[c]]
  /\ batch' = cs /\ dirty' = dirty \ cs
  /\ carried' = [c \in Consumers |-> IF c \in up THEN Found ELSE IF c \in cs THEN Unseen ELSE carried[c]]
  /\ registry' = IF up = {} THEN registry ELSE Found
  /\ slot' = Collected(registry', carried', slot)
  /\ screen' = [c \in Consumers |->
                 IF c \in up THEN View(slot[Found]) ELSE IF c \in cs THEN View(Fresh) ELSE screen[c]]
  /\ UNCHANGED <<rev, acted, answer, held, failed>>

\* release() by the consumers gone: the last one takes the answer with it.
\* Mutant: the answer is kept.
Released_Keeps(s, gone) ==
  LET left == [s EXCEPT !.visible = @ - Cardinality(gone), !.pollers = @ - Cardinality(gone \cap Polls)] IN
  IF left.pollers = 0 THEN [left EXCEPT !.timer = Unseen] ELSE left
Released(s, gone) ==
  LET left == [s EXCEPT !.visible = @ - Cardinality(gone), !.pollers = @ - Cardinality(gone \cap Polls)] IN
  CASE gone # {} /\ left.visible = 0 ->
         [left EXCEPT !.pollers = 0, !.timer = Unseen, !.snapshot = Unseen]
    [] left.pollers = 0 -> [left EXCEPT !.timer = Unseen]
    [] OTHER -> left

Emptied(s, gone) == gone # {} /\ s.visible = Cardinality(gone)

\* retain() by the consumers come: one reading for the first of them.
Counted(s, come) ==
  [s EXCEPT !.visible = @ + Cardinality(come), !.pollers = @ + Cardinality(come \cap Polls)]
Read(s, come) == come # {} /\ s.visible = 0 /\ s.snapshot = Unseen

\* One timer for the first that polls.
\* Mutant: for the first of all.
Started_First(s, come) == s.visible = 0 /\ come # {}
Started(s, come) == s.pollers = 0 /\ come \cap Polls # {}

Retained(s, come) ==
  LET more == Counted(s, come)
      read == IF Read(s, come) THEN Fetched(more) ELSE more IN
  IF Started(s, come) THEN [read EXCEPT !.timer = Armed(s)] ELSE read

\* A slot that was forgotten is registered again by who still carries it.
\* Mutant: it is not.
Registered_Never(reg, come) == reg
Registered(reg, come) ==
  IF come # {} /\ reg = Unseen THEN carried[CHOOSE c \in come : TRUE] ELSE reg

\* The effects of the batch.
Effects ==
  LET shown == {c \in batch : mode[c] = "shown"}
      gone(i) == {c \in batch : held[c] = i /\ (c \notin shown \/ carried[c] # i)}
      come(i) == {c \in shown : carried[c] = i /\ held[c] # i}
      left == [i \in Slots |-> Released(slot[i], gone(i))]
      kept == IF \E i \in Slots : i = registry /\ Emptied(slot[i], gone(i)) /\ ~slot[i].running
              THEN Unseen ELSE registry IN
  /\ batch # {} /\ batch' = {}
  /\ held' = [c \in Consumers |->
               IF c \in shown THEN carried[c] ELSE IF c \in batch THEN Unseen ELSE held[c]]
  /\ registry' = Registered(kept, UNION {come(i) : i \in Slots})
  /\ slot' = Collected(registry', carried, [i \in Slots |-> Retained(left[i], come(i))])
  /\ dirty' = dirty \cup UNION {Listeners(i) : i \in {j \in Slots :
                 Emptied(slot[j], gone(j)) \/ (Read(left[j], come(j)) /\ Spins(left[j]))}}
  /\ UNCHANGED <<rev, acted, answer, mode, carried, screen, failed>>

Next ==
  \/ Change \/ Act \/ Trim \/ Effects
  \/ \E id \in Slots :
       \/ Reads(id) \/ ReadFails(id) \/ Tick(id)
       \/ \E tier \in Tiers : Settle(id, tier)
  \/ \E c \in Consumers : Refresh(c)
  \/ \E cs \in SUBSET Consumers : \E becomes \in [cs -> {"off", "hidden", "shown"}] : Render(cs, becomes)

Spec == Init /\ [][Next]_vars

-----------------------------------------------------------------------------
\* One answer and one poller per scope: whoever is shown holds the slot under
\* the key, and the counters say who holds it.
OneSlot ==
  /\ \A c \in Consumers : held[c] # Unseen => registry = held[c]
  /\ \A i \in Slots :
       /\ slot[i].visible = Cardinality({c \in Consumers : held[c] = i})
       /\ slot[i].pollers = Cardinality({c \in Polls : held[c] = i})

\* A timer runs for a slot that someone polls, at the pace of its tier, and for
\* no other.
TimerFollows ==
  \A i \in Slots :
    slot[i].timer = IF slot[i].pollers > 0 /\ slot[i].tier # Slowest THEN slot[i].tier ELSE Unseen

\* A refresh is never dropped: when no call is under way, who holds the slot has
\* an answer that saw the user's last action, or the error of its call.
SeesActions ==
  \A i \in Slots : slot[i].visible > 0 /\ ~slot[i].running =>
    slot[i].error \/ (slot[i].snapshot # Unseen /\ slot[i].snapshot >= acted)

\* Who was not told to render again has the slot's fields on screen.
ScreensCurrent ==
  \A c \in Consumers : mode[c] # "off" /\ c \notin dirty => screen[c] = View(slot[carried[c]])

\* No scope without consumers is remembered with its answer.
ForgetsUnheld == registry # Unseen /\ Evictable(slot[registry]) => slot[registry].snapshot = Unseen

\* Whoever comes when nobody held the slot, be it in the batch in which the last
\* one left, has it read again.
ReadAgain ==
  \A c \in Consumers :
    held'[c] # Unseen /\ (\A d \in Consumers : held[d] = held'[c] => held'[d] # held[d])
      => slot'[held'[c]].running
RereadsTheTruth == [][ReadAgain]_vars
=============================================================================
