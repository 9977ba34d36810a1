--------------------------- MODULE ResourceSaves ---------------------------
(***************************************************************************)
(* Saves on a condition: "write this if the document still is what I       *)
(* read".  The client's service (client/resource-data.ts) hands out a      *)
(* baseline with every complete read and takes one back with every save;   *)
(* the host (resource-data-routes.ts) queues the saves of a file, compares *)
(* contents, writes a temp file, compares again and renames.  Callers are  *)
(* the plugins that use the service.  Changing the registered providers    *)
(* begins a new epoch, in which nothing of the old one counts.             *)
(*                                                                         *)
(* Left out: bytes, limits on a text's size, comparisons (read like        *)
(* documents), the match of scopes to providers.                           *)
(***************************************************************************)
EXTENDS Naturals, Sequences, FiniteSets

CONSTANTS
  Callers,
  Files,        \* what the path may name, by symbolic links
  Texts,
  MaxTickets,   \* the 64 of issue()
  Races,        \* others write or relink between the last comparison and the rename
  MaxOthers,    \* bound: writes and relinks by others
  MaxEpoch,     \* bound: changes of the registered providers
  MaxLost,      \* bound: answers of the host that do not arrive
  None

ConstantsAssumption ==
  /\ MaxTickets \in Nat \ {0} /\ Races \in BOOLEAN
  /\ MaxOthers \in Nat /\ MaxEpoch \in Nat /\ MaxLost \in Nat
  /\ Files # {} /\ Texts # {}
  /\ None \notin Texts \cup {"saved", "refused", "unknown"}
  /\ None \notin [text : Texts, pending : BOOLEAN]

VARIABLES
  disk,     \* file -> its text
  link,     \* the file the path names
  epoch, disposed,
  ticket,   \* caller -> its live baseline: [text, pending] or None
  op,       \* caller -> "idle", "reading" or "writing", and the epoch it began in
  route,    \* caller -> its document.write: stage, file, expected and new text
  queue,    \* writes: file -> callers in the order admitted
  told,     \* caller -> what its last save was told: None, "saved", "refused" or "unknown"
  wrote,    \* callers whose last save replaced the document
  blind,    \* a save replaced what it did not expect, or a file the path no longer named
  others, lost

client == <<epoch, disposed, ticket, op>>
host == <<disk, link, route, queue>>
history == <<told, wrote, blind>>
vars == <<client, host, history, others, lost>>

NoRoute == [stage |-> "none", file |-> None, expected |-> None, new |-> None]

TypeOK ==
  /\ disk \in [Files -> Texts] /\ link \in Files
  /\ epoch \in 0..MaxEpoch /\ disposed \in BOOLEAN
  /\ ticket \in [Callers -> {None} \cup [text : Texts, pending : BOOLEAN]]
  /\ op \in [Callers -> [kind : {"idle", "reading", "writing"}, start : 0..MaxEpoch]]
  /\ \A c \in Callers :
       /\ route[c].stage \in {"none", "queued", "compared", "resolved", "ready", "ok", "conflict", "error"}
       /\ route[c].stage \in {"none", "ok", "conflict", "error"} \/ route[c].file \in Files
  /\ \A f \in Files : \A i \in DOMAIN queue[f] : queue[f][i] \in Callers
  /\ told \in [Callers -> {None, "saved", "refused", "unknown"}] /\ wrote \subseteq Callers
  /\ blind \in BOOLEAN /\ others \in 0..MaxOthers /\ lost \in 0..MaxLost

Init ==
  /\ disk \in [Files -> {CHOOSE t \in Texts : TRUE}] /\ link = CHOOSE f \in Files : TRUE
  /\ epoch = 0 /\ disposed = FALSE
  /\ ticket = [c \in Callers |-> None]
  /\ op = [c \in Callers |-> [kind |-> "idle", start |-> 0]]
  /\ route = [c \in Callers |-> NoRoute] /\ queue = [f \in Files |-> << >>]
  /\ told = [c \in Callers |-> None] /\ wrote = {} /\ blind = FALSE
  /\ others = 0 /\ lost = 0

Live == {c \in Callers : ticket[c] # None}
Current(c) == op[c].start = epoch /\ ~disposed

-----------------------------------------------------------------------------
\* readText(): the host reads the document while the call is under way.
Read(c) ==
  /\ op[c].kind = "idle" /\ ticket[c] = None /\ ~disposed
  /\ op' = [op EXCEPT ![c] = [kind |-> "reading", start |-> epoch]]
  /\ UNCHANGED <<epoch, disposed, ticket, host, history, others, lost>>

\* Whether issue() has room for one more baseline beside those of live.
\* Mutant: it takes one too many.
HasRoom_Over(live) == Cardinality(live) <= MaxTickets
HasRoom(live) == Cardinality(live) < MaxTickets

\* The answer, with the text of the moment and a baseline if there is room.  A
\* change of providers aborted the read before.
ReadEnds(c, text) ==
  /\ op[c].kind = "reading" /\ text \in {disk[f] : f \in Files}
  /\ op' = [op EXCEPT ![c].kind = "idle"]
  /\ ticket' = IF HasRoom(Live)
               THEN [ticket EXCEPT ![c] = [text |-> text, pending |-> FALSE]] ELSE ticket
  /\ UNCHANGED <<epoch, disposed, host, history, others, lost>>

\* releaseTextBaseline(): not while a save is pending.
\* Mutant: whenever it is asked for.
Releasable_Always(c) == ticket[c] # None
Releasable(c) == ticket[c] # None /\ ~ticket[c].pending
Release(c) ==
  /\ Releasable(c) /\ ticket' = [ticket EXCEPT ![c] = None]
  /\ UNCHANGED <<epoch, disposed, op, host, history, others, lost>>

\* changed() and dispose(): every baseline is void, and reads under way end.
\* Mutant: baselines survive.
Voided_Not == ticket
Voided == [c \in Callers |-> None]
Changed ==
  /\ ticket' = Voided
  /\ op' = [c \in Callers |-> IF op[c].kind = "reading" THEN [op[c] EXCEPT !.kind = "idle"] ELSE op[c]]
  /\ UNCHANGED <<host, history, others, lost>>

ChangeProviders == ~disposed /\ epoch < MaxEpoch /\ epoch' = epoch + 1 /\ Changed /\ UNCHANGED disposed
Dispose == ~disposed /\ disposed' = TRUE /\ Changed /\ UNCHANGED epoch

\* writeText(), and the admission of document.write to the queue of the file the
\* path names: one step, as nothing else can come between them but a relink.
Write(c, new) ==
  /\ op[c].kind = "idle" /\ ticket[c] # None /\ ~ticket[c].pending /\ ~disposed
  /\ new # ticket[c].text
  /\ ticket' = [ticket EXCEPT ![c].pending = TRUE]
  /\ op' = [op EXCEPT ![c] = [kind |-> "writing", start |-> epoch]]
  /\ route' = [route EXCEPT ![c] =
                [stage |-> "queued", file |-> link, expected |-> ticket[c].text, new |-> new]]
  /\ queue' = [queue EXCEPT ![link] = Append(@, c)]
  /\ told' = [told EXCEPT ![c] = None] /\ wrote' = wrote \ {c}
  /\ UNCHANGED <<epoch, disposed, disk, link, blind, others, lost>>

-----------------------------------------------------------------------------
\* serialize(): a save runs when those admitted before it have ended.
\* Mutant: saves of a file overlap.
MyTurn_Always(c) == TRUE
MyTurn(c) == Head(queue[route[c].file]) = c

\* A save ends, saved or not, and lets the next one run.
\* Mutant: one that fails does not.
Passed_Saved(c, how) ==
  IF how = "ok" THEN [queue EXCEPT ![route[c].file] = Tail(@)] ELSE queue
Passed(c, how) == [queue EXCEPT ![route[c].file] = Tail(@)]
Ends(c, how) == route' = [route EXCEPT ![c].stage = how] /\ queue' = Passed(c, how)

Unchanged(c) == disk[route[c].file] = route[c].expected

\* checkContent, then the temp file.
Compare(c) ==
  /\ route[c].stage = "queued" /\ MyTurn(c)
  /\ IF Unchanged(c)
     THEN route' = [route EXCEPT ![c].stage = "compared"] /\ UNCHANGED queue
     ELSE Ends(c, "conflict")
  /\ UNCHANGED <<disk, link, client, history, others, lost>>

\* realpath of the path again.
Resolve(c) ==
  /\ route[c].stage = "compared"
  /\ IF link = route[c].file
     THEN route' = [route EXCEPT ![c].stage = "resolved"] /\ UNCHANGED queue
     ELSE Ends(c, "conflict")
  /\ UNCHANGED <<disk, link, client, history, others, lost>>

\* checkContent again.
\* Mutant: the second comparison is left out.
Still_Assumed(c) == TRUE
Still(c) == Unchanged(c)
CompareAgain(c) ==
  /\ route[c].stage = "resolved"
  /\ IF Still(c)
     THEN route' = [route EXCEPT ![c].stage = "ready"] /\ UNCHANGED queue
     ELSE Ends(c, "conflict")
  /\ UNCHANGED <<disk, link, client, history, others, lost>>

\* rename over the document.
Commit(c) ==
  /\ route[c].stage = "ready"
  /\ disk' = [disk EXCEPT ![route[c].file] = route[c].new]
  /\ wrote' = wrote \cup {c}
  /\ blind' = (blind \/ ~Unchanged(c) \/ link # route[c].file)
  /\ Ends(c, "ok")
  /\ UNCHANGED <<link, client, told, others, lost>>

\* The disk refuses before the rename.
Fails(c) ==
  /\ lost < MaxLost /\ lost' = lost + 1
  /\ route[c].stage \in {"compared", "resolved", "ready"} /\ Ends(c, "error")
  /\ UNCHANGED <<disk, link, client, history, others>>

\* The answer is lost, and the call rejects without a code.
LosesAnswer(c) ==
  /\ lost < MaxLost /\ lost' = lost + 1
  /\ route[c].stage \in {"ok", "conflict"} /\ route' = [route EXCEPT ![c].stage = "error"]
  /\ UNCHANGED <<disk, link, queue, client, history, others>>

\* What the caller is told of a save that was answered thus: a refusal is final,
\* anything else leaves open whether it was written.
\* Mutant: every rejection counts as a refusal.
Verdict_Refused(c, answer) ==
  CASE answer = "ok" -> IF Current(c) THEN "saved" ELSE "unknown"
    [] OTHER -> IF Current(c) THEN "refused" ELSE "unknown"
Verdict(c, answer) ==
  CASE answer = "ok" -> IF Current(c) THEN "saved" ELSE "unknown"
    [] answer = "conflict" -> IF Current(c) THEN "refused" ELSE "unknown"
    [] OTHER -> "unknown"

\* writeText() after its await: the baseline is used up, and a save of this epoch
\* gets the next one; if issue() finds no room it throws after all.
Answered(c) ==
  LET answer == route[c].stage
      rest == Live \ {c} IN
  /\ op[c].kind = "writing" /\ answer \in {"ok", "conflict", "error"}
  /\ op' = [op EXCEPT ![c].kind = "idle"]
  /\ route' = [route EXCEPT ![c] = NoRoute]
  /\ IF answer = "ok" /\ Current(c)
     THEN /\ ticket' = [ticket EXCEPT ![c] =
                         IF HasRoom(rest) THEN [text |-> route[c].new, pending |-> FALSE] ELSE None]
          /\ told' = [told EXCEPT ![c] = IF HasRoom(rest) THEN "saved" ELSE "refused"]
     ELSE /\ ticket' = [ticket EXCEPT ![c] = IF answer = "ok" THEN @ ELSE None]
          /\ told' = [told EXCEPT ![c] = Verdict(c, answer)]
  /\ UNCHANGED <<epoch, disposed, disk, link, queue, wrote, blind, others, lost>>

\* Other writers and symbolic links.  Without Races, not after the comparison
\* that would have noticed them.
Calm(stages) == Races \/ \A c \in Callers : route[c].stage \notin stages
WriteElsewhere(f, t) ==
  /\ others < MaxOthers /\ Calm({"ready"}) /\ t # disk[f]
  /\ disk' = [disk EXCEPT ![f] = t] /\ others' = others + 1
  /\ UNCHANGED <<link, route, queue, client, history, lost>>
Relink(f) ==
  /\ others < MaxOthers /\ Calm({"resolved", "ready"}) /\ f # link
  /\ link' = f /\ others' = others + 1
  /\ UNCHANGED <<disk, route, queue, client, history, lost>>

Next ==
  \/ ChangeProviders \/ Dispose
  \/ \E f \in Files : Relink(f) \/ \E t \in Texts : WriteElsewhere(f, t)
  \/ \E c \in Callers :
       \/ Read(c) \/ ReadEnds(c, disk[link]) \/ Release(c)
       \/ Compare(c) \/ Resolve(c) \/ CompareAgain(c) \/ Commit(c)
       \/ Fails(c) \/ LosesAnswer(c) \/ Answered(c)
       \/ \E t \in Texts : Write(c, t)

\* The host's calls end.
Fairness ==
  \A c \in Callers :
    WF_vars(Compare(c) \/ Resolve(c) \/ CompareAgain(c) \/ Commit(c) \/ Answered(c))

Spec == Init /\ [][Next]_vars /\ Fairness

-----------------------------------------------------------------------------
\* resource-data-routes.ts:94: a save replaces the text its baseline was read
\* from, in the file the path names.  (Lines 2-4 say what Races breaks.)
NeverBlind == ~blind

\* resource-data.ts:245: whoever is told "saved" has saved, and whoever is told
\* that the save was refused has not, however the providers change meanwhile.
OutcomesAreTrue ==
  \A c \in Callers :
    /\ told[c] = "saved" => c \in wrote
    /\ told[c] = "refused" => c \notin wrote

\* resource-data.ts:29: a baseline is of this epoch, there are not more than the
\* limit, and one with a save pending has its call under way.
BaselinesBound ==
  /\ Cardinality(Live) <= MaxTickets
  /\ disposed => Live = {}
  /\ \A c \in Live : ticket[c].pending = (op[c].kind = "writing" /\ Current(c))

\* A plugin saves over nothing but what it read, and is told the truth of how
\* that ended, however many others save.
ToldTheTruth == NeverBlind /\ OutcomesAreTrue /\ BaselinesBound

\* Every save is answered.
SavesEnd(c) == op[c].kind = "writing" ~> op[c].kind = "idle"
=============================================================================
