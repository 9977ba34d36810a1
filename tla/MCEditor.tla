----------------------------- MODULE MCEditor -----------------------------
(***************************************************************************)
(* The open file, what refreshes it and who else saves it, on small        *)
(* instances: the editor tabs of a file (EditorDocument), the stream that  *)
(* tells them of the model's writes (FileOpStream), and the conditional    *)
(* saves plugins make (ResourceSaves).  EditorDocument takes a publication *)
(* for granted and FileOpStream says when one comes; they share no state,  *)
(* so a behaviour is about one of them, chosen at the start.               *)
(***************************************************************************)
EXTENDS EditorDocument

CONSTANTS Viewers, w1, w2, None, Callers, Files, Replacements

VARIABLES part, raced, log, snap, stream, gen, members, leader, pull, sub, shown, fired, base,
          pullFailures, leaves,
          documents, link, epoch, disposed, ticket, op, route, queue, told, wrote, overwrote,
          others, dropped

\* One save, but a failure, the file renamed, and others writing at any moment:
\* here a save may well be blind.
Racing == INSTANCE EditorDocument WITH
  Overlap <- TRUE, MaxSaves <- 1, MaxFailures <- 1, MaxLoads <- 1, blind <- raced

\* Windows that hold the whole log, and viewers that leave and come back.
Steady == INSTANCE FileOpStream WITH
  Tabs <- Viewers, Ops <- {w1, w2}, Ptc <- {w2}, EventWindow <- 4, IdleWindow <- 4,
  Evicts <- FALSE, MaxFailures <- 1, MaxLeaves <- 1, failures <- pullFailures

\* Windows that forget, and a record that may be evicted.
Narrow == INSTANCE FileOpStream WITH
  Tabs <- Viewers, Ops <- {w1, w2}, Ptc <- {w2}, EventWindow <- 3, IdleWindow <- 1,
  Evicts <- TRUE, MaxFailures <- 0, MaxLeaves <- 0, failures <- pullFailures

\* Two plugins save a document where there is room for one baseline.
Plugins == INSTANCE ResourceSaves WITH
  Texts <- Replacements, MaxTickets <- 1, Races <- FALSE, MaxOthers <- 1, MaxEpoch <- 1,
  MaxLost <- 1, disk <- documents, blind <- overwrote, lost <- dropped

ASSUME Racing!ConstantsAssumption /\ Steady!ConstantsAssumption /\ Narrow!ConstantsAssumption
ASSUME Plugins!ConstantsAssumption

streamVars == <<log, snap, stream, gen, members, leader, pull, sub, shown, fired, base,
                pullFailures, leaves>>
saveVars == <<documents, link, epoch, disposed, ticket, op, route, queue, told, wrote, overwrote,
              others, dropped>>
mcVars == <<part, vars, raced, streamVars, saveVars>>

MCInit ==
  /\ part \in {"editor", "racing", "steady", "narrow", "plugins"}
  /\ Init /\ raced = FALSE /\ Steady!Init /\ Plugins!Init
  /\ (part \in {"steady", "narrow", "plugins"}) = (load = [t \in Tabs |-> NoLoad])

MCNext ==
  \/ part = "editor" /\ Next /\ UNCHANGED <<part, raced, streamVars, saveVars>>
  \/ part = "racing" /\ Racing!Next /\ UNCHANGED <<part, blind, streamVars, saveVars>>
  \/ part = "steady" /\ Steady!Next /\ UNCHANGED <<part, vars, raced, saveVars>>
  \/ part = "narrow" /\ Narrow!Next /\ UNCHANGED <<part, vars, raced, saveVars>>
  \/ part = "plugins" /\ Plugins!Next /\ UNCHANGED <<part, vars, raced, streamVars>>

\* A part that was not chosen has nothing to do in its initial state.
MCSpec == MCInit /\ [][MCNext]_mcVars /\ Fairness /\ Steady!Fairness /\ Plugins!Fairness

-----------------------------------------------------------------------------
\* The types of the tabs, of the save route, of the stream and of the plugins' saves.
EditorTypeOK ==
  /\ IF part = "racing" THEN Racing!TypeOK ELSE TypeOK
  /\ IF part = "narrow" THEN Narrow!TypeOK ELSE Steady!TypeOK
  /\ Plugins!TypeOK

\* What is published is what the tabs come to show.  One tab pulls for all; a write
\* is published once, after it settled, unless the baseline covered it, and none
\* that began after the baseline is skipped; all who joined render what was
\* published.  And every tab ends loading, a clean preview shows the model's last
\* write, and a tab that stays on screen hears of every write; a plugin's save is
\* answered.  (The last two are asked of one of two alike.)
PreviewsSettle ==
  /\ [](Steady!OneLeads /\ (part = "narrow" => Narrow!FiresOnce))
  /\ [](part # "narrow" => Steady!FiresOnce /\ Steady!SettledIsPublished /\ Steady!MembersHear)
  /\ part = "editor" => PreviewsFollow
  /\ part = "steady" => Steady!TouchesArrive(CHOOSE v \in Viewers : TRUE)
  /\ part = "plugins" => Plugins!SavesEnd(CHOOSE c \in Callers : TRUE)

\* A plugin's save replaces only what its baseline was read from, and the plugin is
\* told the truth of how it ended.
ToldTheTruth == Plugins!ToldTheTruth
=============================================================================
