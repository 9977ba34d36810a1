---------------------- MODULE MCWorkspaceTerminals ----------------------
(***************************************************************************)
(* Small instances of WorkspaceTerminals, in which all conversations share  *)
(* one workspace.  A behaviour is about the instance chosen at its start:  *)
(*   limits        two calls and a sweep race for the one slot there is    *)
(*   reservation   two calls, and room for two shells                      *)
(*   reclaim       one terminal with its views, bytes, markers and time    *)
(* Terminals, calls and conversations are interchangeable.                 *)
(***************************************************************************)
EXTENDS WorkspaceTerminals, TLC

CONSTANTS OneTerm, OneCall  \* what "reclaim" is about

VARIABLE part

MCWorkspaceOf == [s \in Sessions |-> CHOOSE w \in Workspaces : TRUE]
Symmetry ==
  Permutations(Sessions) \cup Permutations(Terms) \cup Permutations(Calls)

OneSlot == INSTANCE WorkspaceTerminals WITH MaxPerWorkspace <- 1

Reclaim == INSTANCE WorkspaceTerminals WITH
  MaxPerWorkspace <- 1, Terms <- OneTerm, Calls <- OneCall, MaxViews <- 1,
  IdleRetention <- 2, Integrations <- BOOLEAN

mcVars == <<part, vars>>

MCInit ==
  \/ part \in {"limits", "reservation"} /\ Init
  \/ part = "reclaim" /\ Reclaim!Init

MCNext ==
  \/ part = "limits" /\ OneSlot!Next /\ UNCHANGED part
  \/ part = "reservation" /\ Next /\ UNCHANGED part
  \/ part = "reclaim" /\ Reclaim!Next /\ UNCHANGED part

MCSpec == MCInit /\ [][MCNext]_mcVars

\* No action reads the history variable; only "reclaim" tells states apart by it.
View ==
  <<part, terminals, process, handle, call, locks, sweeping, disposed,
    IF part = "reclaim" THEN wanted ELSE << >> >>

-----------------------------------------------------------------------------
\* The types of the manager, its terminals, calls and sweep; and calls that race
\* for one slot leave one terminal.
ManagerTypeOK ==
  CASE part = "limits" -> OneSlot!TypeOK /\ OneSlot!LiveLimits
    [] part = "reservation" -> TypeOK
    [] part = "reclaim" -> Reclaim!TypeOK

\* What a sweep removes was unused for as long as the retention asks.
ReclaimsOnlyTheUnused == [][part = "reclaim" => Reclaim!RemovesTheUnused]_mcVars
=========================================================================
