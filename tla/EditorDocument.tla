-------------------------- MODULE EditorDocument --------------------------
(***************************************************************************)
(* The editor tabs of one file (client/TextEditor.tsx, EditorHost.tsx,     *)
(* editor-dirty.ts) and the save route (fs-operations.ts writeWorkspaceText): *)
(* a tab's load (stat, then read), its document, mode and draft, the save  *)
(* gated by the mtime the draft was based on, the reloads (refresh, the    *)
(* model's writes, a save in preview, the way back to preview), and a      *)
(* rename in the tree, which re-points the tab without a reload.           *)
(*                                                                         *)
(* A text is a number: every writer and every keystroke makes a new one.   *)
(* The file's mtime is new with every write.  "known" is the text of the   *)
(* disk the instance last read or wrote.  A reload replaces the instance:  *)
(* its document is gone, its save in flight goes on without it.            *)
(* Left out: binary and large files, encodings, the drafts of other files. *)
(* The code viewer has one mode and is typed into in it; here one types in *)
(* edit mode, and a draft in preview comes of ToEdit, Type and ToPreview.  *)
(***************************************************************************)
EXTENDS Integers, FiniteSets

CONSTANTS
  Tabs,          \* editor tabs on the file
  TypesInSave,   \* whether the user types while a save is in flight
  Overlap,       \* whether others write between a save's check, rename and stat
  Renames,       \* "never", "clean" (over unchanged documents) or "any"
  MaxTexts,      \* bound: texts made
  MaxSaves,      \* bound: saves
  MaxLoads,      \* bound: the user's opens, refreshes and renames
  MaxFailures    \* bound: saves that fail and answers that are lost

ConstantsAssumption ==
  /\ TypesInSave \in BOOLEAN /\ Overlap \in BOOLEAN
  /\ Renames \in {"never", "clean", "any"}
  /\ MaxTexts \in Nat \ {0} /\ MaxSaves \in Nat /\ MaxLoads \in Nat /\ MaxFailures \in Nat

VARIABLES
  disk,      \* the file: text, mtime, who wrote it, and how often it was renamed
  doc,       \* tab -> the document its instance holds
  load,      \* tab -> its read in flight
  flights,   \* saves between Ctrl-S and their answer
  touches,   \* settled writes of the model, and how many were published
  seen,      \* tab -> the published revision it has reacted to
  made, saves, loads, failures,
  lost,      \* history: texts a reload or a close dropped without asking
  blind      \* history: a save replaced a text its draft was not based on

vars == <<disk, doc, load, flights, touches, seen, made, saves, loads, failures, lost, blind>>

Texts == 1 .. MaxTexts
Closed == [status |-> "closed", content |-> 0, text |-> 0, known |-> 0, base |-> 0,
           dirty |-> FALSE, mode |-> "preview", saveState |-> "idle", conflict |-> FALSE]
Loading == [Closed EXCEPT !.status = "loading"]
NoLoad == [stage |-> "none", mtime |-> 0, content |-> 0]

TypeOK ==
  /\ disk \in [text: Texts, mtime: Nat, by: {"user", "model", "other"}, name: 0 .. MaxLoads]
  /\ \A t \in Tabs :
       /\ doc[t].status \in {"closed", "loading", "ready"}
       /\ doc[t].content \in 0 .. made /\ doc[t].text \in 0 .. made
       /\ doc[t].known \in 0 .. made /\ doc[t].base \in 0 .. disk.mtime
       /\ doc[t].dirty \in BOOLEAN /\ doc[t].mode \in {"preview", "edit"}
       /\ doc[t].saveState \in {"idle", "saving", "saved", "failed"}
       /\ doc[t].conflict \in BOOLEAN
       /\ doc[t].status # "ready" => doc[t] \in {Closed, Loading}
       /\ load[t] \in [stage: {"none", "asked", "statted", "read"}, mtime: 0 .. disk.mtime,
                       content: 0 .. made]
       /\ load[t].stage # "none" => doc[t].status = "loading"
       /\ Cardinality({f \in flights : f.tab = t /\ f.live}) <= 1
  /\ \A f \in flights : f.live => doc[f.tab].status = "ready" /\ doc[f.tab].saveState = "saving"
  /\ made \in Texts /\ saves \in 0 .. MaxSaves /\ loads \in 0 .. MaxLoads
  /\ failures \in 0 .. MaxFailures /\ lost \subseteq Texts /\ blind \in BOOLEAN

Init ==
  /\ disk = [text |-> 1, mtime |-> 1, by |-> "other", name |-> 0]
  /\ \/ doc = [t \in Tabs |-> Closed] /\ load = [t \in Tabs |-> NoLoad]
     \/ /\ doc = [t \in Tabs |-> Loading]
        /\ load = [t \in Tabs |-> [NoLoad EXCEPT !.stage = "asked"]]
  /\ flights = {} /\ touches = [written |-> 0, published |-> 0]
  /\ seen = [t \in Tabs |-> 0]
  /\ made = 1 /\ saves = 0 /\ loads = 0 /\ failures = 0 /\ lost = {} /\ blind = FALSE

-----------------------------------------------------------------------------
Ready(t) == doc[t].status = "ready"
Saving(t) == \E f \in flights : f.tab = t /\ f.live
Unsaved(t) == Ready(t) /\ doc[t].text # doc[t].known
MidSave == \E f \in flights : f.stage \in {"checked", "renamed"}
MayWrite == Overlap \/ ~MidSave

\* The instances of ts go: their saves in flight lose their reader, and what
\* they held unsaved is lost unless the user was asked.
\* Mutant: they keep it.
Orphaned_Never(fs, ts) == fs
Orphaned(fs, ts) == {[f EXCEPT !.live = @ /\ f.tab \notin ts] : f \in fs}
Dropped(ts) == {doc[t].text : t \in {u \in ts : Unsaved(u)}}

\* The load effect runs again: the loading row takes the viewer's place.
Reloaded(ts) ==
  /\ doc' = [t \in Tabs |-> IF t \in ts THEN Loading ELSE doc[t]]
  /\ load' = [t \in Tabs |-> IF t \in ts THEN [NoLoad EXCEPT !.stage = "asked"] ELSE load[t]]

-----------------------------------------------------------------------------
(* The tab                                                                  *)

Open(t) ==
  /\ doc[t].status = "closed" /\ loads < MaxLoads
  /\ loads' = loads + 1
  /\ Reloaded({t})
  /\ seen' = [seen EXCEPT ![t] = touches.published]
  /\ UNCHANGED <<disk, flights, touches, made, saves, failures, lost, blind>>

\* A dirty document is closed or refreshed only after the user said so.
Close(t) ==
  /\ doc[t].status # "closed"
  /\ lost' = IF doc[t].dirty THEN lost ELSE lost \cup Dropped({t})
  /\ doc' = [doc EXCEPT ![t] = Closed]
  /\ load' = [load EXCEPT ![t] = NoLoad]
  /\ flights' = Orphaned(flights, {t})
  /\ UNCHANGED <<disk, touches, seen, made, saves, loads, failures, blind>>

Refresh(t) ==
  /\ Ready(t) /\ loads < MaxLoads
  /\ loads' = loads + 1
  /\ lost' = IF doc[t].dirty THEN lost ELSE lost \cup Dropped({t})
  /\ Reloaded({t})
  /\ flights' = Orphaned(flights, {t})
  /\ UNCHANGED <<disk, touches, seen, made, saves, failures, blind>>

Drafted(d, text) == [d EXCEPT !.text = text, !.dirty = TRUE]

Type(t) ==
  /\ Ready(t) /\ doc[t].mode = "edit" /\ made < MaxTexts
  /\ TypesInSave \/ ~Saving(t)
  /\ made' = made + 1
  /\ doc' = [doc EXCEPT ![t] = Drafted(@, made + 1)]
  /\ UNCHANGED <<disk, load, flights, touches, seen, saves, loads, failures, lost, blind>>

ToEdit(t) ==
  /\ Ready(t) /\ doc[t].mode = "preview"
  /\ doc' = [doc EXCEPT ![t].mode = "edit"]
  /\ UNCHANGED <<disk, load, flights, touches, seen, made, saves, loads, failures, lost, blind>>

\* The way back reloads, unless that would drop a draft.
\* Mutants: it always reloads; it never does.
StaysOnReturn_Never(t) == FALSE
StaysOnReturn_Always(t) == TRUE
StaysOnReturn(t) == doc[t].dirty \/ doc[t].saveState = "failed"

ToPreview(t) ==
  /\ Ready(t) /\ doc[t].mode = "edit"
  /\ IF StaysOnReturn(t)
     THEN /\ doc' = [doc EXCEPT ![t].mode = "preview"]
          /\ UNCHANGED <<load, flights, lost>>
     ELSE /\ Reloaded({t})
          /\ lost' = lost \cup Dropped({t})
          /\ flights' = Orphaned(flights, {t})
  /\ UNCHANGED <<disk, touches, seen, made, saves, loads, failures, blind>>

Flight(t) ==
  [id |-> saves + 1, tab |-> t, live |-> TRUE, text |-> doc[t].text, knew |-> doc[t].known,
   expected |-> doc[t].base, name |-> disk.name, stage |-> "sent", mtime |-> 0]

Save(t) ==
  /\ Ready(t) /\ ~Saving(t) /\ saves < MaxSaves
  /\ saves' = saves + 1
  /\ flights' = flights \cup {Flight(t)}
  /\ doc' = [doc EXCEPT ![t].saveState = "saving"]
  /\ UNCHANGED <<disk, load, touches, seen, made, loads, failures, lost, blind>>

\* The answer of a live save: adopt the baseline; in preview, show it.
Adopt(d, f) ==
  [d EXCEPT !.known = f.text, !.base = f.mtime, !.dirty = FALSE, !.conflict = FALSE,
            !.saveState = "saved"]

\* A refusal raises the banner and leaves the draft.
\* Mutant: it counts as settled.
Refused_Settled(d) == [d EXCEPT !.conflict = TRUE, !.saveState = "idle", !.dirty = FALSE]
Refused(d) == [d EXCEPT !.conflict = TRUE, !.saveState = "idle"]

SaveAnswered(f) ==
  /\ f \in flights /\ f.stage \in {"done", "conflict", "failed"}
  /\ flights' = flights \ {f}
  /\ IF ~f.live THEN UNCHANGED <<doc, load, lost>>
     ELSE IF f.stage = "done" /\ doc[f.tab].mode = "preview"
     THEN /\ Reloaded({f.tab})
          /\ lost' = IF doc[f.tab].text = f.text THEN lost ELSE lost \cup Dropped({f.tab})
     ELSE /\ doc' = [doc EXCEPT ![f.tab] =
               CASE f.stage = "done" -> Adopt(@, f)
                 [] f.stage = "conflict" -> Refused(@)
                 [] OTHER -> [@ EXCEPT !.saveState = "failed"]]
          /\ UNCHANGED <<load, lost>>
  /\ UNCHANGED <<disk, touches, seen, made, saves, loads, failures, blind>>

\* The answer is lost on the way; the host's work is not.
AnswerLost(f) ==
  /\ f \in flights /\ f.live /\ failures < MaxFailures
  /\ failures' = failures + 1
  /\ doc' = [doc EXCEPT ![f.tab].saveState = "failed"]
  /\ flights' = (flights \ {f}) \cup {[f EXCEPT !.live = FALSE]}
  /\ UNCHANGED <<disk, load, touches, seen, made, saves, loads, lost, blind>>

-----------------------------------------------------------------------------
(* The host                                                                 *)

\* A read takes the mtime before the bytes.
LoadStat(t) ==
  /\ load[t].stage = "asked"
  /\ load' = [load EXCEPT ![t].stage = "statted", ![t].mtime = disk.mtime]
  /\ UNCHANGED <<disk, doc, flights, touches, seen, made, saves, loads, failures, lost, blind>>

LoadRead(t) ==
  /\ load[t].stage = "statted"
  /\ load' = [load EXCEPT ![t].stage = "read", ![t].content = disk.text]
  /\ UNCHANGED <<disk, doc, flights, touches, seen, made, saves, loads, failures, lost, blind>>

Loaded(l) ==
  [status |-> "ready", content |-> l.content, text |-> l.content, known |-> l.content,
   base |-> l.mtime, dirty |-> FALSE, mode |-> "preview", saveState |-> "idle", conflict |-> FALSE]

LoadDone(t) ==
  /\ load[t].stage = "read"
  /\ doc' = [doc EXCEPT ![t] = Loaded(load[t])]
  /\ load' = [load EXCEPT ![t] = NoLoad]
  /\ UNCHANGED <<disk, flights, touches, seen, made, saves, loads, failures, lost, blind>>

\* A write makes a new text and a new mtime of the file.
Written(text, by) == [disk EXCEPT !.text = text, !.mtime = @ + 1, !.by = by]

\* The gate: the file is the one the draft was based on.
\* Mutant: only a file that is older than the draft's base has drifted.
Drifted_Older(f) == f.name # disk.name \/ f.expected > disk.mtime
Drifted(f) == f.name # disk.name \/ f.expected # disk.mtime

SaveChecked(f) ==
  /\ f \in flights /\ f.stage = "sent" /\ MayWrite
  /\ flights' = (flights \ {f}) \cup
       {[f EXCEPT !.stage = IF Drifted(f) THEN "conflict" ELSE "checked"]}
  /\ UNCHANGED <<disk, doc, load, touches, seen, made, saves, loads, failures, lost, blind>>

SaveFails(f) ==
  /\ f \in flights /\ f.stage \in {"sent", "checked"} /\ failures < MaxFailures
  /\ failures' = failures + 1
  /\ flights' = (flights \ {f}) \cup {[f EXCEPT !.stage = "failed"]}
  /\ UNCHANGED <<disk, doc, load, touches, seen, made, saves, loads, lost, blind>>

SaveRenamed(f) ==
  /\ f \in flights /\ f.stage = "checked"
  /\ disk' = Written(f.text, "user")
  /\ blind' = (blind \/ disk.text # f.knew)
  /\ flights' = (flights \ {f}) \cup {[f EXCEPT !.stage = "renamed"]}
  /\ UNCHANGED <<doc, load, touches, seen, made, saves, loads, failures, lost>>

SaveStatted(f) ==
  /\ f \in flights /\ f.stage = "renamed"
  /\ flights' = (flights \ {f}) \cup {[f EXCEPT !.stage = "done", !.mtime = disk.mtime]}
  /\ UNCHANGED <<disk, doc, load, touches, seen, made, saves, loads, failures, lost, blind>>

Write(by) ==
  /\ MayWrite /\ made < MaxTexts
  /\ made' = made + 1
  /\ disk' = Written(made + 1, by)
  /\ touches' = IF by = "model" THEN [touches EXCEPT !.written = @ + 1] ELSE touches
  /\ UNCHANGED <<doc, load, flights, seen, saves, loads, failures, lost, blind>>

\* A settled write of the model is published: every open tab takes note, and
\* reloads unless it holds a draft or is being edited.
\* Mutants: only editing spares it; a tab that is still loading is spared too.
Spared_Editing(t) == Ready(t) /\ doc[t].mode = "edit"
Spared_Loading(t) == ~Ready(t) \/ doc[t].dirty \/ doc[t].mode = "edit"
Spared(t) == Ready(t) /\ (doc[t].dirty \/ doc[t].mode = "edit")

Publish ==
  /\ touches.published < touches.written
  /\ touches' = [touches EXCEPT !.published = touches.written]
  /\ LET open == {t \in Tabs : doc[t].status # "closed"}
         stale == {t \in open : ~Spared(t)}
     IN  /\ seen' = [t \in Tabs |-> IF t \in open THEN touches.written ELSE seen[t]]
         /\ Reloaded(stale)
         /\ lost' = lost \cup Dropped(stale)
         /\ flights' = Orphaned(flights, stale)
  /\ UNCHANGED <<disk, made, saves, loads, failures, blind>>

\* A rename re-points the open tabs.  A load in flight is cancelled and no other
\* takes its place; a ready tab's view is made again from the loaded content.
RenameFile ==
  /\ loads < MaxLoads /\ MayWrite
  /\ \/ Renames = "any"
     \/ /\ Renames = "clean"
        /\ \A t \in Tabs : Ready(t) => doc[t].text = doc[t].content /\ ~Unsaved(t)
        /\ \A t \in Tabs : doc[t].status # "loading"
  /\ loads' = loads + 1
  /\ disk' = [disk EXCEPT !.name = @ + 1]
  /\ doc' = [t \in Tabs |-> [doc[t] EXCEPT !.text = doc[t].content]]
  /\ load' = [t \in Tabs |-> NoLoad]
  /\ lost' = lost \cup Dropped({t \in Tabs : doc[t].text # doc[t].content})
  /\ UNCHANGED <<flights, touches, seen, made, saves, failures, blind>>

-----------------------------------------------------------------------------
HostStep(f) == SaveChecked(f) \/ SaveRenamed(f) \/ SaveStatted(f)
LoadStep(t) == LoadStat(t) \/ LoadRead(t) \/ LoadDone(t)

Next ==
  \/ \E t \in Tabs :
       \/ Open(t) \/ Close(t) \/ Refresh(t)
       \/ Type(t) \/ ToEdit(t) \/ ToPreview(t) \/ Save(t)
       \/ LoadStep(t)
  \/ \E f \in flights : HostStep(f) \/ SaveFails(f) \/ SaveAnswered(f) \/ AnswerLost(f)
  \/ \E by \in {"model", "other"} : Write(by)
  \/ Publish
  \/ RenameFile

\* Reads and saves are worked off and answered; what was written is published.
Fairness ==
  /\ \A t \in Tabs : WF_vars(LoadStep(t))
  /\ WF_vars(\E f \in flights : HostStep(f) \/ SaveAnswered(f))
  /\ WF_vars(Publish)

Spec == Init /\ [][Next]_vars /\ Fairness

-----------------------------------------------------------------------------
(* Properties                                                               *)

\* The registry of drafts knows every tab whose document differs from the disk
\* as the tab knows it, so that closing it asks.
DraftsAreGuarded == \A t \in Tabs : Unsaved(t) => doc[t].dirty

\* No reload, close or rename drops a draft without asking.
NothingLost == lost = {}

\* A draft is known to the registry that guards it, and neither a reload nor a
\* rename over clean documents drops one unasked, whoever writes meanwhile.
DraftsAreSafe == DraftsAreGuarded /\ NothingLost

\* A save replaces only the text its draft was based on.
NeverBlind == ~blind

\* A clean preview left alone, whose last save was not refused, comes to show
\* the model's last write, and no tab stays in the loading row.
PreviewsFollow ==
  \A t \in Tabs :
    /\ []<>(doc[t].status # "loading")
    /\ <>[](/\ Ready(t) /\ doc[t].mode = "preview"
            /\ ~doc[t].dirty /\ ~doc[t].conflict /\ doc[t].saveState # "failed")
      => <>[](disk.by = "model" => doc[t].content = disk.text)
=============================================================================
