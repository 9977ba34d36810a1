----------------------- MODULE EditorDocument_proofs -----------------------
(***************************************************************************)
(* Proofs about EditorDocument, for any number of tabs, texts and saves.   *)
(* TypeInv says what fits: each document, read and save by itself (DocFits, *)
(* LoadFits, FlightFits), and which of them belong together (LoadingLoads, *)
(* LiveSaves, OneLive).  Most actions do one of three things, and each is  *)
(* reasoned about once: a set of tabs is loaded again and its saves lose   *)
(* their reader (RowsAgain), one tab's document changes (SameRow, RowSafe, *)
(* RowKnows), or one save takes a step (SaveSteps, SavesSafe).             *)
(*                                                                         *)
(* Drafts are safe because a save that still has its reader carries the    *)
(* text the reader shows (SavesTheText): what its answer settles is what   *)
(* was saved.  Saves are not blind because an mtime stands for a text:     *)
(* whoever holds the file's holds its text (DocsKnow, ReadsKnow,           *)
(* SavesKnow), nobody holds the next one (NewMtime), and one save at a     *)
(* time is between its check and its stat (OneMidSave).                    *)
(***************************************************************************)
EXTENDS EditorDocument, Sequences, FiniteSetTheorems, TLAPS

Docs == [status: {"closed", "loading", "ready"}, content: Nat, text: Nat, known: Nat, base: Nat,
         dirty: BOOLEAN, mode: {"preview", "edit"},
         saveState: {"idle", "saving", "saved", "failed"}, conflict: BOOLEAN]
LoadSet == [stage: {"none", "asked", "statted", "read"}, mtime: Nat, content: Nat]
FlightSet == [id: Nat, tab: Tabs, live: BOOLEAN, text: Nat, knew: Nat, expected: Nat, name: Nat,
              stage: {"sent", "checked", "renamed", "done", "conflict", "failed"}, mtime: Nat]
DiskSet == [text: Nat, mtime: Nat, by: {"user", "model", "other"}, name: Nat]

Asked == [NoLoad EXCEPT !.stage = "asked"]

-----------------------------------------------------------------------------
(* What the helpers make of a document, a read and a save                   *)

\* The documents no instance holds, and the reads that have seen nothing.
LEMMA Blank ==
  /\ Closed \in Docs /\ Closed.status = "closed" /\ Closed.text = 0 /\ Closed.content = 0
  /\ Closed.known = 0 /\ Closed.base = 0 /\ Closed.dirty = FALSE
  /\ Loading \in Docs /\ Loading.status = "loading" /\ Loading.text = 0 /\ Loading.content = 0
  /\ Loading.known = 0 /\ Loading.base = 0 /\ Loading.dirty = FALSE
  /\ NoLoad \in LoadSet /\ NoLoad.stage = "none" /\ NoLoad.mtime = 0 /\ NoLoad.content = 0
  /\ Asked \in LoadSet /\ Asked.stage = "asked" /\ Asked.mtime = 0 /\ Asked.content = 0
BY DEF Closed, Loading, NoLoad, Asked, Docs, LoadSet

\* A new text changes nothing else of a document.
LEMMA TextFacts ==
  ASSUME NEW d \in Docs, NEW x \in Nat
  PROVE LET e == [d EXCEPT !.text = x] IN
        /\ e \in Docs /\ e.text = x /\ e.dirty = d.dirty /\ e.status = d.status
        /\ e.content = d.content /\ e.known = d.known /\ e.base = d.base
        /\ e.saveState = d.saveState
BY SMTT(60) DEF Docs

\* Nor does what is known of the disk.
LEMMA KnownFacts ==
  ASSUME NEW d \in Docs, NEW x \in Nat
  PROVE LET e == [d EXCEPT !.known = x] IN
        /\ e \in Docs /\ e.text = d.text /\ e.dirty = d.dirty /\ e.status = d.status
        /\ e.content = d.content /\ e.known = x /\ e.base = d.base
        /\ e.saveState = d.saveState
BY SMTT(60) DEF Docs

\* Nor the mtime it is based on.
LEMMA BaseFacts ==
  ASSUME NEW d \in Docs, NEW x \in Nat
  PROVE LET e == [d EXCEPT !.base = x] IN
        /\ e \in Docs /\ e.text = d.text /\ e.dirty = d.dirty /\ e.status = d.status
        /\ e.content = d.content /\ e.known = d.known /\ e.base = x
        /\ e.saveState = d.saveState
BY SMTT(60) DEF Docs

\* Nor the registry's word for it.
LEMMA DirtyFacts ==
  ASSUME NEW d \in Docs, NEW x \in BOOLEAN
  PROVE LET e == [d EXCEPT !.dirty = x] IN
        /\ e \in Docs /\ e.text = d.text /\ e.dirty = x /\ e.status = d.status
        /\ e.content = d.content /\ e.known = d.known /\ e.base = d.base
        /\ e.saveState = d.saveState
BY SMTT(60) DEF Docs

\* Nor the banner.
LEMMA ConflictFacts ==
  ASSUME NEW d \in Docs, NEW x \in BOOLEAN
  PROVE LET e == [d EXCEPT !.conflict = x] IN
        /\ e \in Docs /\ e.text = d.text /\ e.dirty = d.dirty /\ e.status = d.status
        /\ e.content = d.content /\ e.known = d.known /\ e.base = d.base
        /\ e.saveState = d.saveState
BY SMTT(60) DEF Docs

\* A keystroke makes a dirty text of the document.
LEMMA DraftedFacts ==
  ASSUME NEW d \in Docs, NEW x \in Nat
  PROVE /\ Drafted(d, x) \in Docs
        /\ Drafted(d, x).text = x /\ Drafted(d, x).dirty = TRUE
        /\ Drafted(d, x).status = d.status /\ Drafted(d, x).content = d.content
        /\ Drafted(d, x).known = d.known /\ Drafted(d, x).base = d.base
        /\ Drafted(d, x).saveState = d.saveState
<1> DEFINE e == [d EXCEPT !.text = x]
<1>1. e \in Docs /\ e.text = x /\ e.status = d.status /\ e.content = d.content
      /\ e.known = d.known /\ e.base = d.base /\ e.saveState = d.saveState
  BY TextFacts
<1>2. Drafted(d, x) = [e EXCEPT !.dirty = TRUE]
  BY DEF Drafted, Docs
<1> HIDE DEF e
<1> QED BY ZenonT(60), <1>1, <1>2, DirtyFacts

\* A mode changes nothing else.
LEMMA ModeFacts ==
  ASSUME NEW d \in Docs, NEW m \in {"preview", "edit"}
  PROVE LET e == [d EXCEPT !.mode = m] IN
        /\ e \in Docs /\ e.text = d.text /\ e.dirty = d.dirty /\ e.status = d.status
        /\ e.content = d.content /\ e.known = d.known /\ e.base = d.base
        /\ e.saveState = d.saveState
BY SMTT(60) DEF Docs

\* Nor does the state of a save.
LEMMA SaveStateFacts ==
  ASSUME NEW d \in Docs, NEW s \in {"idle", "saving", "saved", "failed"}
  PROVE LET e == [d EXCEPT !.saveState = s] IN
        /\ e \in Docs /\ e.text = d.text /\ e.dirty = d.dirty /\ e.status = d.status
        /\ e.content = d.content /\ e.known = d.known /\ e.base = d.base /\ e.saveState = s
BY SMTT(60) DEF Docs

\* A save that fails leaves the draft.
LEMMA FailedFacts ==
  ASSUME NEW d \in Docs
  PROVE LET e == [d EXCEPT !.saveState = "failed"] IN
        /\ e \in Docs /\ e.text = d.text /\ e.dirty = d.dirty /\ e.status = d.status
        /\ e.content = d.content /\ e.known = d.known /\ e.base = d.base
BY SaveStateFacts

\* A refusal leaves the draft.
LEMMA RefusedFacts ==
  ASSUME NEW d \in Docs
  PROVE /\ Refused(d) \in Docs /\ Refused(d).text = d.text /\ Refused(d).dirty = d.dirty
        /\ Refused(d).status = d.status /\ Refused(d).content = d.content
        /\ Refused(d).known = d.known /\ Refused(d).base = d.base
<1> DEFINE e == [d EXCEPT !.conflict = TRUE]
<1>1. e \in Docs /\ e.text = d.text /\ e.dirty = d.dirty /\ e.status = d.status
      /\ e.content = d.content /\ e.known = d.known /\ e.base = d.base
  BY ConflictFacts
<1>2. Refused(d) = [e EXCEPT !.saveState = "idle"]
  BY DEF Refused, Docs
<1> HIDE DEF e
<1>3. LET g == [e EXCEPT !.saveState = "idle"] IN
      /\ g \in Docs /\ g.text = e.text /\ g.dirty = e.dirty /\ g.status = e.status
      /\ g.content = e.content /\ g.known = e.known /\ g.base = e.base
  BY <1>1, SaveStateFacts
<1> QED BY <1>1, <1>2, <1>3

\* A save that went well leaves its text and its mtime.
LEMMA AdoptFacts ==
  ASSUME NEW d \in Docs, NEW f \in FlightSet
  PROVE /\ Adopt(d, f) \in Docs /\ Adopt(d, f).text = d.text /\ Adopt(d, f).status = d.status
        /\ Adopt(d, f).content = d.content /\ Adopt(d, f).known = f.text
        /\ Adopt(d, f).base = f.mtime
<1> DEFINE e1 == [d EXCEPT !.known = f.text]
           e2 == [e1 EXCEPT !.base = f.mtime]
           e3 == [e2 EXCEPT !.dirty = FALSE]
           e4 == [e3 EXCEPT !.conflict = FALSE]
           Good(e) == /\ e \in Docs /\ e.text = d.text /\ e.status = d.status
                      /\ e.content = d.content /\ e.known = f.text
<1>1. f.text \in Nat /\ f.mtime \in Nat
  BY DEF FlightSet
<1>2. Adopt(d, f) = [e4 EXCEPT !.saveState = "saved"]
  BY DEF Adopt, Docs
<1>3. Good(e1)
  BY <1>1, KnownFacts
<1>4. ASSUME NEW e \in Docs, Good(e)
      PROVE LET g == [e EXCEPT !.base = f.mtime] IN Good(g) /\ g.base = f.mtime
  BY <1>1, <1>4, BaseFacts
<1>5. ASSUME NEW e \in Docs, Good(e)
      PROVE LET g == [e EXCEPT !.dirty = FALSE] IN Good(g) /\ g.base = e.base
  BY <1>5, DirtyFacts
<1>6. ASSUME NEW e \in Docs, Good(e)
      PROVE LET g == [e EXCEPT !.conflict = FALSE] IN Good(g) /\ g.base = e.base
  BY <1>6, ConflictFacts
<1>7. Good(e2) /\ e2.base = f.mtime
  BY <1>3, <1>4
<1>8. Good(e3) /\ e3.base = f.mtime
  BY <1>5, <1>7
<1>9. Good(e4) /\ e4.base = f.mtime
  BY <1>6, <1>8
<1> HIDE DEF e4
<1>10. LET g == [e4 EXCEPT !.saveState = "saved"] IN Good(g) /\ g.base = e4.base
  BY <1>9, SaveStateFacts
<1> QED BY <1>2, <1>9, <1>10

\* What a read loads is known, and the text to begin with.
LEMMA LoadedFacts ==
  ASSUME NEW l \in LoadSet
  PROVE /\ Loaded(l) \in Docs /\ Loaded(l).status = "ready"
        /\ Loaded(l).text = l.content /\ Loaded(l).content = l.content
        /\ Loaded(l).known = l.content /\ Loaded(l).base = l.mtime
        /\ Loaded(l).dirty = FALSE
BY DEF Loaded, Docs, LoadSet

\* A renamed file's view is made from the loaded content.
LEMMA RenamedFacts ==
  ASSUME NEW d \in Docs
  PROVE LET e == [d EXCEPT !.text = d.content] IN
        /\ e \in Docs /\ e.text = d.content /\ e.dirty = d.dirty /\ e.status = d.status
        /\ e.content = d.content /\ e.known = d.known /\ e.base = d.base
        /\ e.saveState = d.saveState
BY SMTT(60) DEF Docs

\* A stage of a save.
LEMMA StageFacts ==
  ASSUME NEW f \in FlightSet, NEW s \in {"sent", "checked", "renamed", "done", "conflict", "failed"}
  PROVE LET g == [f EXCEPT !.stage = s] IN
        /\ g \in FlightSet /\ g.stage = s /\ g.tab = f.tab /\ g.live = f.live /\ g.text = f.text
        /\ g.knew = f.knew /\ g.expected = f.expected /\ g.mtime = f.mtime
BY SMTT(60) DEF FlightSet

\* The stat at its end.
LEMMA StattedFacts ==
  ASSUME NEW f \in FlightSet, NEW m \in Nat
  PROVE LET g == [f EXCEPT !.stage = "done", !.mtime = m] IN
        /\ g \in FlightSet /\ g.stage = "done" /\ g.tab = f.tab /\ g.live = f.live
        /\ g.text = f.text /\ g.knew = f.knew /\ g.expected = f.expected /\ g.mtime = m
<1> DEFINE h == [f EXCEPT !.stage = "done"]
<1>1. h \in FlightSet /\ h.stage = "done" /\ h.tab = f.tab /\ h.live = f.live /\ h.text = f.text
      /\ h.knew = f.knew /\ h.expected = f.expected
  BY StageFacts
<1>2. [f EXCEPT !.stage = "done", !.mtime = m] = [h EXCEPT !.mtime = m]
  BY DEF FlightSet
<1> HIDE DEF h
<1> QED BY <1>1, <1>2, SMTT(60) DEF FlightSet

\* A write makes a new text and a new mtime of the same file.
LEMMA WrittenFacts ==
  ASSUME disk \in DiskSet, NEW x \in Nat, NEW w \in {"user", "model", "other"}
  PROVE /\ Written(x, w) \in DiskSet /\ Written(x, w).text = x
        /\ Written(x, w).mtime = disk.mtime + 1 /\ Written(x, w).name = disk.name
<1> DEFINE e1 == [disk EXCEPT !.text = x]
           e2 == [e1 EXCEPT !.mtime = disk.mtime + 1]
           e3 == [e2 EXCEPT !.by = w]
<1>1. e1 \in DiskSet /\ e1.text = x /\ e1.mtime = disk.mtime /\ e1.name = disk.name
  BY DEF DiskSet
<1>2. Written(x, w) = e3
  BY DEF DiskSet, Written
<1>3. disk.mtime + 1 \in Nat
  BY DEF DiskSet
<1> HIDE DEF e1
<1>4. e2 \in DiskSet /\ e2.text = x /\ e2.mtime = disk.mtime + 1 /\ e2.name = disk.name
  BY <1>1, <1>3 DEF DiskSet
<1> HIDE DEF e2
<1>5. e3 \in DiskSet /\ e3.text = x /\ e3.mtime = disk.mtime + 1 /\ e3.name = disk.name
  BY <1>4 DEF DiskSet
<1> QED BY <1>2, <1>5

\* A save without a reader.
LEMMA OrphanFacts ==
  ASSUME NEW f \in FlightSet, NEW b \in BOOLEAN
  PROVE LET g == [f EXCEPT !.live = b] IN
        /\ g \in FlightSet /\ (g.live <=> b) /\ g.tab = f.tab /\ g.text = f.text
        /\ g.knew = f.knew /\ g.expected = f.expected /\ g.mtime = f.mtime /\ g.stage = f.stage
BY SMTT(60) DEF FlightSet
-----------------------------------------------------------------------------
(* The inductive invariants                                                 *)

DocFits(d, n, m) ==
  /\ d \in Docs /\ d.content <= n /\ d.text <= n /\ d.known <= n /\ d.base <= m
  /\ d.status = "ready" => d.content >= 1 /\ d.text >= 1
  /\ d.status # "ready" => d \in {Closed, Loading}
LoadFits(l, n, m) ==
  /\ l \in LoadSet /\ l.mtime <= m /\ l.content <= n
  /\ l.stage = "read" => l.content >= 1
FlightFits(f, n, m) ==
  f \in FlightSet /\ f.text \in 1 .. n /\ f.expected <= m /\ f.mtime <= m

Counters ==
  /\ made \in 1 .. MaxTexts /\ saves \in 0 .. MaxSaves /\ loads \in 0 .. MaxLoads
  /\ failures \in 0 .. MaxFailures /\ lost \subseteq 1 .. made
DiskFits == disk \in DiskSet /\ disk.text \in 1 .. made /\ disk.name <= loads
DocsFit == doc \in [Tabs -> Docs] /\ \A t \in Tabs : DocFits(doc[t], made, disk.mtime)
LoadsFit == load \in [Tabs -> LoadSet] /\ \A t \in Tabs : LoadFits(load[t], made, disk.mtime)
LoadingLoads == \A t \in Tabs : load[t].stage # "none" => doc[t].status = "loading"
FlightsFit == \A f \in flights : FlightFits(f, made, disk.mtime)
LiveSaves ==
  \A f \in flights : f.live => doc[f.tab].status = "ready" /\ doc[f.tab].saveState = "saving"
OneLive == \A f, g \in flights : f.live /\ g.live /\ f.tab = g.tab => f = g

TypeInv ==
  /\ Counters /\ DiskFits /\ DocsFit /\ LoadsFit /\ LoadingLoads
  /\ FlightsFit /\ LiveSaves /\ OneLive

\* A save that still has its reader carries the text the reader shows.
SavesTheText == \A f \in flights : f.live => f.text = doc[f.tab].text

SafeInv == DraftsAreSafe /\ SavesTheText

\* Whoever holds the file's mtime m holds its text x: a document, a read, a save.
\* A save that was checked, or has renamed its file, is alone with it.
DocKnows(d, x, m) == d.status = "ready" /\ d.base = m => d.known = x
ReadKnows(l, x, m) == l.stage = "read" /\ l.mtime = m => l.content = x
SaveKnows(f, x, m) ==
  /\ f.stage = "sent" /\ f.expected = m => f.knew = x
  /\ f.stage = "checked" => f.knew = x
  /\ f.stage = "renamed" => f.text = x
  /\ f.stage = "done" /\ f.mtime = m => f.text = x

DocsKnow == \A t \in Tabs : DocKnows(doc[t], disk.text, disk.mtime)
ReadsKnow == \A t \in Tabs : ReadKnows(load[t], disk.text, disk.mtime)
SavesKnow == \A f \in flights : SaveKnows(f, disk.text, disk.mtime)
OneMidSave ==
  \A f, g \in flights :
    f.stage \in {"checked", "renamed"} /\ g.stage \in {"checked", "renamed"} => f = g

BlindInv == NeverBlind /\ DocsKnow /\ ReadsKnow /\ SavesKnow /\ OneMidSave

-----------------------------------------------------------------------------
(* Types                                                                    *)

\* A reload leaves rows that load and reads that were asked for, whoever the tabs are.
LEMMA ReloadKeeps ==
  ASSUME TypeInv, NEW ts \in SUBSET Tabs, Reloaded(ts), made' = made, disk' = disk
  PROVE DocsFit' /\ LoadsFit' /\ LoadingLoads'
<1>1. \A t \in Tabs : DocFits(doc'[t], made, disk.mtime)
  <2> SUFFICES ASSUME NEW t \in Tabs PROVE DocFits(doc'[t], made, disk.mtime)
    OBVIOUS
  <2>1. doc'[t] = IF t \in ts THEN Loading ELSE doc[t]
    BY DEF Reloaded
  <2>2. made \in Nat /\ disk.mtime \in Nat /\ 0 <= made /\ 0 <= disk.mtime
    BY DEF TypeInv, Counters, DiskFits, DiskSet
  <2>3. DocFits(Loading, made, disk.mtime)
    BY <2>2, Blank DEF DocFits
  <2>4. DocFits(doc[t], made, disk.mtime)
    BY DEF TypeInv, DocsFit
  <2> QED BY <2>1, <2>3, <2>4
<1>2. \A t \in Tabs : LoadFits(load'[t], made, disk.mtime)
  <2> SUFFICES ASSUME NEW t \in Tabs PROVE LoadFits(load'[t], made, disk.mtime)
    OBVIOUS
  <2>1. load'[t] = IF t \in ts THEN Asked ELSE load[t]
    BY DEF Reloaded, Asked
  <2>2. made \in Nat /\ disk.mtime \in Nat /\ 0 <= made /\ 0 <= disk.mtime
    BY DEF TypeInv, Counters, DiskFits, DiskSet
  <2>3. LoadFits(Asked, made, disk.mtime)
    BY <2>2, Blank DEF LoadFits
  <2>4. LoadFits(load[t], made, disk.mtime)
    BY DEF TypeInv, LoadsFit
  <2> QED BY <2>1, <2>3, <2>4
<1>3. doc' \in [Tabs -> Docs]
  BY Blank DEF Reloaded, TypeInv, DocsFit
<1>4. load' \in [Tabs -> LoadSet]
  BY Blank DEF Reloaded, TypeInv, LoadsFit, Asked
<1>5. LoadingLoads'
  BY Blank DEF Reloaded, TypeInv, LoadingLoads
<1> QED BY <1>1, <1>2, <1>3, <1>4, <1>5 DEF DocsFit, LoadsFit

\* A tab's document is replaced by one that fits.
LEMMA DocKeeps ==
  ASSUME TypeInv, NEW t \in Tabs, NEW d, doc' = [doc EXCEPT ![t] = d],
         DocFits(d, made', disk'.mtime), made' \in Nat, made <= made', disk' = disk
  PROVE DocsFit' /\ doc'[t] = d /\ \A u \in Tabs \ {t} : doc'[u] = doc[u]
<1>1. made \in Nat /\ doc \in [Tabs -> Docs]
  BY DEF TypeInv, Counters, DocsFit
<1>2. doc' \in [Tabs -> Docs] /\ doc'[t] = d /\ \A u \in Tabs \ {t} : doc'[u] = doc[u]
  BY <1>1 DEF DocFits
<1>3. ASSUME NEW u \in Tabs PROVE DocFits(doc'[u], made', disk'.mtime)
  <2>1. CASE u = t
    BY <1>2, <2>1
  <2>2. CASE u # t
    <3>1. DocFits(doc[u], made, disk.mtime)
      BY DEF TypeInv, DocsFit
    <3>2. doc[u].content \in Nat /\ doc[u].text \in Nat /\ doc[u].known \in Nat
      BY <1>1 DEF Docs
    <3> QED BY <1>1, <1>2, <2>2, <3>1, <3>2 DEF DocFits
  <2> QED BY <2>1, <2>2
<1> QED BY <1>2, <1>3 DEF DocsFit

\* More texts and a later disk change nothing for the documents, reads and saves there are.
LEMMA LaterKeeps ==
  ASSUME TypeInv, made' \in Nat, made <= made', disk'.mtime \in Nat, disk.mtime <= disk'.mtime
  PROVE /\ doc' = doc => DocsFit'
        /\ load' = load => LoadsFit'
        /\ flights' \subseteq flights => FlightsFit'
<1>1. made \in Nat /\ disk.mtime \in Nat
  BY DEF TypeInv, Counters, DiskFits, DiskSet
<1>2. ASSUME doc' = doc PROVE DocsFit'
  <2> SUFFICES ASSUME NEW t \in Tabs PROVE DocFits(doc[t], made', disk'.mtime)
    BY <1>2 DEF TypeInv, DocsFit
  <2>1. DocFits(doc[t], made, disk.mtime)
    BY DEF TypeInv, DocsFit
  <2>2. /\ doc[t].content \in Nat /\ doc[t].text \in Nat /\ doc[t].known \in Nat
        /\ doc[t].base \in Nat
    BY DEF TypeInv, DocsFit, Docs
  <2> QED BY <1>1, <2>1, <2>2 DEF DocFits
<1>3. ASSUME load' = load PROVE LoadsFit'
  <2> SUFFICES ASSUME NEW t \in Tabs PROVE LoadFits(load[t], made', disk'.mtime)
    BY <1>3 DEF TypeInv, LoadsFit
  <2>1. LoadFits(load[t], made, disk.mtime)
    BY DEF TypeInv, LoadsFit
  <2>2. load[t].content \in Nat /\ load[t].mtime \in Nat
    BY DEF TypeInv, LoadsFit, LoadSet
  <2> QED BY <1>1, <2>1, <2>2 DEF LoadFits
<1>4. ASSUME flights' \subseteq flights PROVE FlightsFit'
  <2> SUFFICES ASSUME NEW f \in flights PROVE FlightFits(f, made', disk'.mtime)
    BY <1>4 DEF FlightsFit
  <2>1. FlightFits(f, made, disk.mtime)
    BY DEF TypeInv, FlightsFit
  <2>2. f.text \in Nat /\ f.expected \in Nat /\ f.mtime \in Nat
    BY <2>1 DEF FlightFits, FlightSet
  <2> QED BY <1>1, <2>1, <2>2 DEF FlightFits
<1> QED BY <1>2, <1>3, <1>4

\* An orphaned save is the save it was, and keeps its reader only where the tab stayed.
LEMMA OrphanedFacts ==
  ASSUME NEW fs \in SUBSET FlightSet, NEW ts, NEW g \in Orphaned(fs, ts)
  PROVE \E f \in fs :
          /\ g \in FlightSet /\ g.tab = f.tab /\ g.text = f.text /\ g.knew = f.knew
          /\ g.expected = f.expected /\ g.mtime = f.mtime /\ g.stage = f.stage
          /\ g.live => f.live /\ g = f /\ g.tab \notin ts
<1>1. PICK f \in fs : g = [f EXCEPT !.live = @ /\ f.tab \notin ts]
  BY DEF Orphaned
<1> DEFINE b == f.live /\ f.tab \notin ts
<1>2. b \in BOOLEAN /\ f \in FlightSet /\ g = [f EXCEPT !.live = b]
  BY <1>1
<1>3. ASSUME b PROVE g = f
  <2>1. f.live = TRUE
    BY <1>2, <1>3 DEF FlightSet
  <2> QED BY <1>2, <1>3, <2>1 DEF FlightSet
<1>4. b => f.live /\ f.tab \notin ts
  OBVIOUS
<1> HIDE DEF b
<1>5. /\ g \in FlightSet /\ (g.live <=> b) /\ g.tab = f.tab /\ g.text = f.text
      /\ g.knew = f.knew /\ g.expected = f.expected /\ g.mtime = f.mtime /\ g.stage = f.stage
  BY <1>2, OrphanFacts
<1> QED BY <1>1, <1>3, <1>4, <1>5

\* Tabs go, and their saves lose their reader.
LEMMA OrphanedKeeps ==
  ASSUME TypeInv, NEW ts, flights' = Orphaned(flights, ts), made' = made, disk' = disk
  PROVE /\ FlightsFit' /\ OneLive'
        /\ \A f \in flights' : f.live => f \in flights /\ f.tab \notin ts
<1>1. flights \in SUBSET FlightSet
  BY DEF TypeInv, FlightsFit, FlightFits
<1>2. FlightsFit'
  <2> SUFFICES ASSUME NEW g \in flights' PROVE FlightFits(g, made, disk.mtime)
    BY DEF FlightsFit
  <2>1. g \in Orphaned(flights, ts)
    OBVIOUS
  <2>2. PICK f \in flights : /\ g \in FlightSet /\ g.text = f.text /\ g.expected = f.expected
                             /\ g.mtime = f.mtime
    BY <1>1, <2>1, OrphanedFacts
  <2>3. FlightFits(f, made, disk.mtime)
    BY DEF TypeInv, FlightsFit
  <2> QED BY <2>2, <2>3 DEF FlightFits
<1>3. \A f \in flights' : f.live => f \in flights /\ f.tab \notin ts
  BY <1>1, OrphanedFacts
<1>4. OneLive'
  BY <1>3 DEF TypeInv, OneLive
<1> QED BY <1>2, <1>3, <1>4

\* A save takes a step of its own.
LEMMA ReplacedKeeps ==
  ASSUME TypeInv, NEW f \in flights, NEW g, g.live => f.live, g.tab = f.tab,
         FlightFits(g, made', disk'.mtime), flights' = (flights \ {f}) \cup {g},
         made' \in Nat, made <= made', disk'.mtime \in Nat, disk.mtime <= disk'.mtime
  PROVE FlightsFit' /\ OneLive'
<1>1. made \in Nat /\ disk.mtime \in Nat
  BY DEF TypeInv, Counters, DiskFits, DiskSet
<1>2. FlightsFit'
  <2> SUFFICES ASSUME NEW h \in flights', h # g PROVE FlightFits(h, made', disk'.mtime)
    BY DEF FlightsFit
  <2>1. FlightFits(h, made, disk.mtime)
    BY DEF TypeInv, FlightsFit
  <2>2. h.text \in Nat /\ h.expected \in Nat /\ h.mtime \in Nat
    BY <2>1 DEF FlightFits, FlightSet
  <2> QED BY <1>1, <2>1, <2>2 DEF FlightFits
<1>3. OneLive'
  BY DEF TypeInv, OneLive
<1> QED BY <1>2, <1>3

\* The documents a set of tabs drops hold texts that were made.
LEMMA DroppedFacts ==
  ASSUME TypeInv, NEW ts \in SUBSET Tabs
  PROVE Dropped(ts) \subseteq 1 .. made
<1> SUFFICES ASSUME NEW t \in ts, Unsaved(t) PROVE doc[t].text \in 1 .. made
  BY DEF Dropped
<1>1. DocFits(doc[t], made, disk.mtime) /\ doc[t] \in Docs
  BY DEF TypeInv, DocsFit
<1>2. made \in Nat
  BY DEF TypeInv, Counters
<1> QED BY <1>1, <1>2 DEF DocFits, Docs, Unsaved, Ready
\* A tab's next document keeps its place in the load, and its live save.
LEMMA SameRow ==
  ASSUME TypeInv, NEW t \in Tabs, NEW d, DocFits(d, made', disk'.mtime),
         doc' = [doc EXCEPT ![t] = d], d.status = doc[t].status, d.saveState = doc[t].saveState,
         made' \in Nat, made <= made', disk' = disk, load' = load, flights' = flights
  PROVE DocsFit' /\ LoadsFit' /\ LoadingLoads' /\ FlightsFit' /\ LiveSaves' /\ OneLive'
<1>1. DocsFit' /\ doc'[t] = d /\ \A u \in Tabs \ {t} : doc'[u] = doc[u]
  BY DocKeeps
<1>2. LoadsFit' /\ FlightsFit'
  <2>1. disk'.mtime \in Nat /\ disk.mtime <= disk'.mtime /\ flights' \subseteq flights
    BY DEF TypeInv, DiskFits, DiskSet
  <2> QED BY <2>1, LaterKeeps
<1>3. LoadingLoads'
  BY <1>1 DEF TypeInv, LoadingLoads
<1>4. LiveSaves'
  BY <1>1 DEF TypeInv, LiveSaves, FlightsFit, FlightFits, FlightSet
<1>5. OneLive'
  BY DEF TypeInv, OneLive
<1> QED BY <1>1, <1>2, <1>3, <1>4, <1>5

\* A set of tabs is loaded again, and their saves lose their reader.
LEMMA RowsAgain ==
  ASSUME TypeInv, NEW ts \in SUBSET Tabs, Reloaded(ts), made' = made, disk' = disk,
         \/ flights' = Orphaned(flights, ts)
         \/ /\ flights' \subseteq flights
            /\ \A f \in flights' : f.live => f.tab \notin ts
  PROVE DocsFit' /\ LoadsFit' /\ LoadingLoads' /\ FlightsFit' /\ LiveSaves' /\ OneLive'
<1>1. DocsFit' /\ LoadsFit' /\ LoadingLoads'
  BY ReloadKeeps
<1>2. FlightsFit' /\ OneLive' /\ \A f \in flights' : f.live => f \in flights /\ f.tab \notin ts
  <2>1. CASE flights' = Orphaned(flights, ts)
    BY <2>1, OrphanedKeeps
  <2>2. CASE flights' \subseteq flights /\ \A f \in flights' : f.live => f.tab \notin ts
    BY <2>2 DEF TypeInv, FlightsFit, OneLive
  <2> QED BY <2>1, <2>2
<1>3. ASSUME NEW f \in flights', f.live
      PROVE doc'[f.tab].status = "ready" /\ doc'[f.tab].saveState = "saving"
  <2>1. f \in flights /\ f.tab \notin ts /\ f.tab \in Tabs
    BY <1>2, <1>3 DEF TypeInv, FlightsFit, FlightFits, FlightSet
  <2>2. doc'[f.tab] = doc[f.tab]
    BY <2>1 DEF Reloaded
  <2> QED BY <1>3, <2>1, <2>2 DEF TypeInv, LiveSaves
<1> QED BY <1>1, <1>2, <1>3 DEF LiveSaves

\* Documents and reads stay, and one save takes a step without gaining a reader.
LEMMA SaveSteps ==
  ASSUME TypeInv, NEW f \in flights, NEW g, g.live => f.live, g.tab = f.tab,
         FlightFits(g, made', disk'.mtime), flights' = (flights \ {f}) \cup {g},
         doc' = doc, load' = load, made' = made, disk'.mtime \in Nat, disk.mtime <= disk'.mtime
  PROVE DocsFit' /\ LoadsFit' /\ LoadingLoads' /\ FlightsFit' /\ LiveSaves' /\ OneLive'
<1>1. made \in Nat
  BY DEF TypeInv, Counters
<1>2. DocsFit' /\ LoadsFit'
  BY <1>1, LaterKeeps
<1>3. FlightsFit' /\ OneLive'
  BY <1>1, ReplacedKeeps
<1>4. LoadingLoads' /\ LiveSaves'
  BY DEF TypeInv, LoadingLoads, LiveSaves
<1> QED BY <1>2, <1>3, <1>4
Fits ==
  /\ made \in Nat /\ made \in 1 .. MaxTexts /\ disk.mtime \in Nat /\ disk.text \in 1 .. made
  /\ disk \in DiskSet /\ disk.text \in Nat /\ disk.name \in Nat
  /\ MaxTexts \in Nat /\ MaxSaves \in Nat /\ MaxLoads \in Nat /\ MaxFailures \in Nat
  /\ saves \in Nat /\ loads \in Nat /\ failures \in Nat /\ lost \subseteq 1 .. made
  /\ \A t \in Tabs : doc[t] \in Docs /\ DocFits(doc[t], made, disk.mtime)
  /\ \A t \in Tabs : load[t] \in LoadSet /\ LoadFits(load[t], made, disk.mtime)
  /\ \A f \in flights : /\ f \in FlightSet /\ f.tab \in Tabs
                        /\ FlightFits(f, made, disk.mtime)

\* What fits: the facts every action's proof starts from.
LEMMA Fitting ==
  ASSUME ConstantsAssumption, TypeInv
  PROVE Fits
BY DEF Fits, ConstantsAssumption, TypeInv, Counters, DiskFits, DiskSet, DocsFit, DocFits, LoadsFit,
       LoadFits, FlightsFit, FlightFits, FlightSet

\* The first states fit.
LEMMA InitFits == ConstantsAssumption /\ Init => TypeInv
<1> SUFFICES ASSUME ConstantsAssumption, Init PROVE TypeInv
  OBVIOUS
<1>1. Counters
  <2>1. made = 1 /\ saves = 0 /\ loads = 0 /\ failures = 0 /\ lost = {}
    BY DEF Init
  <2> QED BY <2>1 DEF ConstantsAssumption, Counters
<1>2. DiskFits
  BY DEF ConstantsAssumption, Init, DiskFits, DiskSet
<1>3. disk.mtime = 1 /\ made = 1
  BY DEF Init
<1>4. DocsFit
  <2>1. \A t \in Tabs : doc[t] \in {Closed, Loading}
    BY DEF Init
  <2>2. doc \in [Tabs -> Docs]
    BY <2>1, Blank DEF Init
  <2>3. ASSUME NEW d \in {Closed, Loading} PROVE DocFits(d, 1, 1)
    BY <2>3, Blank DEF DocFits
  <2> QED BY <1>3, <2>1, <2>2, <2>3 DEF DocsFit
<1>5. LoadsFit
  <2>1. \A t \in Tabs : load[t] \in {NoLoad, Asked}
    BY DEF Init, Asked
  <2>2. load \in [Tabs -> LoadSet]
    BY <2>1, Blank DEF Init, Asked
  <2>3. ASSUME NEW l \in {NoLoad, Asked} PROVE LoadFits(l, 1, 1)
    BY <2>3, Blank DEF LoadFits
  <2> QED BY <1>3, <2>1, <2>2, <2>3 DEF LoadsFit
<1>6. LoadingLoads
  BY Blank DEF Init, LoadingLoads, Asked
<1>7. FlightsFit /\ LiveSaves /\ OneLive
  BY DEF Init, FlightsFit, LiveSaves, OneLive
<1> QED BY <1>1, <1>2, <1>4, <1>5, <1>6, <1>7 DEF TypeInv

\* Each step of a tab keeps what fits.
LEMMA TabFits ==
  ASSUME ConstantsAssumption, TypeInv, NEW t \in Tabs,
         \/ Open(t) \/ Close(t) \/ Refresh(t) \/ Type(t) \/ ToEdit(t) \/ ToPreview(t) \/ Save(t)
         \/ LoadStep(t)
  PROVE TypeInv'
<1> DEFINE Rows == DocsFit /\ LoadsFit /\ LoadingLoads /\ FlightsFit /\ LiveSaves /\ OneLive
<1>0. Fits
  BY Fitting
<1>a. /\ made \in Nat /\ made \in 1 .. MaxTexts /\ disk.mtime \in Nat /\ disk.text \in 1 .. made
      /\ disk.text \in Nat /\ disk.name \in Nat /\ MaxTexts \in Nat /\ MaxSaves \in Nat
      /\ MaxLoads \in Nat /\ saves \in Nat /\ loads \in Nat /\ made + 1 \in Nat
      /\ doc[t] \in Docs /\ DocFits(doc[t], made, disk.mtime)
      /\ load[t] \in LoadSet /\ LoadFits(load[t], made, disk.mtime)
  BY <1>0 DEF Fits
<1> USE <1>a
<1>1. CASE Open(t)
  <2>1. Counters' /\ DiskFits'
    BY <1>1 DEF Open, TypeInv, Counters, DiskFits
  <2>2. \A f \in flights : f.live => f.tab # t
    BY <1>1 DEF Open, TypeInv, LiveSaves
  <2>3. Rows'
    BY <1>1, <2>2, RowsAgain DEF Open
  <2> QED BY <2>1, <2>3 DEF TypeInv
<1>2. CASE Close(t)
  <2>1. Dropped({t}) \subseteq 1 .. made
    BY DroppedFacts
  <2>2. Counters' /\ DiskFits'
    BY <1>2, <2>1 DEF Close, TypeInv, Counters, DiskFits
  <2>3. DocFits(Closed, made, disk.mtime) /\ LoadFits(NoLoad, made, disk.mtime)
    BY Blank DEF DocFits, LoadFits
  <2>a. /\ doc' = [doc EXCEPT ![t] = Closed] /\ made' \in Nat /\ made <= made' /\ disk' = disk
        /\ DocFits(Closed, made', disk'.mtime)
    BY <1>2, <2>3 DEF Close
  <2>4. DocsFit' /\ doc'[t] = Closed /\ \A u \in Tabs \ {t} : doc'[u] = doc[u]
    BY <2>3, <2>a, DocKeeps
  <2>5. LoadsFit' /\ load'[t] = NoLoad /\ \A u \in Tabs \ {t} : load'[u] = load[u]
    BY <1>2, <2>3, Blank DEF Close, TypeInv, LoadsFit
  <2>6. LoadingLoads'
    BY <2>4, <2>5, Blank DEF TypeInv, LoadingLoads
  <2>7. FlightsFit' /\ OneLive' /\ \A f \in flights' : f.live => f \in flights /\ f.tab # t
    BY <1>2, OrphanedKeeps DEF Close
  <2>b. \A f \in flights : f.tab \in Tabs
    BY <1>0 DEF Fits
  <2>8. LiveSaves'
    BY <2>4, <2>7, <2>b DEF TypeInv, LiveSaves
  <2> QED BY <2>2, <2>4, <2>5, <2>6, <2>7, <2>8 DEF TypeInv
<1>3. CASE Refresh(t)
  <2>1. Dropped({t}) \subseteq 1 .. made
    BY DroppedFacts
  <2>2. Counters' /\ DiskFits'
    <3>1. lost \cup Dropped({t}) \subseteq 1 .. made /\ lost \subseteq 1 .. made
      BY <2>1 DEF TypeInv, Counters
    <3>2. lost' \subseteq 1 .. made
      BY <1>3, <3>1 DEF Refresh
    <3>3. /\ loads < MaxLoads /\ loads' = loads + 1
          /\ UNCHANGED <<disk, made, saves, failures>>
      BY <1>3 DEF Refresh
    <3> QED BY <3>2, <3>3 DEF TypeInv, Counters, DiskFits
  <2>3. Rows'
    BY <1>3, RowsAgain DEF Refresh
  <2> QED BY <2>2, <2>3 DEF TypeInv
<1>4. CASE Type(t)
  <2> DEFINE d == Drafted(doc[t], made + 1)
  <2>1. Counters' /\ DiskFits'
    BY <1>4 DEF Type, TypeInv, Counters, DiskFits
  <2>2. /\ d \in Docs /\ d.text = made + 1 /\ d.status = doc[t].status /\ d.known = doc[t].known
        /\ d.content = doc[t].content /\ d.base = doc[t].base /\ d.saveState = doc[t].saveState
    BY ZenonT(60), DraftedFacts
  <2>3. doc[t].status = "ready" /\ made' = made + 1 /\ disk' = disk /\ doc' = [doc EXCEPT ![t] = d]
    BY <1>4 DEF Type, Ready
  <2>4. doc[t].content \in Nat /\ doc[t].known \in Nat
    BY DEF Docs
  <2> HIDE DEF d
  <2>5. DocFits(d, made', disk'.mtime)
    BY <2>2, <2>3, <2>4 DEF DocFits
  <2>a. load' = load /\ flights' = flights /\ made <= made'
    BY <1>4, <2>3 DEF Type
  <2>6. Rows'
    BY <2>2, <2>3, <2>5, <2>a, SameRow
  <2> QED BY <2>1, <2>6 DEF TypeInv
<1>5. ASSUME NEW m \in {"preview", "edit"}, Ready(t), doc' = [doc EXCEPT ![t].mode = m],
             UNCHANGED <<disk, load, flights, touches, seen, made, saves, loads, failures, lost, blind>>
      PROVE TypeInv'
  <2> DEFINE d == [doc[t] EXCEPT !.mode = m]
  <2>1. Counters' /\ DiskFits'
    BY <1>5 DEF TypeInv, Counters, DiskFits
  <2>2. /\ d \in Docs /\ d.text = doc[t].text /\ d.status = doc[t].status
        /\ d.known = doc[t].known /\ d.content = doc[t].content /\ d.base = doc[t].base
        /\ d.saveState = doc[t].saveState
    BY ModeFacts
  <2>3. doc' = [doc EXCEPT ![t] = d]
    BY <1>5
  <2> HIDE DEF d
  <2>4. DocFits(d, made', disk'.mtime)
    BY <1>5, <2>2 DEF DocFits, Ready
  <2>a. load' = load /\ flights' = flights /\ made' \in Nat /\ made <= made' /\ disk' = disk
    BY <1>5
  <2>5. Rows'
    BY <2>2, <2>3, <2>4, <2>a, SameRow
  <2> QED BY <2>1, <2>5 DEF TypeInv
<1>6. CASE ToEdit(t)
  BY <1>5, <1>6 DEF ToEdit
<1>7. CASE ToPreview(t)
  <2>1. CASE StaysOnReturn(t)
    BY <1>5, <1>7, <2>1 DEF ToPreview
  <2>2. CASE ~StaysOnReturn(t)
    <3>1. Dropped({t}) \subseteq 1 .. made
      BY DroppedFacts
    <3>2. Counters' /\ DiskFits'
      BY <1>7, <2>2, <3>1 DEF ToPreview, TypeInv, Counters, DiskFits
    <3>3. Rows'
      BY <1>7, <2>2, RowsAgain DEF ToPreview
    <3> QED BY <3>2, <3>3 DEF TypeInv
  <2> QED BY <2>1, <2>2
<1>8. CASE Save(t)
  <2> DEFINE d == [doc[t] EXCEPT !.saveState = "saving"]
             g == Flight(t)
  <2>1. Counters' /\ DiskFits'
    BY <1>8 DEF Save, TypeInv, Counters, DiskFits
  <2>2. /\ d \in Docs /\ d.text = doc[t].text /\ d.status = doc[t].status
        /\ d.known = doc[t].known /\ d.content = doc[t].content /\ d.base = doc[t].base
        /\ d.saveState = "saving"
    BY SaveStateFacts
  <2>3. doc' = [doc EXCEPT ![t] = d] /\ doc[t].status = "ready"
    BY <1>8 DEF Save, Ready
  <2>a. made' \in Nat /\ made <= made' /\ disk' = disk
    BY <1>8 DEF Save
  <2> HIDE DEF d
  <2>4. DocFits(d, made', disk'.mtime)
    BY <1>8, <2>2, <2>3 DEF DocFits, Save
  <2>5. DocsFit' /\ doc'[t] = d /\ \A u \in Tabs \ {t} : doc'[u] = doc[u]
    BY <2>3, <2>4, <2>a, DocKeeps
  <2>6. LoadsFit'
    BY <1>8 DEF Save, TypeInv, LoadsFit
  <2>7. LoadingLoads'
    BY <1>8, <2>2, <2>5 DEF Save, TypeInv, LoadingLoads
  <2>8. FlightFits(g, made, disk.mtime) /\ g.tab = t
    <3>1. disk.name \in Nat
      BY DEF TypeInv, DiskFits, DiskSet
    <3>2. doc[t].text \in 1 .. made /\ doc[t].known \in Nat /\ doc[t].base \in 0 .. disk.mtime
      BY <2>3 DEF DocFits, Docs
    <3> QED BY <3>1, <3>2 DEF Flight, FlightFits, FlightSet
  <2> HIDE DEF g
  <2>9. flights' = flights \cup {g} /\ \A f \in flights : f.live => f.tab # t
    BY <1>8 DEF Save, Saving, g
  <2>10. FlightsFit' /\ OneLive'
    BY <1>8, <2>8, <2>9 DEF Save, TypeInv, FlightsFit, OneLive
  <2>11. LiveSaves'
    BY <2>2, <2>3, <2>5, <2>8, <2>9 DEF TypeInv, LiveSaves
  <2> QED BY <2>1, <2>5, <2>6, <2>7, <2>10, <2>11 DEF TypeInv
<1>9. CASE LoadStat(t)
  <2> DEFINE k == [load[t] EXCEPT !.stage = "statted"]
             l == [k EXCEPT !.mtime = disk.mtime]
  <2>1. Counters' /\ DiskFits' /\ DocsFit' /\ FlightsFit' /\ LiveSaves' /\ OneLive'
    BY <1>9 DEF LoadStat, TypeInv, Counters, DiskFits, DocsFit, FlightsFit, LiveSaves, OneLive
  <2>2. l \in LoadSet /\ l.stage = "statted" /\ l.mtime = disk.mtime /\ l.content = load[t].content
    <3>1. k \in LoadSet /\ k.stage = "statted" /\ k.content = load[t].content
      BY DEF LoadSet
    <3> HIDE DEF k
    <3> QED BY <3>1 DEF LoadSet
  <2>3. load' = [load EXCEPT ![t] = l] /\ load \in [Tabs -> LoadSet]
    <3>1. l = [load[t] EXCEPT !.stage = "statted", !.mtime = disk.mtime]
      BY DEF LoadSet
    <3> QED BY <1>9, <3>1 DEF LoadStat, TypeInv, LoadsFit
  <2> HIDE DEF l
  <2>4. LoadFits(l, made, disk.mtime)
    BY <2>2 DEF LoadFits
  <2>5. LoadsFit'
    BY <1>9, <2>2, <2>3, <2>4 DEF LoadStat, TypeInv, LoadsFit
  <2>6. LoadingLoads'
    BY <1>9, <2>3 DEF LoadStat, TypeInv, LoadingLoads
  <2> QED BY <2>1, <2>5, <2>6 DEF TypeInv
<1>10. CASE LoadRead(t)
  <2> DEFINE k == [load[t] EXCEPT !.stage = "read"]
             l == [k EXCEPT !.content = disk.text]
  <2>1. Counters' /\ DiskFits' /\ DocsFit' /\ FlightsFit' /\ LiveSaves' /\ OneLive'
    BY <1>10 DEF LoadRead, TypeInv, Counters, DiskFits, DocsFit, FlightsFit, LiveSaves, OneLive
  <2>2. l \in LoadSet /\ l.stage = "read" /\ l.mtime = load[t].mtime /\ l.content = disk.text
    <3>1. k \in LoadSet /\ k.stage = "read" /\ k.mtime = load[t].mtime
      BY DEF LoadSet
    <3> HIDE DEF k
    <3> QED BY <3>1 DEF LoadSet
  <2>3. load' = [load EXCEPT ![t] = l] /\ load \in [Tabs -> LoadSet]
    <3>1. l = [load[t] EXCEPT !.stage = "read", !.content = disk.text]
      BY DEF LoadSet
    <3> QED BY <1>10, <3>1 DEF LoadRead, TypeInv, LoadsFit
  <2> HIDE DEF l
  <2>4. LoadFits(l, made, disk.mtime)
    BY <2>2 DEF LoadFits
  <2>5. LoadsFit'
    BY <1>10, <2>2, <2>3, <2>4 DEF LoadRead, TypeInv, LoadsFit
  <2>6. LoadingLoads'
    BY <1>10, <2>3 DEF LoadRead, TypeInv, LoadingLoads
  <2> QED BY <2>1, <2>5, <2>6 DEF TypeInv
<1>11. CASE LoadDone(t)
  <2> DEFINE d == Loaded(load[t])
  <2>1. Counters' /\ DiskFits'
    BY <1>11 DEF LoadDone, TypeInv, Counters, DiskFits
  <2>2. /\ d \in Docs /\ d.status = "ready" /\ d.text = load[t].content
        /\ d.content = load[t].content /\ d.known = load[t].content /\ d.base = load[t].mtime
    BY LoadedFacts
  <2>3. doc' = [doc EXCEPT ![t] = d] /\ load[t].stage = "read" /\ load' = [load EXCEPT ![t] = NoLoad]
    BY <1>11 DEF LoadDone
  <2>a. made' \in Nat /\ made <= made' /\ disk' = disk
    BY <1>11 DEF LoadDone
  <2> HIDE DEF d
  <2>4. DocFits(d, made', disk'.mtime)
    BY <1>11, <2>2, <2>3 DEF DocFits, LoadFits, LoadDone
  <2>5. DocsFit' /\ doc'[t] = d /\ \A u \in Tabs \ {t} : doc'[u] = doc[u]
    BY <2>3, <2>4, <2>a, DocKeeps
  <2>6. LoadFits(NoLoad, made, disk.mtime)
    BY Blank DEF LoadFits
  <2>7. LoadsFit' /\ load'[t] = NoLoad /\ \A u \in Tabs \ {t} : load'[u] = load[u]
    BY <1>11, <2>3, <2>6, Blank DEF LoadDone, TypeInv, LoadsFit
  <2>8. LoadingLoads'
    BY <2>5, <2>7, Blank DEF TypeInv, LoadingLoads
  <2>9. FlightsFit' /\ OneLive'
    BY <1>11 DEF LoadDone, TypeInv, FlightsFit, OneLive
  <2>10. \A f \in flights : f.live => f.tab # t
    BY <2>3 DEF TypeInv, LiveSaves, LoadingLoads
  <2>11. LiveSaves'
    BY <1>11, <2>5, <2>10 DEF LoadDone, TypeInv, LiveSaves
  <2> QED BY <2>1, <2>5, <2>7, <2>8, <2>9, <2>11 DEF TypeInv
<1> QED BY <1>1, <1>2, <1>3, <1>4, <1>6, <1>7, <1>8, <1>9, <1>10, <1>11 DEF LoadStep
\* Each step of a save keeps what fits.
LEMMA SaveFits ==
  ASSUME ConstantsAssumption, TypeInv, NEW f \in flights,
         HostStep(f) \/ SaveFails(f) \/ SaveAnswered(f) \/ AnswerLost(f)
  PROVE TypeInv'
<1> DEFINE Rows == DocsFit /\ LoadsFit /\ LoadingLoads /\ FlightsFit /\ LiveSaves /\ OneLive
           t == f.tab
<1>0. Fits
  BY Fitting
<1>a. /\ made \in Nat /\ made \in 1 .. MaxTexts /\ disk.mtime \in Nat /\ disk.text \in 1 .. made
      /\ disk \in DiskSet /\ MaxFailures \in Nat /\ failures \in Nat
      /\ t \in Tabs /\ doc[t] \in Docs /\ DocFits(doc[t], made, disk.mtime)
      /\ f \in FlightSet /\ FlightFits(f, made, disk.mtime)
  BY <1>0 DEF Fits
<1> USE <1>a
<1>1. ASSUME NEW s \in {"sent", "checked", "renamed", "done", "conflict", "failed"},
             flights' = (flights \ {f}) \cup {[f EXCEPT !.stage = s]},
             doc' = doc, load' = load, made' = made, disk'.mtime \in Nat, disk.mtime <= disk'.mtime
      PROVE Rows'
  <2> DEFINE g == [f EXCEPT !.stage = s]
  <2>1. /\ g \in FlightSet /\ g.tab = f.tab /\ (g.live => f.live) /\ g.text = f.text
        /\ g.expected = f.expected /\ g.mtime = f.mtime
    BY ZenonT(60), StageFacts
  <2>2. flights' = (flights \ {f}) \cup {g}
    BY <1>1
  <2> HIDE DEF g
  <2>3. f.text \in Nat /\ f.expected \in Nat /\ f.mtime \in Nat
    BY DEF FlightSet
  <2>4. FlightFits(g, made', disk'.mtime)
    BY <1>1, <2>1, <2>3 DEF FlightFits
  <2> QED BY <1>1, <2>1, <2>2, <2>4, SaveSteps
<1>2. CASE SaveChecked(f)
  <2>1. Counters' /\ DiskFits'
    BY <1>2 DEF SaveChecked, TypeInv, Counters, DiskFits
  <2>2. PICK s \in {"conflict", "checked"} : flights' = (flights \ {f}) \cup {[f EXCEPT !.stage = s]}
    BY <1>2 DEF SaveChecked
  <2>3. doc' = doc /\ load' = load /\ made' = made /\ disk'.mtime \in Nat /\ disk.mtime <= disk'.mtime
    BY <1>2 DEF SaveChecked
  <2> QED BY <1>1, <2>1, <2>2, <2>3 DEF TypeInv
<1>3. CASE SaveFails(f)
  <2>1. Counters' /\ DiskFits'
    BY <1>3 DEF SaveFails, TypeInv, Counters, DiskFits
  <2>2. flights' = (flights \ {f}) \cup {[f EXCEPT !.stage = "failed"]}
    BY <1>3 DEF SaveFails
  <2>3. doc' = doc /\ load' = load /\ made' = made /\ disk'.mtime \in Nat /\ disk.mtime <= disk'.mtime
    BY <1>3 DEF SaveFails
  <2> QED BY <1>1, <2>1, <2>2, <2>3 DEF TypeInv
<1>4. CASE SaveRenamed(f)
  <2>1. disk' = Written(f.text, "user")
    BY <1>4 DEF SaveRenamed
  <2>2. f.text \in 1 .. made
    BY DEF FlightFits
  <2>3. disk' \in DiskSet /\ disk'.text = f.text /\ disk'.name = disk.name
        /\ disk'.mtime = disk.mtime + 1
    <3>1. f.text \in Nat
      BY <2>2
    <3> QED BY <2>1, <3>1, WrittenFacts
  <2>4. Counters' /\ DiskFits'
    BY <1>4, <2>2, <2>3 DEF SaveRenamed, TypeInv, Counters, DiskFits
  <2>5. flights' = (flights \ {f}) \cup {[f EXCEPT !.stage = "renamed"]}
    BY <1>4 DEF SaveRenamed
  <2>6. doc' = doc /\ load' = load /\ made' = made /\ disk'.mtime \in Nat /\ disk.mtime <= disk'.mtime
    BY <1>4, <2>3 DEF SaveRenamed
  <2> QED BY <1>1, <2>4, <2>5, <2>6 DEF TypeInv
<1>5. CASE SaveStatted(f)
  <2> DEFINE g == [f EXCEPT !.stage = "done", !.mtime = disk.mtime]
  <2>1. Counters' /\ DiskFits'
    BY <1>5 DEF SaveStatted, TypeInv, Counters, DiskFits
  <2>2. /\ g \in FlightSet /\ g.tab = f.tab /\ (g.live => f.live) /\ g.text = f.text
        /\ g.expected = f.expected /\ g.mtime = disk.mtime
    BY StattedFacts
  <2>3. /\ flights' = (flights \ {f}) \cup {g}
        /\ UNCHANGED <<disk, doc, load, made>>
    BY <1>5 DEF SaveStatted
  <2> HIDE DEF g
  <2>4. FlightFits(g, made', disk'.mtime) /\ disk'.mtime \in Nat /\ disk.mtime <= disk'.mtime
    BY <2>2, <2>3 DEF FlightFits
  <2>5. Rows'
    BY <2>2, <2>3, <2>4, SaveSteps
  <2> QED BY <2>1, <2>5 DEF TypeInv
<1>6. ASSUME NEW d, DocFits(d, made, disk.mtime), d.status = doc[t].status, f.live,
             doc' = [doc EXCEPT ![t] = d], UNCHANGED <<disk, load, made>>,
             FlightsFit', OneLive', \A g \in flights' : g.live => g \in flights \ {f}
      PROVE Rows'
  <2>1. made' \in Nat /\ made <= made' /\ disk' = disk /\ DocFits(d, made', disk'.mtime)
    BY <1>6
  <2>2. DocsFit' /\ doc'[t] = d /\ \A u \in Tabs \ {t} : doc'[u] = doc[u]
    BY <1>6, <2>1, DocKeeps
  <2>3. LoadsFit'
    BY <1>6 DEF TypeInv, LoadsFit
  <2>4. LoadingLoads'
    BY <1>6, <2>2 DEF TypeInv, LoadingLoads
  <2>5. \A g \in flights : g.tab \in Tabs
    BY <1>0 DEF Fits
  <2>6. \A g \in flights' : g.live => g \in flights /\ g.tab # t
    BY <1>6 DEF TypeInv, OneLive
  <2>7. LiveSaves'
    BY <2>2, <2>5, <2>6 DEF TypeInv, LiveSaves
  <2> QED BY <1>6, <2>2, <2>3, <2>4, <2>7
<1>7. CASE AnswerLost(f)
  <2> DEFINE d == [doc[t] EXCEPT !.saveState = "failed"]
             g == [f EXCEPT !.live = FALSE]
  <2>1. Counters' /\ DiskFits'
    BY <1>7 DEF AnswerLost, TypeInv, Counters, DiskFits
  <2>2. /\ d \in Docs /\ d.text = doc[t].text /\ d.status = doc[t].status
        /\ d.known = doc[t].known /\ d.content = doc[t].content /\ d.base = doc[t].base
    BY SaveStateFacts
  <2>3. /\ g \in FlightSet /\ g.tab = f.tab /\ ~g.live /\ g.text = f.text
        /\ g.expected = f.expected /\ g.mtime = f.mtime
    BY OrphanFacts
  <2>4. /\ doc' = [doc EXCEPT ![t] = d] /\ f.live /\ flights' = (flights \ {f}) \cup {g}
        /\ UNCHANGED <<disk, load, made>>
    BY <1>7 DEF AnswerLost
  <2>5. doc[t].status = "ready"
    BY <2>4 DEF TypeInv, LiveSaves
  <2> HIDE DEF d, g
  <2>6. DocFits(d, made, disk.mtime)
    BY <2>2, <2>5 DEF DocFits
  <2>7. /\ FlightFits(g, made', disk'.mtime) /\ disk'.mtime \in Nat /\ disk.mtime <= disk'.mtime
        /\ made' \in Nat /\ made <= made'
    BY <2>3, <2>4 DEF FlightFits
  <2>8. FlightsFit' /\ OneLive'
    BY <2>3, <2>4, <2>7, ReplacedKeeps
  <2>9. \A h \in flights' : h.live => h \in flights \ {f}
    BY <2>3, <2>4
  <2>10. Rows'
    BY <1>6, <2>2, <2>4, <2>6, <2>8, <2>9
  <2> QED BY <2>1, <2>10 DEF TypeInv
<1>8. CASE SaveAnswered(f)
  <2>1. /\ flights' = flights \ {f}
        /\ UNCHANGED <<disk, made, saves, loads, failures>>
    BY <1>8 DEF SaveAnswered
  <2>2. FlightsFit' /\ OneLive'
    BY <2>1 DEF TypeInv, FlightsFit, OneLive
  <2>3. Counters' /\ DiskFits'
    <3>1. Dropped({t}) \subseteq 1 .. made
      BY DroppedFacts
    <3>2. lost' = lost \/ lost' = lost \cup Dropped({t})
      BY <1>8 DEF SaveAnswered
    <3>3. lost' \subseteq 1 .. made
      BY <3>1, <3>2 DEF TypeInv, Counters
    <3> QED BY <2>1, <3>3 DEF TypeInv, Counters, DiskFits
  <2>4. CASE ~f.live
    <3>1. doc' = doc /\ load' = load
      BY <1>8, <2>4 DEF SaveAnswered
    <3>2. Rows'
      BY <2>1, <2>2, <3>1 DEF TypeInv, DocsFit, LoadsFit, LoadingLoads, LiveSaves
    <3> QED BY <2>3, <3>2 DEF TypeInv
  <2>5. CASE f.live /\ f.stage = "done" /\ doc[t].mode = "preview"
    <3>1. Reloaded({t})
      BY <1>8, <2>5 DEF SaveAnswered
    <3>2. flights' \subseteq flights /\ \A g \in flights' : g.live => g.tab \notin {t}
      BY <2>1, <2>5 DEF TypeInv, OneLive
    <3>3. Rows'
      BY <2>1, <3>1, <3>2, RowsAgain
    <3> QED BY <2>3, <3>3 DEF TypeInv
  <2>6. CASE f.live /\ ~(f.stage = "done" /\ doc[t].mode = "preview")
    <3> DEFINE d == CASE f.stage = "done" -> Adopt(doc[t], f)
                      [] f.stage = "conflict" -> Refused(doc[t])
                      [] OTHER -> [doc[t] EXCEPT !.saveState = "failed"]
    <3>1. doc' = [doc EXCEPT ![t] = d] /\ load' = load
      BY <1>8, <2>6 DEF SaveAnswered
    <3>2. doc[t].status = "ready"
      BY <2>6 DEF TypeInv, LiveSaves
    <3>3. f.text \in 1 .. made /\ f.mtime <= disk.mtime
      BY DEF FlightFits
    <3>4. /\ d \in Docs /\ d.status = "ready" /\ d.text = doc[t].text
          /\ d.content = doc[t].content /\ (d.known = doc[t].known \/ d.known = f.text)
          /\ (d.base = doc[t].base \/ d.base = f.mtime)
      <4>1. CASE f.stage = "done"
        BY <3>2, <4>1, AdoptFacts
      <4>2. CASE f.stage = "conflict"
        BY <3>2, <4>2, RefusedFacts
      <4>3. CASE f.stage # "done" /\ f.stage # "conflict"
        <5>1. d = [doc[t] EXCEPT !.saveState = "failed"]
          BY <4>3
        <5> HIDE DEF d
        <5> QED BY <3>2, <5>1, FailedFacts
      <4> QED BY <4>1, <4>2, <4>3
    <3> HIDE DEF d
    <3>5. DocFits(d, made, disk.mtime)
      BY <3>2, <3>3, <3>4 DEF DocFits
    <3>6. \A g \in flights' : g.live => g \in flights \ {f}
      BY <2>1
    <3>7. Rows'
      BY <1>6, <2>1, <2>2, <2>6, <3>1, <3>2, <3>4, <3>5, <3>6
    <3> QED BY <2>3, <3>7 DEF TypeInv
  <2> QED BY <2>4, <2>5, <2>6
<1> QED BY <1>2, <1>3, <1>4, <1>5, <1>7, <1>8 DEF HostStep
\* Others' writes, a publication and a rename keep what fits.
LEMMA OthersFit ==
  ASSUME ConstantsAssumption, TypeInv,
         (\E by \in {"model", "other"} : Write(by)) \/ Publish \/ RenameFile
  PROVE TypeInv'
<1> DEFINE Rows == DocsFit /\ LoadsFit /\ LoadingLoads /\ FlightsFit /\ LiveSaves /\ OneLive
<1>0. Fits
  BY Fitting
<1>a. /\ made \in Nat /\ made \in 1 .. MaxTexts /\ disk.mtime \in Nat /\ disk.text \in 1 .. made
      /\ disk \in DiskSet /\ disk.name \in Nat /\ loads \in Nat /\ MaxLoads \in Nat
      /\ MaxTexts \in Nat /\ disk.text \in Nat
  BY <1>0 DEF Fits
<1> USE <1>a
<1>1. ASSUME NEW by \in {"model", "other"}, Write(by) PROVE TypeInv'
  <2>1. /\ disk' = Written(made + 1, by)
        /\ made' = made + 1 /\ made < MaxTexts
        /\ UNCHANGED <<doc, load, flights, saves, loads, failures, lost>>
    BY <1>1 DEF Write
  <2>2. disk' \in DiskSet /\ disk'.text = made + 1 /\ disk'.name = disk.name
        /\ disk'.mtime = disk.mtime + 1
    <3>1. made + 1 \in Nat /\ by \in {"user", "model", "other"}
      BY <1>1
    <3> QED BY <2>1, <3>1, WrittenFacts
  <2>3. Counters' /\ DiskFits'
    BY <2>1, <2>2 DEF TypeInv, Counters, DiskFits
  <2>4. /\ made' \in Nat /\ made <= made' /\ disk'.mtime \in Nat /\ disk.mtime <= disk'.mtime
        /\ flights' \subseteq flights
    BY <2>1, <2>2
  <2>5. DocsFit' /\ LoadsFit' /\ FlightsFit'
    BY <2>1, <2>4, LaterKeeps
  <2>6. LoadingLoads' /\ LiveSaves' /\ OneLive'
    BY <2>1 DEF TypeInv, LoadingLoads, LiveSaves, OneLive
  <2> QED BY <2>3, <2>5, <2>6 DEF TypeInv
<1>2. CASE Publish
  <2> DEFINE open == {t \in Tabs : doc[t].status # "closed"}
             stale == {t \in open : ~Spared(t)}
  <2>1. /\ Reloaded(stale) /\ lost' = lost \cup Dropped(stale)
        /\ flights' = Orphaned(flights, stale)
        /\ UNCHANGED <<disk, made, saves, loads, failures>>
    BY <1>2 DEF Publish
  <2>2. stale \in SUBSET Tabs
    OBVIOUS
  <2> HIDE DEF stale
  <2>3. Dropped(stale) \subseteq 1 .. made
    BY <2>2, DroppedFacts
  <2>4. lost' \subseteq 1 .. made
    BY <2>1, <2>3 DEF TypeInv, Counters
  <2>5. Counters' /\ DiskFits'
    BY <2>1, <2>4 DEF TypeInv, Counters, DiskFits
  <2>6. Rows'
    BY <2>1, <2>2, RowsAgain
  <2> QED BY <2>5, <2>6 DEF TypeInv
<1>3. CASE RenameFile
  <2> DEFINE ts == {t \in Tabs : doc[t].text # doc[t].content}
             R(t) == [doc[t] EXCEPT !.text = doc[t].content]
  <2>1. /\ disk' = [disk EXCEPT !.name = @ + 1] /\ loads' = loads + 1 /\ loads < MaxLoads
        /\ doc' = [t \in Tabs |-> R(t)] /\ load' = [t \in Tabs |-> NoLoad]
        /\ lost' = lost \cup Dropped(ts)
        /\ UNCHANGED <<flights, made, saves, failures>>
    BY <1>3 DEF RenameFile
  <2>2. disk' \in DiskSet /\ disk'.text = disk.text /\ disk'.name = disk.name + 1
        /\ disk'.mtime = disk.mtime
    BY <2>1 DEF DiskSet
  <2>3. ts \in SUBSET Tabs
    OBVIOUS
  <2> HIDE DEF ts
  <2>4. lost' \subseteq 1 .. made
    BY <2>1, <2>3, DroppedFacts DEF TypeInv, Counters
  <2>5. Counters' /\ DiskFits'
    BY <2>1, <2>2, <2>4 DEF TypeInv, Counters, DiskFits
  <2>6. ASSUME NEW t \in Tabs
        PROVE /\ R(t) \in Docs /\ DocFits(R(t), made, disk.mtime)
              /\ R(t).status = doc[t].status /\ R(t).saveState = doc[t].saveState
    <3>1. doc[t] \in Docs /\ DocFits(doc[t], made, disk.mtime)
      BY <1>0 DEF Fits
    <3>2. LET e == R(t) IN
          /\ e \in Docs /\ e.text = doc[t].content /\ e.status = doc[t].status
          /\ e.content = doc[t].content /\ e.known = doc[t].known /\ e.base = doc[t].base
          /\ e.saveState = doc[t].saveState
      BY <3>1, RenamedFacts
    <3>3. ASSUME doc[t].status # "ready" PROVE R(t) = doc[t]
      <4>1. doc[t].text = doc[t].content
        BY <3>1, <3>3, Blank DEF DocFits
      <4> QED BY <3>1, <4>1 DEF Docs
    <3> HIDE DEF R
    <3> QED BY <3>1, <3>2, <3>3 DEF DocFits
  <2> HIDE DEF R
  <2>7. DocsFit' /\ \A t \in Tabs : /\ doc'[t].status = doc[t].status
                                    /\ doc'[t].saveState = doc[t].saveState
    BY <2>1, <2>2, <2>6 DEF DocsFit
  <2>8. LoadFits(NoLoad, made, disk.mtime)
    BY Blank DEF LoadFits
  <2>9. LoadsFit' /\ LoadingLoads'
    BY <2>1, <2>2, <2>8, Blank DEF LoadsFit, LoadingLoads
  <2>10. FlightsFit'
    BY <2>1, <2>2 DEF TypeInv, FlightsFit
  <2>11. LiveSaves' /\ OneLive'
    BY <1>0, <2>1, <2>7 DEF Fits, TypeInv, LiveSaves, OneLive
  <2> QED BY <2>5, <2>7, <2>9, <2>10, <2>11 DEF TypeInv
<1> QED BY <1>1, <1>2, <1>3

\* What fits keeps fitting.
LEMMA NextFits == ConstantsAssumption /\ TypeInv /\ [Next]_vars => TypeInv'
<1> SUFFICES ASSUME ConstantsAssumption, TypeInv, [Next]_vars PROVE TypeInv'
  OBVIOUS
<1>1. CASE UNCHANGED vars
  BY <1>1 DEF vars, TypeInv, Counters, DiskFits, DocsFit, LoadsFit, LoadingLoads, FlightsFit,
              LiveSaves, OneLive
<1>2. CASE Next
  BY <1>2, TabFits, SaveFits, OthersFit DEF Next
<1> QED BY <1>1, <1>2

\* The history of blind saves is a flag.
LEMMA BlindIsAFlag == blind \in BOOLEAN /\ [Next]_vars => (blind \in BOOLEAN)'
<1> SUFFICES ASSUME blind \in BOOLEAN, [Next]_vars
    PROVE blind' = blind \/ \E f \in flights : blind' = (blind \/ disk.text # f.knew)
  OBVIOUS
<1> USE DEF Open, Close, Refresh, Type, ToEdit, ToPreview, Save, LoadStep, LoadStat, LoadRead,
            LoadDone, HostStep, SaveChecked, SaveRenamed, SaveStatted, SaveFails, SaveAnswered,
            AnswerLost, Write, Publish, RenameFile
<1> QED BY Zenon DEF Next, vars

\* The module's types: what is held, in flight and counted stays in its range, a
\* document that is not shown is blank, only a row that loads reads, and one save of
\* a tab at most still has its reader.
LEMMA FitsTypes == ConstantsAssumption /\ TypeInv /\ blind \in BOOLEAN => TypeOK
<1> SUFFICES ASSUME ConstantsAssumption, TypeInv, blind \in BOOLEAN PROVE TypeOK
  OBVIOUS
<1>0. Fits
  BY Fitting
<1>1. disk \in [text: Texts, mtime: Nat, by: {"user", "model", "other"}, name: 0 .. MaxLoads]
  BY <1>0 DEF Fits, TypeInv, Counters, DiskFits, DiskSet, Texts
<1>2. ASSUME NEW t \in Tabs
      PROVE /\ doc[t].status \in {"closed", "loading", "ready"}
            /\ doc[t].content \in 0 .. made /\ doc[t].text \in 0 .. made
            /\ doc[t].known \in 0 .. made /\ doc[t].base \in 0 .. disk.mtime
            /\ doc[t].mode \in {"preview", "edit"}
            /\ doc[t].saveState \in {"idle", "saving", "saved", "failed"}
            /\ doc[t].status # "ready" => doc[t] \in {Closed, Loading}
  BY <1>0 DEF Fits, DocFits, Docs
<1>3. ASSUME NEW t \in Tabs PROVE doc[t].dirty \in BOOLEAN /\ doc[t].conflict \in BOOLEAN
  BY <1>0 DEF Fits, Docs
<1>4. ASSUME NEW t \in Tabs
      PROVE load[t] \in [stage: {"none", "asked", "statted", "read"}, mtime: 0 .. disk.mtime,
                         content: 0 .. made]
  BY <1>0 DEF Fits, LoadFits, LoadSet
<1>5. ASSUME NEW t \in Tabs PROVE Cardinality({f \in flights : f.tab = t /\ f.live}) <= 1
  <2> DEFINE S == {f \in flights : f.tab = t /\ f.live}
  <2> SUFFICES Cardinality(S) <= 1
    OBVIOUS
  <2>1. CASE S = {}
    BY <2>1, FS_EmptySet
  <2>2. CASE S # {}
    <3>1. PICK f \in S : S = {f}
      BY <2>2 DEF TypeInv, OneLive
    <3>2. Cardinality({f}) = 1
      BY FS_Singleton
    <3> HIDE DEF S
    <3> QED BY <3>1, <3>2
  <2> QED BY <2>1, <2>2
<1>6. made \in Texts /\ lost \subseteq Texts
  BY <1>0 DEF Fits, Texts
<1> QED BY <1>1, <1>2, <1>3, <1>4, <1>5, <1>6
        DEF TypeOK, TypeInv, LoadingLoads, LiveSaves, Counters

\* Theorem: the types hold for any number of tabs, whoever writes and renames, and
\* whether or not the user types while a save is in flight.
THEOREM TypeCorrect == ASSUME ConstantsAssumption PROVE Spec => []TypeOK
<1>1. Init => TypeInv /\ blind \in BOOLEAN
  BY InitFits DEF Init
<1>2. TypeInv /\ blind \in BOOLEAN /\ [Next]_vars => (TypeInv /\ blind \in BOOLEAN)'
  BY NextFits, BlindIsAFlag
<1>3. TypeInv /\ blind \in BOOLEAN => TypeOK
  BY FitsTypes
<1> QED BY <1>1, <1>2, <1>3, PTL DEF Spec
-----------------------------------------------------------------------------
(* Drafts                                                                   *)

\* Where the registry knows every draft, tabs it calls clean drop none.
LEMMA CleanDropsNothing ==
  ASSUME DraftsAreGuarded, NEW ts \in SUBSET Tabs, \A t \in ts : Ready(t) => ~doc[t].dirty
  PROVE Dropped(ts) = {}
BY DEF DraftsAreGuarded, Dropped, Unsaved

\* Rows that load hold no draft, and a save that lost its reader carries none.
LEMMA RowsAgainSafe ==
  ASSUME TypeInv, DraftsAreGuarded, SavesTheText, NEW ts \in SUBSET Tabs, Reloaded(ts),
         \A f \in flights' : f.live => f \in flights /\ f.tab \notin ts
  PROVE DraftsAreGuarded' /\ SavesTheText'
<1>1. \A t \in Tabs : doc'[t] = IF t \in ts THEN Loading ELSE doc[t]
  BY DEF Reloaded
<1>2. DraftsAreGuarded'
  BY <1>1, Blank DEF DraftsAreGuarded, Unsaved, Ready
<1>3. SavesTheText'
  <2> SUFFICES ASSUME NEW f \in flights', f.live PROVE f.text = doc'[f.tab].text
    BY DEF SavesTheText
  <2>1. f \in flights /\ f.tab \notin ts /\ f.tab \in Tabs
    BY DEF TypeInv, FlightsFit, FlightFits, FlightSet
  <2> QED BY <1>1, <2>1 DEF SavesTheText
<1> QED BY <1>2, <1>3

DraftKnown(d) == d.status = "ready" /\ d.text # d.known => d.dirty

\* A tab's document changes, and is known if it is a draft.
LEMMA RowSafe ==
  ASSUME TypeInv, DraftsAreGuarded, SavesTheText, NEW t \in Tabs, NEW d,
         doc' = [doc EXCEPT ![t] = d],
         DraftKnown(d),
         \A f \in flights' : f.live => f \in flights \/ f.tab = t,
         \A f \in flights' : f.live /\ f.tab = t => f.text = d.text
  PROVE DraftsAreGuarded' /\ SavesTheText'
<1>1. doc'[t] = d /\ \A u \in Tabs \ {t} : doc'[u] = doc[u]
  BY DEF TypeInv, DocsFit
<1>2. DraftsAreGuarded'
  <2> SUFFICES ASSUME NEW u \in Tabs, doc'[u].status = "ready", doc'[u].text # doc'[u].known
      PROVE doc'[u].dirty
    BY DEF DraftsAreGuarded, Unsaved, Ready
  <2>1. CASE u = t
    BY <1>1, <2>1 DEF DraftKnown
  <2>2. CASE u # t
    BY <1>1, <2>2 DEF DraftsAreGuarded, Unsaved, Ready
  <2> QED BY <2>1, <2>2
<1>3. SavesTheText'
  <2> SUFFICES ASSUME NEW f \in flights', f.live PROVE f.text = doc'[f.tab].text
    BY DEF SavesTheText
  <2>1. CASE f.tab = t
    BY <1>1, <2>1
  <2>2. CASE f.tab # t
    <3>1. f \in flights /\ f.tab \in Tabs
      BY <2>2 DEF TypeInv, FlightsFit, FlightFits, FlightSet
    <3> QED BY <1>1, <2>2, <3>1 DEF SavesTheText
  <2> QED BY <2>1, <2>2
<1> QED BY <1>2, <1>3

\* Only saves take a step, and those that keep their reader keep their text.
LEMMA SavesSafe ==
  ASSUME TypeInv, DraftsAreGuarded, SavesTheText, doc' = doc,
         \A g \in flights' : g.live => \E f \in flights : f.live /\ g.tab = f.tab /\ g.text = f.text
  PROVE DraftsAreGuarded' /\ SavesTheText'
BY DEF DraftsAreGuarded, Unsaved, Ready, SavesTheText

\* Each step of a tab keeps the drafts safe.
LEMMA TabSafe ==
  ASSUME ConstantsAssumption, TypesInSave = FALSE, TypeInv, SafeInv, NEW t \in Tabs,
         \/ Open(t) \/ Close(t) \/ Refresh(t) \/ Type(t) \/ ToEdit(t) \/ ToPreview(t) \/ Save(t)
         \/ LoadStep(t)
  PROVE SafeInv'
<1>a. DraftsAreGuarded /\ lost = {} /\ SavesTheText
  BY DEF SafeInv, DraftsAreSafe, NothingLost
<1>b. doc[t] \in Docs /\ \A f \in flights : f.tab \in Tabs /\ f \in FlightSet
  BY Fitting DEF Fits
<1>c. DraftsAreGuarded' /\ SavesTheText' /\ lost' = {} => SafeInv'
  BY DEF SafeInv, DraftsAreSafe, NothingLost
<1>d. ASSUME ~doc[t].dirty PROVE Dropped({t}) = {}
  BY <1>a, <1>d, CleanDropsNothing
<1>1. CASE Open(t)
  <2>1. Reloaded({t}) /\ flights' = flights /\ lost' = lost /\ doc[t].status = "closed"
    BY <1>1 DEF Open
  <2>2. \A f \in flights' : f.live => f \in flights /\ f.tab \notin {t}
    BY <2>1 DEF TypeInv, LiveSaves
  <2> QED BY <1>a, <1>c, <2>1, <2>2, RowsAgainSafe
<1>2. CASE Close(t)
  <2>1. /\ doc' = [doc EXCEPT ![t] = Closed] /\ flights' = Orphaned(flights, {t})
        /\ made' = made /\ disk' = disk
    BY <1>2 DEF Close
  <2>2. \A f \in flights' : f.live => f \in flights /\ f.tab # t
    BY <2>1, OrphanedKeeps
  <2>a. DraftKnown(Closed)
    BY Blank DEF DraftKnown
  <2>3. DraftsAreGuarded' /\ SavesTheText'
    BY <1>a, <2>1, <2>2, <2>a, RowSafe
  <2>4. lost' = {}
    BY <1>2, <1>a, <1>d DEF Close
  <2> QED BY <1>c, <2>3, <2>4
<1>3. CASE Refresh(t)
  <2>1. /\ Reloaded({t}) /\ flights' = Orphaned(flights, {t}) /\ made' = made /\ disk' = disk
    BY <1>3 DEF Refresh
  <2>2. \A f \in flights' : f.live => f \in flights /\ f.tab \notin {t}
    BY <2>1, OrphanedKeeps
  <2>3. lost' = {}
    BY <1>3, <1>a, <1>d DEF Refresh
  <2> QED BY <1>a, <1>c, <2>1, <2>2, <2>3, RowsAgainSafe
<1>4. CASE Type(t)
  <2> DEFINE d == Drafted(doc[t], made + 1)
  <2>1. made + 1 \in Nat
    BY DEF TypeInv, Counters
  <2>2. DraftKnown(d)
    BY <1>b, <2>1, DraftedFacts DEF DraftKnown
  <2>3. doc' = [doc EXCEPT ![t] = d] /\ flights' = flights /\ lost' = lost /\ ~Saving(t)
    BY <1>4 DEF Type
  <2> HIDE DEF d
  <2>4. DraftsAreGuarded' /\ SavesTheText'
    BY <1>a, <2>2, <2>3, RowSafe DEF Saving
  <2> QED BY <1>a, <1>c, <2>3, <2>4
<1>5. ASSUME NEW m \in {"preview", "edit"}, doc' = [doc EXCEPT ![t].mode = m],
             flights' = flights, lost' = lost
      PROVE SafeInv'
  <2> DEFINE d == [doc[t] EXCEPT !.mode = m]
  <2>1. /\ d.text = doc[t].text /\ d.status = doc[t].status /\ d.known = doc[t].known
        /\ d.dirty = doc[t].dirty
    BY <1>b, ModeFacts
  <2>2. doc' = [doc EXCEPT ![t] = d]
    BY <1>5
  <2> HIDE DEF d
  <2>3. DraftKnown(d)
    BY <1>a, <2>1 DEF DraftsAreGuarded, Unsaved, Ready, DraftKnown
  <2>4. DraftsAreGuarded' /\ SavesTheText'
    <3>1. \A f \in flights' : f.live /\ f.tab = t => f.text = d.text
      BY <1>5, <1>a, <2>1 DEF SavesTheText
    <3> QED BY <1>5, <1>a, <2>2, <2>3, <3>1, RowSafe
  <2> QED BY <1>5, <1>a, <1>c, <2>4
<1>6. CASE ToEdit(t)
  BY <1>5, <1>6 DEF ToEdit
<1>7. CASE ToPreview(t)
  <2>1. CASE StaysOnReturn(t)
    BY <1>5, <1>7, <2>1 DEF ToPreview
  <2>2. CASE ~StaysOnReturn(t)
    <3>1. /\ Reloaded({t}) /\ flights' = Orphaned(flights, {t}) /\ made' = made /\ disk' = disk
          /\ lost' = lost \cup Dropped({t})
      BY <1>7, <2>2 DEF ToPreview
    <3>2. \A f \in flights' : f.live => f \in flights /\ f.tab \notin {t}
      BY <3>1, OrphanedKeeps
    <3>3. lost' = {}
      BY <1>a, <1>d, <2>2, <3>1 DEF StaysOnReturn
    <3> QED BY <1>a, <1>c, <3>1, <3>2, <3>3, RowsAgainSafe
  <2> QED BY <2>1, <2>2
<1>8. CASE Save(t)
  <2> DEFINE d == [doc[t] EXCEPT !.saveState = "saving"]
             g == Flight(t)
  <2>1. /\ d.text = doc[t].text /\ d.status = doc[t].status /\ d.known = doc[t].known
        /\ d.dirty = doc[t].dirty
    BY <1>b, SaveStateFacts
  <2>2. doc' = [doc EXCEPT ![t] = d] /\ flights' = flights \cup {g} /\ lost' = lost /\ ~Saving(t)
    BY <1>8 DEF Save
  <2>3. g.tab = t /\ g.text = doc[t].text
    BY DEF Flight
  <2> HIDE DEF d, g
  <2>4. DraftKnown(d)
    BY <1>a, <2>1 DEF DraftsAreGuarded, Unsaved, Ready, DraftKnown
  <2>5. \A f \in flights' : f.live /\ f.tab = t => f.text = d.text
    BY <2>1, <2>2, <2>3 DEF Saving
  <2>6. \A f \in flights' : f.live => f \in flights \/ f.tab = t
    BY <2>2, <2>3
  <2>7. DraftsAreGuarded' /\ SavesTheText'
    BY <1>a, <2>2, <2>4, <2>5, <2>6, RowSafe
  <2> QED BY <1>a, <1>c, <2>2, <2>7
<1>9. CASE LoadStat(t) \/ LoadRead(t)
  <2>1. doc' = doc /\ flights' = flights /\ lost' = lost
    BY <1>9 DEF LoadStat, LoadRead
  <2> QED BY <1>a, <1>c, <2>1, SavesSafe
<1>10. CASE LoadDone(t)
  <2> DEFINE d == Loaded(load[t])
  <2>1. load[t] \in LoadSet
    BY DEF TypeInv, LoadsFit
  <2>2. DraftKnown(d)
    BY <2>1, LoadedFacts DEF DraftKnown
  <2>3. /\ doc' = [doc EXCEPT ![t] = d] /\ flights' = flights /\ lost' = lost
        /\ load[t].stage = "read"
    BY <1>10 DEF LoadDone
  <2> HIDE DEF d
  <2>4. \A f \in flights : f.live => f.tab # t
    BY <2>3 DEF TypeInv, LiveSaves, LoadingLoads
  <2>5. DraftsAreGuarded' /\ SavesTheText'
    BY <1>a, <2>2, <2>3, <2>4, RowSafe
  <2> QED BY <1>a, <1>c, <2>3, <2>5
<1> QED BY <1>1, <1>2, <1>3, <1>4, <1>6, <1>7, <1>8, <1>9, <1>10 DEF LoadStep

\* Each step of a save does.
LEMMA SaveSafe ==
  ASSUME ConstantsAssumption, TypeInv, SafeInv, NEW f \in flights,
         HostStep(f) \/ SaveFails(f) \/ SaveAnswered(f) \/ AnswerLost(f)
  PROVE SafeInv'
<1> DEFINE t == f.tab
<1>a. DraftsAreGuarded /\ lost = {} /\ SavesTheText
  BY DEF SafeInv, DraftsAreSafe, NothingLost
<1>b. f \in FlightSet /\ t \in Tabs /\ doc[t] \in Docs /\ disk.mtime \in Nat
  BY Fitting DEF Fits
<1>c. DraftsAreGuarded' /\ SavesTheText' /\ lost' = {} => SafeInv'
  BY DEF SafeInv, DraftsAreSafe, NothingLost
<1>1. ASSUME NEW s \in {"sent", "checked", "renamed", "done", "conflict", "failed"},
             flights' = (flights \ {f}) \cup {[f EXCEPT !.stage = s]}, doc' = doc, lost' = lost
      PROVE SafeInv'
  <2> DEFINE g == [f EXCEPT !.stage = s]
  <2>1. g.tab = f.tab /\ (g.live => f.live) /\ g.text = f.text
    BY <1>b, StageFacts
  <2>2. flights' = (flights \ {f}) \cup {g}
    BY <1>1
  <2> HIDE DEF g
  <2> QED BY <1>1, <1>a, <1>c, <2>1, <2>2, SavesSafe
<1>2. CASE SaveChecked(f)
  <2>1. PICK s \in {"conflict", "checked"} : flights' = (flights \ {f}) \cup {[f EXCEPT !.stage = s]}
    BY <1>2 DEF SaveChecked
  <2>2. doc' = doc /\ lost' = lost
    BY <1>2 DEF SaveChecked
  <2> QED BY <1>1, <2>1, <2>2
<1>3. CASE SaveFails(f)
  BY <1>1, <1>3 DEF SaveFails
<1>4. CASE SaveRenamed(f)
  BY <1>1, <1>4 DEF SaveRenamed
<1>5. CASE SaveStatted(f)
  <2> DEFINE g == [f EXCEPT !.stage = "done", !.mtime = disk.mtime]
  <2>1. g.tab = f.tab /\ (g.live => f.live) /\ g.text = f.text
    BY <1>b, StattedFacts
  <2>2. flights' = (flights \ {f}) \cup {g} /\ doc' = doc /\ lost' = lost
    BY <1>5 DEF SaveStatted
  <2> HIDE DEF g
  <2> QED BY <1>a, <1>c, <2>1, <2>2, SavesSafe
<1>6. CASE AnswerLost(f)
  <2> DEFINE d == [doc[t] EXCEPT !.saveState = "failed"]
             g == [f EXCEPT !.live = FALSE]
  <2>1. /\ d.text = doc[t].text /\ d.status = doc[t].status /\ d.known = doc[t].known
        /\ d.dirty = doc[t].dirty
    BY <1>b, SaveStateFacts
  <2>2. ~g.live
    BY <1>b, OrphanFacts
  <2>3. doc' = [doc EXCEPT ![t] = d] /\ flights' = (flights \ {f}) \cup {g} /\ lost' = lost
    BY <1>6 DEF AnswerLost
  <2> HIDE DEF d, g
  <2>4. DraftKnown(d)
    BY <1>a, <1>b, <2>1 DEF DraftsAreGuarded, Unsaved, Ready, DraftKnown
  <2>5. \A h \in flights' : h.live => h \in flights
    BY <2>2, <2>3
  <2>6. \A h \in flights' : h.live /\ h.tab = t => h.text = d.text
    BY <1>a, <2>1, <2>5 DEF SavesTheText
  <2>7. DraftsAreGuarded' /\ SavesTheText'
    BY <1>a, <1>b, <2>3, <2>4, <2>5, <2>6, RowSafe
  <2> QED BY <1>a, <1>c, <2>3, <2>7
<1>7. CASE SaveAnswered(f)
  <2>1. flights' = flights \ {f}
    BY <1>7 DEF SaveAnswered
  <2>2. f.live => f.text = doc[t].text
    BY <1>a DEF SavesTheText
  <2>3. CASE ~f.live
    <3>1. doc' = doc /\ lost' = lost
      BY <1>7, <2>3 DEF SaveAnswered
    <3> QED BY <1>a, <1>c, <2>1, <3>1, SavesSafe
  <2>4. \A g \in flights' : f.live /\ g.live => g \in flights /\ g.tab # t
    BY <2>1 DEF TypeInv, OneLive
  <2>5. CASE f.live /\ f.stage = "done" /\ doc[t].mode = "preview"
    <3>1. Reloaded({t}) /\ lost' = lost
      BY <1>7, <2>2, <2>5 DEF SaveAnswered
    <3>2. \A g \in flights' : g.live => g \in flights /\ g.tab \notin {t}
      BY <2>4, <2>5
    <3>3. DraftsAreGuarded' /\ SavesTheText'
      BY <1>a, <1>b, <3>1, <3>2, RowsAgainSafe
    <3> QED BY <1>a, <1>c, <3>1, <3>3
  <2>6. CASE f.live /\ ~(f.stage = "done" /\ doc[t].mode = "preview")
    <3> DEFINE d == CASE f.stage = "done" -> Adopt(doc[t], f)
                      [] f.stage = "conflict" -> Refused(doc[t])
                      [] OTHER -> [doc[t] EXCEPT !.saveState = "failed"]
    <3>1. doc' = [doc EXCEPT ![t] = d] /\ lost' = lost
      BY <1>7, <2>6 DEF SaveAnswered
    <3>2. DraftKnown(d)
      <4>1. CASE f.stage = "done"
        BY <1>b, <2>2, <2>6, <4>1, AdoptFacts DEF DraftKnown
      <4>2. ASSUME d.text = doc[t].text, d.status = doc[t].status, d.known = doc[t].known,
                   d.dirty = doc[t].dirty
            PROVE DraftKnown(d)
        <5> HIDE DEF d
        <5> QED BY <1>a, <1>b, <4>2 DEF DraftsAreGuarded, Unsaved, Ready, DraftKnown
      <4>3. CASE f.stage = "conflict"
        BY <1>b, <4>2, <4>3, RefusedFacts
      <4>4. CASE f.stage # "done" /\ f.stage # "conflict"
        <5>1. d = [doc[t] EXCEPT !.saveState = "failed"]
          BY <4>4
        <5> HIDE DEF d
        <5> QED BY <1>b, <4>2, <5>1, FailedFacts
      <4> QED BY <4>1, <4>3, <4>4
    <3> HIDE DEF d
    <3>3. DraftsAreGuarded' /\ SavesTheText'
      BY <1>a, <1>b, <2>4, <2>6, <3>1, <3>2, RowSafe
    <3> QED BY <1>a, <1>c, <3>1, <3>3
  <2> QED BY <2>3, <2>5, <2>6
<1> QED BY <1>2, <1>3, <1>4, <1>5, <1>6, <1>7 DEF HostStep
\* Others' writes, a publication and a rename over clean documents do.
LEMMA OthersSafe ==
  ASSUME ConstantsAssumption, Renames # "any", TypeInv, SafeInv,
         (\E by \in {"model", "other"} : Write(by)) \/ Publish \/ RenameFile
  PROVE SafeInv'
<1>a. DraftsAreGuarded /\ lost = {} /\ SavesTheText
  BY DEF SafeInv, DraftsAreSafe, NothingLost
<1>b. \A t \in Tabs : doc[t] \in Docs
  BY Fitting DEF Fits
<1>c. DraftsAreGuarded' /\ SavesTheText' /\ lost' = {} => SafeInv'
  BY DEF SafeInv, DraftsAreSafe, NothingLost
<1>1. ASSUME NEW by \in {"model", "other"}, Write(by) PROVE SafeInv'
  <2>1. doc' = doc /\ flights' = flights /\ lost' = lost
    BY <1>1 DEF Write
  <2> QED BY <1>a, <1>c, <2>1, SavesSafe
<1>2. CASE Publish
  <2> DEFINE open == {t \in Tabs : doc[t].status # "closed"}
             stale == {t \in open : ~Spared(t)}
  <2>1. /\ Reloaded(stale) /\ lost' = lost \cup Dropped(stale)
        /\ flights' = Orphaned(flights, stale) /\ made' = made /\ disk' = disk
    BY <1>2 DEF Publish
  <2>2. stale \in SUBSET Tabs /\ \A t \in stale : Ready(t) => ~doc[t].dirty
    BY DEF Spared
  <2> HIDE DEF stale
  <2>3. \A f \in flights' : f.live => f \in flights /\ f.tab \notin stale
    BY <2>1, OrphanedKeeps
  <2>4. lost' = {}
    BY <1>a, <2>1, <2>2, CleanDropsNothing
  <2> QED BY <1>a, <1>c, <2>1, <2>2, <2>3, <2>4, RowsAgainSafe
<1>3. CASE RenameFile
  <2> DEFINE ts == {t \in Tabs : doc[t].text # doc[t].content}
             R(t) == [doc[t] EXCEPT !.text = doc[t].content]
  <2>1. /\ doc' = [t \in Tabs |-> R(t)] /\ lost' = lost \cup Dropped(ts) /\ flights' = flights
    BY <1>3 DEF RenameFile
  <2>2. \A t \in Tabs : Ready(t) => doc[t].text = doc[t].content /\ ~Unsaved(t)
    BY <1>3 DEF RenameFile, ConstantsAssumption
  <2>3. Dropped(ts) = {}
    BY <2>2 DEF Dropped, Unsaved
  <2>4. ASSUME NEW t \in Tabs, doc[t].status = "ready" PROVE R(t) = doc[t]
    <3>1. doc[t].text = doc[t].content /\ doc[t] \in Docs
      BY <1>b, <2>2, <2>4 DEF Ready
    <3> QED BY <3>1 DEF Docs
  <2>5. ASSUME NEW t \in Tabs PROVE R(t).status = doc[t].status
    BY <1>b, RenamedFacts
  <2> HIDE DEF R
  <2>6. DraftsAreGuarded'
    BY <1>a, <2>1, <2>4, <2>5 DEF DraftsAreGuarded, Unsaved, Ready
  <2>7. \A f \in flights : f.live => f.tab \in Tabs /\ doc[f.tab].status = "ready"
    BY DEF TypeInv, FlightsFit, FlightFits, FlightSet, LiveSaves
  <2>8. SavesTheText'
    BY <1>a, <2>1, <2>4, <2>7 DEF SavesTheText
  <2> QED BY <1>a, <1>c, <2>1, <2>3, <2>6, <2>8
<1> QED BY <1>1, <1>2, <1>3

\* Theorem: for any number of tabs, whoever else writes the file and at any moment of
\* a save, the registry knows every draft and none is lost unasked to a reload, to a
\* close or to a rename, as long as the user does not type while a save is in flight
\* and no rename in the tree hits a document that was edited (EditorDraft and
\* EditorRename show what happens then).
THEOREM DraftsAreSafeHolds ==
  ASSUME ConstantsAssumption, TypesInSave = FALSE, Renames # "any"
  PROVE Spec => []DraftsAreSafe
<1>1. Init => TypeInv /\ SafeInv
  <2>1. Init => \A t \in Tabs : ~Ready(t)
    BY Blank DEF Init, Ready
  <2>2. Init => SafeInv
    BY <2>1 DEF Init, SafeInv, DraftsAreSafe, DraftsAreGuarded, NothingLost, SavesTheText, Unsaved
  <2> QED BY <2>2, InitFits
<1>2. TypeInv /\ SafeInv /\ [Next]_vars => (TypeInv /\ SafeInv)'
  <2> SUFFICES ASSUME TypeInv, SafeInv, [Next]_vars PROVE SafeInv'
    BY NextFits
  <2>1. CASE UNCHANGED vars
    BY <2>1 DEF vars, SafeInv, DraftsAreSafe, DraftsAreGuarded, NothingLost, SavesTheText, Unsaved,
                Ready
  <2>2. CASE Next
    BY <2>2, TabSafe, SaveSafe, OthersSafe DEF Next
  <2> QED BY <2>1, <2>2
<1>3. SafeInv => DraftsAreSafe
  BY DEF SafeInv
<1> QED BY <1>1, <1>2, <1>3, PTL DEF Spec
-----------------------------------------------------------------------------
(* Saves                                                                    *)

\* Rows that load hold no mtime, and their reads have seen no text.
LEMMA RowsAgainKnow ==
  ASSUME TypeInv, DocsKnow, ReadsKnow, NEW ts \in SUBSET Tabs, Reloaded(ts), disk' = disk
  PROVE DocsKnow' /\ ReadsKnow'
<1>1. ASSUME NEW t \in Tabs PROVE DocKnows(doc'[t], disk'.text, disk'.mtime)
  <2>1. doc'[t] = IF t \in ts THEN Loading ELSE doc[t]
    BY DEF Reloaded
  <2>2. DocKnows(Loading, disk.text, disk.mtime)
    BY Blank DEF DocKnows
  <2> QED BY <2>1, <2>2 DEF DocsKnow
<1>2. ASSUME NEW t \in Tabs PROVE ReadKnows(load'[t], disk'.text, disk'.mtime)
  <2>1. load'[t] = IF t \in ts THEN Asked ELSE load[t]
    BY DEF Reloaded, Asked
  <2>2. ReadKnows(Asked, disk.text, disk.mtime)
    BY Blank DEF ReadKnows
  <2> QED BY <2>1, <2>2 DEF ReadsKnow
<1> QED BY <1>1, <1>2 DEF DocsKnow, ReadsKnow

\* One tab's document changes, and knows the file's text if it holds its mtime.
LEMMA RowKnows ==
  ASSUME TypeInv, DocsKnow, NEW t \in Tabs, NEW d, doc' = [doc EXCEPT ![t] = d],
         DocKnows(d, disk.text, disk.mtime), disk' = disk
  PROVE DocsKnow'
<1>1. doc'[t] = d /\ \A u \in Tabs \ {t} : doc'[u] = doc[u]
  BY DEF TypeInv, DocsFit
<1> SUFFICES ASSUME NEW u \in Tabs PROVE DocKnows(doc'[u], disk.text, disk.mtime)
  BY DEF DocsKnow
<1>2. CASE u = t
  BY <1>1, <1>2
<1>3. CASE u # t
  BY <1>1, <1>3 DEF DocsKnow
<1> QED BY <1>2, <1>3

\* A save that loses its reader knows what it knew, and is still alone.
LEMMA OrphanedKnow ==
  ASSUME TypeInv, SavesKnow, OneMidSave, NEW ts, flights' = Orphaned(flights, ts), disk' = disk
  PROVE SavesKnow' /\ OneMidSave'
<1>1. flights \in SUBSET FlightSet
  BY DEF TypeInv, FlightsFit, FlightFits
<1>2. SavesKnow'
  <2> SUFFICES ASSUME NEW g \in Orphaned(flights, ts) PROVE SaveKnows(g, disk.text, disk.mtime)
    BY DEF SavesKnow
  <2>1. PICK f \in flights : /\ g.stage = f.stage /\ g.text = f.text /\ g.knew = f.knew
                             /\ g.expected = f.expected /\ g.mtime = f.mtime
    BY <1>1, OrphanedFacts
  <2>2. SaveKnows(f, disk.text, disk.mtime)
    BY DEF SavesKnow
  <2> QED BY <2>1, <2>2 DEF SaveKnows
<1>3. OneMidSave'
  <2> SUFFICES ASSUME NEW g \in Orphaned(flights, ts), NEW h \in Orphaned(flights, ts),
                      g.stage \in {"checked", "renamed"}, h.stage \in {"checked", "renamed"}
               PROVE g = h
    BY DEF OneMidSave
  <2> DEFINE O(f) == [f EXCEPT !.live = @ /\ f.tab \notin ts]
  <2>1. PICK f \in flights : g = O(f)
    BY DEF Orphaned
  <2>2. PICK e \in flights : h = O(e)
    BY DEF Orphaned
  <2>3. ASSUME NEW x \in flights PROVE O(x).stage = x.stage
    BY <1>1 DEF FlightSet
  <2> HIDE DEF O
  <2>4. f = e
    BY <2>1, <2>2, <2>3 DEF OneMidSave
  <2> QED BY <2>1, <2>2, <2>4
<1> QED BY <1>2, <1>3

\* A new mtime is nobody's: no document, no read and no save that waits holds it.
LEMMA NewMtime ==
  ASSUME ConstantsAssumption, TypeInv, disk'.mtime = disk.mtime + 1
  PROVE /\ doc' = doc => DocsKnow'
        /\ load' = load => ReadsKnow'
        /\ \A f \in flights : f.stage \in {"sent", "done", "conflict", "failed"}
                                => SaveKnows(f, disk'.text, disk'.mtime)
<1>0. Fits
  BY Fitting
<1>1. disk.mtime \in Nat
  BY <1>0 DEF Fits
<1>2. ASSUME NEW t \in Tabs PROVE DocKnows(doc[t], disk'.text, disk'.mtime)
  <2>1. doc[t].base \in Nat /\ doc[t].base <= disk.mtime
    BY <1>0 DEF Fits, DocFits, Docs
  <2> QED BY <1>1, <2>1 DEF DocKnows
<1>3. ASSUME NEW t \in Tabs PROVE ReadKnows(load[t], disk'.text, disk'.mtime)
  <2>1. load[t].mtime \in Nat /\ load[t].mtime <= disk.mtime
    BY <1>0 DEF Fits, LoadFits, LoadSet
  <2> QED BY <1>1, <2>1 DEF ReadKnows
<1>4. ASSUME NEW f \in flights, f.stage \in {"sent", "done", "conflict", "failed"}
      PROVE SaveKnows(f, disk'.text, disk'.mtime)
  <2>1. f.expected \in Nat /\ f.expected <= disk.mtime /\ f.mtime \in Nat /\ f.mtime <= disk.mtime
    BY <1>0 DEF Fits, FlightFits, FlightSet
  <2> QED BY <1>1, <1>4, <2>1 DEF SaveKnows
<1> QED BY <1>2, <1>3, <1>4 DEF DocsKnow, ReadsKnow

\* Each step of a tab keeps what holders of the mtime know.
LEMMA TabKnows ==
  ASSUME ConstantsAssumption, TypeInv, BlindInv, NEW t \in Tabs,
         \/ Open(t) \/ Close(t) \/ Refresh(t) \/ Type(t) \/ ToEdit(t) \/ ToPreview(t) \/ Save(t)
         \/ LoadStep(t)
  PROVE DocsKnow' /\ ReadsKnow' /\ SavesKnow' /\ OneMidSave'
<1>a. DocsKnow /\ ReadsKnow /\ SavesKnow /\ OneMidSave
  BY DEF BlindInv
<1>b. doc[t] \in Docs /\ load[t] \in LoadSet /\ made + 1 \in Nat
  BY Fitting DEF Fits
<1>c. flights' = flights /\ disk' = disk => SavesKnow' /\ OneMidSave'
  BY <1>a DEF SavesKnow, OneMidSave
<1>d. load' = load /\ disk' = disk => ReadsKnow'
  BY <1>a DEF ReadsKnow
<1>e. DocKnows(doc[t], disk.text, disk.mtime) /\ ReadKnows(load[t], disk.text, disk.mtime)
  BY <1>a DEF DocsKnow, ReadsKnow
<1>1. CASE Open(t)
  <2>1. Reloaded({t}) /\ flights' = flights /\ disk' = disk
    BY <1>1 DEF Open
  <2> QED BY <1>a, <1>c, <2>1, RowsAgainKnow
<1>2. CASE Close(t)
  <2>1. /\ doc' = [doc EXCEPT ![t] = Closed] /\ flights' = Orphaned(flights, {t})
        /\ load' = [load EXCEPT ![t] = NoLoad] /\ disk' = disk
    BY <1>2 DEF Close
  <2>2. DocKnows(Closed, disk.text, disk.mtime) /\ ReadKnows(NoLoad, disk.text, disk.mtime)
    BY Blank DEF DocKnows, ReadKnows
  <2>3. DocsKnow'
    BY <1>a, <2>1, <2>2, RowKnows
  <2>4. ReadsKnow'
    BY <1>a, <2>1, <2>2 DEF ReadsKnow, TypeInv, LoadsFit
  <2> QED BY <1>a, <2>1, <2>3, <2>4, OrphanedKnow
<1>3. CASE Refresh(t)
  <2>1. Reloaded({t}) /\ flights' = Orphaned(flights, {t}) /\ disk' = disk
    BY <1>3 DEF Refresh
  <2> QED BY <1>a, <2>1, RowsAgainKnow, OrphanedKnow
<1>4. ASSUME NEW d, doc' = [doc EXCEPT ![t] = d], d.status = doc[t].status,
             d.known = doc[t].known, d.base = doc[t].base, disk' = disk
      PROVE DocsKnow'
  <2>1. DocKnows(d, disk.text, disk.mtime)
    BY <1>e, <1>4 DEF DocKnows
  <2> QED BY <1>a, <1>4, <2>1, RowKnows
<1>5. CASE Type(t)
  <2> DEFINE d == Drafted(doc[t], made + 1)
  <2>1. d.status = doc[t].status /\ d.known = doc[t].known /\ d.base = doc[t].base
    BY <1>b, DraftedFacts
  <2>2. doc' = [doc EXCEPT ![t] = d] /\ flights' = flights /\ load' = load /\ disk' = disk
    BY <1>5 DEF Type
  <2> HIDE DEF d
  <2> QED BY <1>4, <1>c, <1>d, <2>1, <2>2
<1>6. ASSUME NEW m \in {"preview", "edit"}, doc' = [doc EXCEPT ![t].mode = m],
             flights' = flights, load' = load, disk' = disk
      PROVE DocsKnow' /\ ReadsKnow' /\ SavesKnow' /\ OneMidSave'
  <2> DEFINE d == [doc[t] EXCEPT !.mode = m]
  <2>1. d.status = doc[t].status /\ d.known = doc[t].known /\ d.base = doc[t].base
    BY <1>b, ModeFacts
  <2>2. doc' = [doc EXCEPT ![t] = d]
    BY <1>6
  <2> HIDE DEF d
  <2> QED BY <1>4, <1>6, <1>c, <1>d, <2>1, <2>2
<1>7. CASE ToEdit(t)
  BY <1>6, <1>7 DEF ToEdit
<1>8. CASE ToPreview(t)
  <2>1. CASE StaysOnReturn(t)
    BY <1>6, <1>8, <2>1 DEF ToPreview
  <2>2. CASE ~StaysOnReturn(t)
    <3>1. Reloaded({t}) /\ flights' = Orphaned(flights, {t}) /\ disk' = disk
      BY <1>8, <2>2 DEF ToPreview
    <3> QED BY <1>a, <3>1, RowsAgainKnow, OrphanedKnow
  <2> QED BY <2>1, <2>2
<1>9. CASE Save(t)
  <2> DEFINE d == [doc[t] EXCEPT !.saveState = "saving"]
             g == Flight(t)
  <2>1. d.status = doc[t].status /\ d.known = doc[t].known /\ d.base = doc[t].base
    BY <1>b, SaveStateFacts
  <2>2. /\ doc' = [doc EXCEPT ![t] = d] /\ flights' = flights \cup {g} /\ load' = load
        /\ disk' = disk /\ doc[t].status = "ready"
    BY <1>9 DEF Save, Ready
  <2>3. g.stage = "sent" /\ g.knew = doc[t].known /\ g.expected = doc[t].base
    BY DEF Flight
  <2> HIDE DEF d, g
  <2>4. SaveKnows(g, disk.text, disk.mtime)
    BY <1>e, <2>2, <2>3 DEF DocKnows, SaveKnows
  <2>5. SavesKnow' /\ OneMidSave'
    BY <1>a, <2>2, <2>3, <2>4 DEF SavesKnow, OneMidSave
  <2> QED BY <1>4, <1>d, <2>1, <2>2, <2>5
<1>10. ASSUME NEW l, load' = [load EXCEPT ![t] = l], ReadKnows(l, disk.text, disk.mtime),
              disk' = disk
       PROVE ReadsKnow'
  BY <1>a, <1>10 DEF ReadsKnow, TypeInv, LoadsFit
<1>11. CASE LoadStat(t)
  <2> DEFINE l == [load[t] EXCEPT !.stage = "statted", !.mtime = disk.mtime]
  <2>1. l.stage = "statted"
    BY <1>b DEF LoadSet
  <2>2. load' = [load EXCEPT ![t] = l] /\ doc' = doc /\ flights' = flights /\ disk' = disk
    BY <1>11 DEF LoadStat
  <2> HIDE DEF l
  <2>3. ReadKnows(l, disk.text, disk.mtime)
    BY <2>1 DEF ReadKnows
  <2> QED BY <1>a, <1>c, <1>10, <2>2, <2>3 DEF DocsKnow
<1>12. CASE LoadRead(t)
  <2> DEFINE l == [load[t] EXCEPT !.stage = "read", !.content = disk.text]
  <2>1. l.content = disk.text
    BY <1>b DEF LoadSet
  <2>2. load' = [load EXCEPT ![t] = l] /\ doc' = doc /\ flights' = flights /\ disk' = disk
    BY <1>12 DEF LoadRead
  <2> HIDE DEF l
  <2>3. ReadKnows(l, disk.text, disk.mtime)
    BY <2>1 DEF ReadKnows
  <2> QED BY <1>a, <1>c, <1>10, <2>2, <2>3 DEF DocsKnow
<1>13. CASE LoadDone(t)
  <2> DEFINE d == Loaded(load[t])
  <2>1. d.known = load[t].content /\ d.base = load[t].mtime
    BY <1>b, LoadedFacts
  <2>2. /\ doc' = [doc EXCEPT ![t] = d] /\ flights' = flights /\ disk' = disk
        /\ load' = [load EXCEPT ![t] = NoLoad] /\ load[t].stage = "read"
    BY <1>13 DEF LoadDone
  <2> HIDE DEF d
  <2>3. DocKnows(d, disk.text, disk.mtime)
    BY <1>e, <2>1, <2>2 DEF DocKnows, ReadKnows
  <2>4. ReadKnows(NoLoad, disk.text, disk.mtime)
    BY Blank DEF ReadKnows
  <2> QED BY <1>a, <1>c, <1>10, <2>2, <2>3, <2>4, RowKnows
<1> QED BY <1>1, <1>2, <1>3, <1>5, <1>7, <1>8, <1>9, <1>11, <1>12, <1>13 DEF LoadStep
\* Each step of a save does, and the one that replaces the text is not blind: nobody
\* wrote between its check and its rename.
LEMMA SaveSees ==
  ASSUME ConstantsAssumption, Overlap = FALSE, TypeInv, BlindInv, NEW f \in flights,
         HostStep(f) \/ SaveFails(f) \/ SaveAnswered(f) \/ AnswerLost(f)
  PROVE BlindInv'
<1> DEFINE t == f.tab
<1>a. ~blind /\ DocsKnow /\ ReadsKnow /\ SavesKnow /\ OneMidSave
  BY DEF BlindInv, NeverBlind
<1>b. f \in FlightSet /\ t \in Tabs /\ doc[t] \in Docs /\ disk.mtime \in Nat /\ disk \in DiskSet
      /\ f.text \in Nat
  BY Fitting DEF Fits, FlightSet
<1>c. SaveKnows(f, disk.text, disk.mtime) /\ DocKnows(doc[t], disk.text, disk.mtime)
  BY <1>a, <1>b DEF SavesKnow, DocsKnow
<1>1. ASSUME NEW g, SaveKnows(g, disk.text, disk.mtime), flights' = (flights \ {f}) \cup {g},
             \/ g.stage \notin {"checked", "renamed"}
             \/ \A h \in flights \ {f} : h.stage \notin {"checked", "renamed"},
             disk' = disk
      PROVE SavesKnow' /\ OneMidSave'
  BY <1>a, <1>1 DEF SavesKnow, OneMidSave
<1>2. ASSUME doc' = doc, load' = load, disk' = disk, blind' = blind, SavesKnow', OneMidSave'
      PROVE BlindInv'
  BY <1>a, <1>2 DEF BlindInv, NeverBlind, DocsKnow, ReadsKnow
<1>3. CASE SaveChecked(f)
  <2> DEFINE s == IF Drifted(f) THEN "conflict" ELSE "checked"
             g == [f EXCEPT !.stage = s]
  <2>1. /\ flights' = (flights \ {f}) \cup {g} /\ f.stage = "sent" /\ MayWrite
        /\ UNCHANGED <<disk, doc, load, blind>>
    BY <1>3 DEF SaveChecked
  <2>2. g.stage = s /\ g.knew = f.knew /\ g.text = f.text
    BY <1>b, StageFacts
  <2>3. s = "conflict" \/ (s = "checked" /\ f.expected = disk.mtime)
    <3>1. CASE Drifted(f)
      BY <3>1
    <3>2. CASE ~Drifted(f)
      <4>1. f.expected = disk.mtime
        BY <3>2 DEF Drifted
      <4> QED BY <3>2, <4>1
    <3> QED BY <3>1, <3>2
  <2> HIDE DEF s, g
  <2>4. SaveKnows(g, disk.text, disk.mtime)
    BY <1>c, <2>1, <2>2, <2>3 DEF SaveKnows
  <2>5. \A h \in flights : h.stage \notin {"checked", "renamed"}
    BY <2>1 DEF MayWrite, MidSave
  <2> QED BY <1>1, <1>2, <2>1, <2>4, <2>5
<1>4. CASE SaveFails(f)
  <2> DEFINE g == [f EXCEPT !.stage = "failed"]
  <2>1. flights' = (flights \ {f}) \cup {g} /\ UNCHANGED <<disk, doc, load, blind>>
    BY <1>4 DEF SaveFails
  <2>2. g.stage = "failed"
    BY <1>b, StageFacts
  <2> HIDE DEF g
  <2>3. SaveKnows(g, disk.text, disk.mtime)
    BY <2>2 DEF SaveKnows
  <2> QED BY <1>1, <1>2, <2>1, <2>2, <2>3
<1>5. CASE SaveRenamed(f)
  <2> DEFINE g == [f EXCEPT !.stage = "renamed"]
  <2>1. /\ flights' = (flights \ {f}) \cup {g} /\ f.stage = "checked"
        /\ disk' = Written(f.text, "user") /\ blind' = (blind \/ disk.text # f.knew)
        /\ UNCHANGED <<doc, load>>
    BY <1>5 DEF SaveRenamed
  <2>2. g.stage = "renamed" /\ g.text = f.text
    BY <1>b, StageFacts
  <2> HIDE DEF g
  <2>3. disk'.text = f.text /\ disk'.mtime = disk.mtime + 1
    BY <1>b, <2>1, WrittenFacts
  <2>4. SaveKnows(g, disk'.text, disk'.mtime)
    BY <2>2, <2>3 DEF SaveKnows
  <2>5. \A h \in flights \ {f} : h.stage \in {"sent", "done", "conflict", "failed"}
    BY <1>a, <2>1, Fitting DEF OneMidSave, Fits, FlightSet
  <2>6. DocsKnow' /\ ReadsKnow'
        /\ \A h \in flights \ {f} : SaveKnows(h, disk'.text, disk'.mtime)
    BY <2>1, <2>3, <2>5, NewMtime
  <2>7. SavesKnow'
    BY <2>1, <2>4, <2>6 DEF SavesKnow
  <2>8. OneMidSave'
    BY <2>1, <2>5 DEF OneMidSave
  <2>9. ~blind'
    BY <1>a, <1>c, <2>1 DEF SaveKnows
  <2> QED BY <2>6, <2>7, <2>8, <2>9 DEF BlindInv, NeverBlind
<1>6. CASE SaveStatted(f)
  <2> DEFINE g == [f EXCEPT !.stage = "done", !.mtime = disk.mtime]
  <2>1. /\ flights' = (flights \ {f}) \cup {g} /\ f.stage = "renamed"
        /\ UNCHANGED <<disk, doc, load, blind>>
    BY <1>6 DEF SaveStatted
  <2>2. g.stage = "done" /\ g.text = f.text
    BY <1>b, StattedFacts
  <2> HIDE DEF g
  <2>3. SaveKnows(g, disk.text, disk.mtime)
    BY <1>c, <2>1, <2>2 DEF SaveKnows
  <2> QED BY <1>1, <1>2, <2>1, <2>2, <2>3
<1>7. ASSUME NEW d, doc' = [doc EXCEPT ![t] = d], DocKnows(d, disk.text, disk.mtime),
             load' = load, disk' = disk, blind' = blind, SavesKnow', OneMidSave'
      PROVE BlindInv'
  <2>1. DocsKnow'
    BY <1>a, <1>b, <1>7, RowKnows
  <2>2. ReadsKnow'
    BY <1>a, <1>7 DEF ReadsKnow
  <2> QED BY <1>a, <1>7, <2>1, <2>2 DEF BlindInv, NeverBlind
<1>8. CASE AnswerLost(f)
  <2> DEFINE d == [doc[t] EXCEPT !.saveState = "failed"]
             g == [f EXCEPT !.live = FALSE]
  <2>1. /\ doc' = [doc EXCEPT ![t] = d] /\ flights' = (flights \ {f}) \cup {g}
        /\ UNCHANGED <<disk, load, blind>>
    BY <1>8 DEF AnswerLost
  <2>2. d.status = doc[t].status /\ d.known = doc[t].known /\ d.base = doc[t].base
    BY <1>b, FailedFacts
  <2>3. /\ g.text = f.text /\ g.knew = f.knew /\ g.expected = f.expected /\ g.mtime = f.mtime
        /\ g.stage = f.stage
    BY <1>b, OrphanFacts
  <2> HIDE DEF d, g
  <2>4. DocKnows(d, disk.text, disk.mtime) /\ SaveKnows(g, disk.text, disk.mtime)
    BY <1>c, <2>2, <2>3 DEF DocKnows, SaveKnows
  <2>5. \/ g.stage \notin {"checked", "renamed"}
        \/ \A h \in flights \ {f} : h.stage \notin {"checked", "renamed"}
    BY <1>a, <2>3 DEF OneMidSave
  <2>6. SavesKnow' /\ OneMidSave'
    BY <1>1, <2>1, <2>4, <2>5
  <2> QED BY <1>7, <2>1, <2>4, <2>6
<1>9. CASE SaveAnswered(f)
  <2>1. /\ flights' = flights \ {f} /\ f.stage \in {"done", "conflict", "failed"}
        /\ UNCHANGED <<disk, blind>>
    BY <1>9 DEF SaveAnswered
  <2>2. SavesKnow' /\ OneMidSave'
    BY <1>a, <2>1 DEF SavesKnow, OneMidSave
  <2>3. CASE ~f.live
    <3>1. doc' = doc /\ load' = load
      BY <1>9, <2>3 DEF SaveAnswered
    <3> QED BY <1>2, <2>1, <2>2, <3>1
  <2>4. CASE f.live /\ f.stage = "done" /\ doc[t].mode = "preview"
    <3>1. Reloaded({t})
      BY <1>9, <2>4 DEF SaveAnswered
    <3>2. DocsKnow' /\ ReadsKnow'
      BY <1>a, <1>b, <2>1, <3>1, RowsAgainKnow
    <3> QED BY <1>a, <2>1, <2>2, <3>2 DEF BlindInv, NeverBlind
  <2>5. CASE f.live /\ ~(f.stage = "done" /\ doc[t].mode = "preview")
    <3> DEFINE d == CASE f.stage = "done" -> Adopt(doc[t], f)
                      [] f.stage = "conflict" -> Refused(doc[t])
                      [] OTHER -> [doc[t] EXCEPT !.saveState = "failed"]
    <3>1. doc' = [doc EXCEPT ![t] = d] /\ load' = load
      BY <1>9, <2>5 DEF SaveAnswered
    <3>2. CASE f.stage = "done"
      <4>1. d.known = f.text /\ d.base = f.mtime
        BY <1>b, <3>2, AdoptFacts
      <4> HIDE DEF d
      <4>2. DocKnows(d, disk.text, disk.mtime)
        BY <1>c, <3>2, <4>1 DEF DocKnows, SaveKnows
      <4> QED BY <1>7, <2>1, <2>2, <3>1, <4>2
    <3>3. ASSUME d.status = doc[t].status, d.known = doc[t].known, d.base = doc[t].base
          PROVE BlindInv'
      <4> HIDE DEF d
      <4>1. DocKnows(d, disk.text, disk.mtime)
        BY <1>c, <3>3 DEF DocKnows
      <4> QED BY <1>7, <2>1, <2>2, <3>1, <4>1
    <3>4. CASE f.stage = "conflict"
      BY <1>b, <3>3, <3>4, RefusedFacts
    <3>5. CASE f.stage = "failed"
      <4>1. d = [doc[t] EXCEPT !.saveState = "failed"]
        BY <3>5
      <4> HIDE DEF d
      <4> QED BY <1>b, <3>3, <4>1, FailedFacts
    <3> QED BY <2>1, <3>2, <3>4, <3>5
  <2> QED BY <2>3, <2>4, <2>5
<1> QED BY <1>3, <1>4, <1>5, <1>6, <1>8, <1>9 DEF HostStep

\* Others' writes, a publication and a rename do.
LEMMA OthersKnow ==
  ASSUME ConstantsAssumption, Overlap = FALSE, TypeInv, BlindInv,
         (\E by \in {"model", "other"} : Write(by)) \/ Publish \/ RenameFile
  PROVE DocsKnow' /\ ReadsKnow' /\ SavesKnow' /\ OneMidSave'
<1>a. DocsKnow /\ ReadsKnow /\ SavesKnow /\ OneMidSave
  BY DEF BlindInv
<1>b. /\ \A t \in Tabs : doc[t] \in Docs
      /\ disk \in DiskSet /\ made + 1 \in Nat
      /\ \A f \in flights : f \in FlightSet
  BY Fitting DEF Fits
<1>1. ASSUME NEW by \in {"model", "other"}, Write(by)
      PROVE DocsKnow' /\ ReadsKnow' /\ SavesKnow' /\ OneMidSave'
  <2>1. /\ disk' = Written(made + 1, by) /\ MayWrite
        /\ UNCHANGED <<doc, load, flights>>
    BY <1>1 DEF Write
  <2>2. disk'.mtime = disk.mtime + 1
    <3>1. by \in {"user", "model", "other"}
      BY <1>1
    <3> QED BY <1>b, <2>1, <3>1, WrittenFacts
  <2>3. \A f \in flights : f.stage \in {"sent", "done", "conflict", "failed"}
    BY <1>b, <2>1 DEF MayWrite, MidSave, FlightSet
  <2>4. DocsKnow' /\ ReadsKnow' /\ \A f \in flights : SaveKnows(f, disk'.text, disk'.mtime)
    BY <2>1, <2>2, <2>3, NewMtime
  <2> QED BY <1>a, <2>1, <2>4 DEF SavesKnow, OneMidSave
<1>2. CASE Publish
  <2> DEFINE open == {t \in Tabs : doc[t].status # "closed"}
             stale == {t \in open : ~Spared(t)}
  <2>1. Reloaded(stale) /\ flights' = Orphaned(flights, stale) /\ disk' = disk
    BY <1>2 DEF Publish
  <2>2. stale \in SUBSET Tabs
    OBVIOUS
  <2> HIDE DEF stale
  <2> QED BY <1>a, <2>1, <2>2, RowsAgainKnow, OrphanedKnow
<1>3. CASE RenameFile
  <2> DEFINE R(t) == [doc[t] EXCEPT !.text = doc[t].content]
  <2>1. /\ disk' = [disk EXCEPT !.name = @ + 1] /\ doc' = [t \in Tabs |-> R(t)]
        /\ load' = [t \in Tabs |-> NoLoad] /\ flights' = flights
    BY <1>3 DEF RenameFile
  <2>2. disk'.text = disk.text /\ disk'.mtime = disk.mtime
    BY <1>b, <2>1 DEF DiskSet
  <2>3. ASSUME NEW t \in Tabs
        PROVE R(t).status = doc[t].status /\ R(t).known = doc[t].known /\ R(t).base = doc[t].base
    BY <1>b, RenamedFacts
  <2> HIDE DEF R
  <2>4. DocsKnow'
    BY <1>a, <2>1, <2>2, <2>3 DEF DocsKnow, DocKnows
  <2>5. ReadsKnow'
    BY <2>1, Blank DEF ReadsKnow, ReadKnows
  <2>6. SavesKnow' /\ OneMidSave'
    BY <1>a, <2>1, <2>2 DEF SavesKnow, OneMidSave
  <2> QED BY <2>4, <2>5, <2>6
<1> QED BY <1>1, <1>2, <1>3

\* Theorem: for any number of tabs and of saves, a save replaces only the text its
\* draft was based on, whatever the user types, renames and reloads meanwhile, as long
\* as nobody writes between a save's own check, rename and stat (the window the code
\* leaves open, where the mtime it answers with may be another writer's).
THEOREM NeverBlindHolds ==
  ASSUME ConstantsAssumption, Overlap = FALSE
  PROVE Spec => []NeverBlind
<1>1. Init => TypeInv /\ BlindInv
  <2> SUFFICES ASSUME Init PROVE BlindInv
    BY InitFits
  <2>1. DocsKnow
    BY Blank DEF Init, DocsKnow, DocKnows
  <2>2. ReadsKnow
    BY Blank DEF Init, ReadsKnow, ReadKnows, Asked
  <2>3. ~blind /\ SavesKnow /\ OneMidSave
    BY DEF Init, SavesKnow, OneMidSave
  <2> QED BY <2>1, <2>2, <2>3 DEF BlindInv, NeverBlind
<1>2. TypeInv /\ BlindInv /\ [Next]_vars => (TypeInv /\ BlindInv)'
  <2> SUFFICES ASSUME TypeInv, BlindInv, [Next]_vars PROVE BlindInv'
    BY NextFits
  <2>1. CASE UNCHANGED vars
    BY <2>1 DEF vars, BlindInv, NeverBlind, DocsKnow, ReadsKnow, SavesKnow, OneMidSave
  <2>2. ASSUME blind' = blind, DocsKnow' /\ ReadsKnow' /\ SavesKnow' /\ OneMidSave'
        PROVE BlindInv'
    BY <2>2 DEF BlindInv, NeverBlind
  <2>3. ASSUME NEW t \in Tabs,
               \/ Open(t) \/ Close(t) \/ Refresh(t) \/ Type(t) \/ ToEdit(t) \/ ToPreview(t)
               \/ Save(t) \/ LoadStep(t)
        PROVE BlindInv'
    <3>1. blind' = blind
      BY <2>3, Zenon DEF Open, Close, Refresh, Type, ToEdit, ToPreview, Save, LoadStep, LoadStat,
                         LoadRead, LoadDone
    <3> QED BY <2>2, <2>3, <3>1, TabKnows
  <2>4. ASSUME (\E by \in {"model", "other"} : Write(by)) \/ Publish \/ RenameFile
        PROVE BlindInv'
    <3>1. blind' = blind
      BY <2>4, Zenon DEF Write, Publish, RenameFile
    <3> QED BY <2>2, <2>4, <3>1, OthersKnow
  <2>5. CASE Next
    BY <2>3, <2>4, <2>5, SaveSees DEF Next
  <2> QED BY <2>1, <2>5
<1>3. BlindInv => NeverBlind
  BY DEF BlindInv
<1> QED BY <1>1, <1>2, <1>3, PTL DEF Spec
-----------------------------------------------------------------------------
(***************************************************************************)
(* The plugins' conditional saves (ResourceSaves) of documents of their    *)
(* own, for any callers, files and texts.  A save that runs is at the head *)
(* of its file's queue (InLine), so what its last look found is there when *)
(* it renames (Certain), whatever other saves do.  A route's stage says    *)
(* whether it wrote (RouteTells); a save of this epoch still holds its     *)
(* baseline (Holds), so there is room for the next one (Few), and a save   *)
(* that was made is never reported as refused.                             *)
(***************************************************************************)

CONSTANTS Callers, Files, Replacements, MaxTickets, Races, MaxOthers, MaxEpoch, MaxLost, None
VARIABLES documents, link, epoch, disposed, ticket, op, route, queue, told, wrote, overwrote,
          others, dropped

Saves == INSTANCE ResourceSaves WITH
  Texts <- Replacements, disk <- documents, blind <- overwrote, lost <- dropped

Baselines == [text : Replacements, pending : BOOLEAN]
Calls == [kind : {"idle", "reading", "writing"}, start : 0..MaxEpoch]
UnderWay == {"compared", "resolved", "ready"}
InQueue == {"queued"} \cup UnderWay
Ended == {"ok", "conflict", "error"}

\* A route's fields, once a save has one.
RouteFits(r) ==
  /\ r.stage \in {"none"} \cup InQueue \cup Ended
  /\ r.stage # "none" =>
       r \in [stage : InQueue \cup Ended, file : Files, expected : Replacements,
              new : Replacements]

SavesTyped ==
  /\ documents \in [Files -> Replacements] /\ link \in Files
  /\ epoch \in 0..MaxEpoch /\ disposed \in BOOLEAN
  /\ ticket \in [Callers -> {None} \cup Baselines]
  /\ op \in [Callers -> Calls]
  /\ DOMAIN route = Callers /\ (\A c \in Callers : RouteFits(route[c]))
  /\ queue \in [Files -> Seq(Callers)]
  /\ told \in [Callers -> {None, "saved", "refused", "unknown"}] /\ wrote \subseteq Callers
  /\ overwrote \in BOOLEAN /\ others \in 0..MaxOthers /\ dropped \in 0..MaxLost

\* A save has a route while its call is under way; it is told nothing before it
\* is answered, and its stage says whether it wrote.
RouteTells(c) ==
  /\ (route[c].stage # "none") = (op[c].kind = "writing")
  /\ route[c].stage # "none" => told[c] = None
  /\ route[c].stage = "ok" => c \in wrote
  /\ route[c].stage \in InQueue \cup {"conflict"} => c \notin wrote
  /\ told[c] = "saved" => c \in wrote
  /\ told[c] = "refused" => c \notin wrote

\* A save of this epoch holds its baseline, and no other call does one that is pending.
Holds(c) ==
  /\ op[c].kind = "writing" /\ Saves!Current(c) => ticket[c] # None
  /\ ticket[c] # None => ticket[c].pending = (op[c].kind = "writing" /\ Saves!Current(c))
  /\ op[c].start <= epoch
  /\ disposed => ticket[c] = None /\ op[c].kind # "reading"

\* A save is in its file's queue, at the head once it runs.
Among(q, c) == \E i \in DOMAIN q : q[i] = c
InLine(c) ==
  /\ route[c].stage \in InQueue => Among(queue[route[c].file], c)
  /\ route[c].stage \in UnderWay => queue[route[c].file][1] = c

\* What a save found stays so.
Certain(c) ==
  ~Races =>
    /\ route[c].stage \in {"resolved", "ready"} => link = route[c].file
    /\ route[c].stage = "ready" => documents[route[c].file] = route[c].expected

Few == IsFiniteSet(Saves!Live) /\ Cardinality(Saves!Live) <= MaxTickets

SavesInv ==
  /\ SavesTyped /\ Few
  /\ \A c \in Callers : RouteTells(c) /\ Holds(c) /\ InLine(c) /\ Certain(c)
  /\ ~Races => ~overwrote

-----------------------------------------------------------------------------
(* What the queue, the count and the route of a save do. *)

\* Cardinality is the same one there as here.
LEMMA SameCount == \A S : Saves!Cardinality(S) = Cardinality(S)
BY DEF Saves!Cardinality, Cardinality

\* One who is not at the head stays in line when the head leaves.
LEMMA LineMoves ==
  ASSUME NEW q \in Seq(Callers), NEW c, NEW d, d # c, q[1] = c, Among(q, d)
  PROVE  Among(Tail(q), d)
<1>0. PICK i \in DOMAIN q : q[i] = d
  BY DEF Among
<1>1. i \in 2..Len(q)
  BY <1>0
<1>2. i - 1 \in DOMAIN Tail(q) /\ Tail(q)[i-1] = d
  BY <1>0, <1>1
<1> QED BY <1>2 DEF Among

\* A queue that is entered keeps its line, and its head if it had one.
LEMMA LineGrows ==
  ASSUME NEW q \in Seq(Callers), NEW c \in Callers
  PROVE  /\ Append(q, c) \in Seq(Callers) /\ Among(Append(q, c), c)
         /\ \A d : Among(q, d) => Among(Append(q, c), d) /\ Append(q, c)[1] = q[1]
<1>1. Len(q) + 1 \in DOMAIN Append(q, c) /\ Append(q, c)[Len(q) + 1] = c
  OBVIOUS
<1>2. ASSUME NEW d, Among(q, d) PROVE Among(Append(q, c), d) /\ Append(q, c)[1] = q[1]
  <2>1. PICK i \in DOMAIN q : q[i] = d
    BY <1>2 DEF Among
  <2>2. i \in DOMAIN Append(q, c) /\ Append(q, c)[i] = d /\ q # << >>
    BY <2>1
  <2> QED BY <2>2 DEF Among
<1> QED BY <1>1, <1>2 DEF Among

\* A step after which no more baselines are live keeps the count.
LEMMA FewerLive ==
  ASSUME Few, SavesTyped, Saves!ConstantsAssumption,
         Saves!Live' \subseteq Saves!Live
  PROVE  Few'
<1>1. IsFiniteSet(Saves!Live') /\ Cardinality(Saves!Live') <= Cardinality(Saves!Live)
  BY FS_Subset DEF Few
<1>2. Cardinality(Saves!Live) \in Nat /\ Cardinality(Saves!Live') \in Nat
  BY <1>1, FS_CardinalityType DEF Few
<1>3. MaxTickets \in Nat
  BY DEF Saves!ConstantsAssumption
<1> QED BY <1>1, <1>2, <1>3 DEF Few

\* Nor does one that makes one more, if it found room beside the others.
LEMMA OneMoreLive ==
  ASSUME Few, SavesTyped, Saves!ConstantsAssumption, NEW c \in Callers,
         Saves!HasRoom(Saves!Live \ {c}),
         Saves!Live' \subseteq Saves!Live \cup {c}
  PROVE  Few'
<1> DEFINE L == Saves!Live \ {c}
<1>1. IsFiniteSet(L) /\ IsFiniteSet(L \cup {c}) /\ Cardinality(L) < MaxTickets
  BY FS_Subset, FS_AddElement, SameCount DEF Few, Saves!HasRoom
<1>2. Cardinality(L \cup {c}) <= Cardinality(L) + 1 /\ Cardinality(L) \in Nat
      /\ Cardinality(L \cup {c}) \in Nat
  BY <1>1, FS_AddElement, FS_CardinalityType
<1>3. Saves!Live' \subseteq L \cup {c}
  OBVIOUS
<1>4. IsFiniteSet(Saves!Live') /\ Cardinality(Saves!Live') <= Cardinality(L \cup {c})
      /\ Cardinality(Saves!Live') \in Nat
  BY <1>1, <1>3, FS_Subset, FS_CardinalityType
<1>5. MaxTickets \in Nat
  BY DEF Saves!ConstantsAssumption
<1> QED BY <1>1, <1>2, <1>4, <1>5 DEF Few

\* One of few baselines leaves room for another.
LEMMA RoomBeside ==
  ASSUME Few, Saves!ConstantsAssumption, NEW c \in Saves!Live
  PROVE  Saves!HasRoom(Saves!Live \ {c})
<1>1. Cardinality(Saves!Live \ {c}) = Cardinality(Saves!Live) - 1
      /\ Cardinality(Saves!Live) \in Nat
  BY FS_RemoveElement, FS_CardinalityType DEF Few
<1> QED BY <1>1, SameCount DEF Few, Saves!HasRoom, Saves!ConstantsAssumption

\* A save's next stage changes nothing else of its route.
LEMMA StageMoves ==
  ASSUME SavesTyped, NEW c \in Callers, route[c].stage # "none",
         NEW how \in InQueue \cup Ended, route' = [route EXCEPT ![c].stage = how]
  PROVE  /\ DOMAIN route' = Callers /\ \A d \in Callers : RouteFits(route'[d])
         /\ route'[c].stage = how /\ route'[c].file = route[c].file
         /\ route'[c].expected = route[c].expected /\ route'[c].new = route[c].new
         /\ \A d \in Callers : d # c => route'[d] = route[d]
<1> DEFINE R == [stage : InQueue \cup Ended, file : Files, expected : Replacements,
                 new : Replacements]
           r == [route[c] EXCEPT !.stage = how]
<1>1. route[c] \in R
  BY DEF SavesTyped, RouteFits
<1>2. r \in R /\ r.stage = how /\ r.file = route[c].file /\ r.expected = route[c].expected
      /\ r.new = route[c].new
  BY <1>1
<1>3. DOMAIN route = Callers
  BY DEF SavesTyped
<1>4. route'[c] = r /\ DOMAIN route' = Callers /\ \A d \in Callers : d # c => route'[d] = route[d]
  BY <1>3
<1>5. RouteFits(r)
  <2>1. r.stage \in {"none"} \cup InQueue \cup Ended
    BY <1>2
  <2> QED BY <1>2, <2>1 DEF RouteFits
<1>6. \A d \in Callers : RouteFits(route'[d])
  BY <1>4, <1>5 DEF SavesTyped
<1> QED BY <1>2, <1>4, <1>6

\* Who is not concerned keeps his part of the invariant.
LEMMA OthersTell ==
  ASSUME NEW d, RouteTells(d), route'[d] = route[d], op'[d] = op[d], told'[d] = told[d],
         (d \in wrote') = (d \in wrote)
  PROVE  RouteTells(d)'
BY DEF RouteTells

LEMMA OthersHold ==
  ASSUME NEW d, Holds(d), op'[d] = op[d], ticket'[d] = ticket[d], epoch' = epoch,
         disposed' = disposed
  PROVE  Holds(d)'
BY DEF Holds, Saves!Current

LEMMA OthersCertain ==
  ASSUME NEW d, Certain(d), route'[d] = route[d], link' = link,
         documents'[route[d].file] = documents[route[d].file]
  PROVE  Certain(d)'
BY DEF Certain

LEMMA SameLine ==
  ASSUME NEW d, InLine(d), route'[d] = route[d],
         queue'[route[d].file] = queue[route[d].file]
  PROVE  InLine(d)'
BY DEF InLine

\* A save that runs moves on: it stays where it is in line.
LEMMA MovesOn ==
  ASSUME SavesTyped, NEW c \in Callers, InLine(c), route[c].stage \in InQueue,
         queue[route[c].file][1] = c, NEW how \in UnderWay,
         route' = [route EXCEPT ![c].stage = how], queue' = queue
  PROVE  InLine(c)'
<1>1. how \in InQueue \cup Ended
  BY DEF InQueue
<1>2. route[c].stage # "none"
  BY DEF InQueue, UnderWay
<1>3. route'[c].stage = how /\ route'[c].file = route[c].file
  BY <1>1, <1>2, StageMoves
<1> QED BY <1>3 DEF InLine, InQueue

\* A save that ends lets the others move up.
LEMMA LetsOthers ==
  ASSUME SavesTyped, \A d \in Callers : InLine(d), NEW c \in Callers,
         route[c].stage \in InQueue, queue[route[c].file][1] = c, NEW how \in Ended,
         Saves!Ends(c, how)
  PROVE  /\ queue' \in [Files -> Seq(Callers)]
         /\ \A d \in Callers : InLine(d)'
<1>0. PICK f, q : f = route[c].file /\ q = queue[f] /\ q[1] = c
  OBVIOUS
<1>1. route[c].stage # "none" /\ how \in InQueue \cup Ended
  BY DEF InQueue, UnderWay
<1>2. f \in Files /\ queue \in [Files -> Seq(Callers)]
  BY <1>0, <1>1 DEF SavesTyped, RouteFits
<1>3. Among(q, c)
  BY <1>0 DEF InLine
<1>4. q \in Seq(Callers) /\ q # << >>
  BY <1>0, <1>2, <1>3 DEF Among
<1>5. Tail(q) \in Seq(Callers)
  BY <1>4
<1>6. queue' = [queue EXCEPT ![f] = Tail(q)] /\ route' = [route EXCEPT ![c].stage = how]
  BY <1>0 DEF Saves!Ends, Saves!Passed
<1>7. queue' \in [Files -> Seq(Callers)]
  BY <1>2, <1>5, <1>6
<1>8. route'[c].stage = how /\ \A d \in Callers : d # c => route'[d] = route[d]
  BY <1>1, <1>6, StageMoves
<1>9. ASSUME NEW d \in Callers PROVE InLine(d)'
  <2>1. CASE d = c
    BY <1>8, <2>1 DEF InLine, InQueue, UnderWay, Ended
  <2>2. CASE d # c /\ route[d].file # f /\ route[d].stage \in InQueue
    <3>1. route[d].file \in Files
      BY <2>2 DEF SavesTyped, RouteFits, InQueue, UnderWay
    <3>2. queue'[route[d].file] = queue[route[d].file]
      BY <1>2, <1>6, <2>2, <3>1
    <3> QED BY <1>8, <2>2, <3>2, SameLine
  <2>3. CASE d # c /\ route[d].file = f /\ route[d].stage \in InQueue
    <3>1. Among(q, d)
      BY <1>0, <2>3 DEF InLine
    <3>2. Among(Tail(q), d)
      BY <1>0, <1>4, <2>3, <3>1, LineMoves
    <3>3. route[d].stage \notin UnderWay
      BY <1>0, <2>3 DEF InLine
    <3>4. queue'[route'[d].file] = Tail(q) /\ route'[d] = route[d]
      BY <1>2, <1>6, <1>8, <2>3
    <3> QED BY <3>2, <3>3, <3>4 DEF InLine
  <2>4. CASE d # c /\ route[d].stage \notin InQueue
    BY <1>8, <2>4 DEF InLine, InQueue
  <2> QED BY <2>1, <2>2, <2>3, <2>4
<1> QED BY <1>7, <1>9

-----------------------------------------------------------------------------
(* Each step keeps the invariant. *)

\* It holds at the start.
LEMMA SavesInit == ASSUME Saves!ConstantsAssumption, Saves!Init PROVE SavesInv
<1>1. (CHOOSE t \in Replacements : TRUE) \in Replacements /\ (CHOOSE f \in Files : TRUE) \in Files
  BY DEF Saves!ConstantsAssumption
<1>2. documents \in [Files -> Replacements] /\ link \in Files
  BY <1>1 DEF Saves!Init
<1>3. \A c \in Callers : route[c].stage = "none" /\ RouteFits(route[c])
  BY DEF Saves!Init, Saves!NoRoute, RouteFits, InQueue, UnderWay, Ended
<1>4. \A c \in Callers : op[c] \in Calls /\ op[c].kind = "idle" /\ op[c].start = 0
  BY DEF Saves!Init, Calls, Saves!ConstantsAssumption
<1>5. DOMAIN route = Callers /\ op \in [Callers -> Calls]
  BY <1>4 DEF Saves!Init
<1>6. queue \in [Files -> Seq(Callers)]
  BY DEF Saves!Init
<1>7. SavesTyped
  <2>1. ticket \in [Callers -> {None} \cup Baselines]
        /\ told \in [Callers -> {None, "saved", "refused", "unknown"}]
    BY DEF Saves!Init
  <2>2. epoch \in 0..MaxEpoch /\ others \in 0..MaxOthers /\ dropped \in 0..MaxLost
    BY DEF Saves!Init, Saves!ConstantsAssumption
  <2>3. disposed \in BOOLEAN /\ overwrote \in BOOLEAN /\ wrote \subseteq Callers
    BY DEF Saves!Init
  <2> QED BY <1>2, <1>3, <1>5, <1>6, <2>1, <2>2, <2>3 DEF SavesTyped
<1>8. Saves!Live = {}
  BY DEF Saves!Init, Saves!Live
<1>9. Few
  BY <1>8, FS_EmptySet DEF Few, Saves!ConstantsAssumption
<1>10. ASSUME NEW c \in Callers PROVE RouteTells(c) /\ Holds(c) /\ InLine(c) /\ Certain(c)
  <2>1. told[c] = None /\ ticket[c] = None /\ epoch = 0 /\ disposed = FALSE
    BY DEF Saves!Init
  <2>2. told[c] \notin {"saved", "refused"}
    BY <2>1 DEF Saves!ConstantsAssumption
  <2>3. RouteTells(c)
    BY <1>3, <1>4, <2>2 DEF RouteTells, InQueue, UnderWay
  <2>4. Holds(c)
    BY <1>4, <2>1 DEF Holds
  <2> QED BY <1>3, <2>3, <2>4 DEF InLine, Certain, InQueue, UnderWay
<1> QED BY <1>7, <1>9, <1>10 DEF SavesInv, Saves!Init

\* The baselines and calls of the callers, while no save moves.
LEMMA ReadInv ==
  ASSUME SavesInv, NEW c \in Callers, Saves!Read(c) PROVE SavesInv'
<1> USE DEF Saves!Read, Saves!host, Saves!history
<1> DEFINE o == [kind |-> "reading", start |-> epoch]
<1>1. op \in [Callers -> Calls] /\ o \in Calls
  BY DEF SavesInv, SavesTyped, Calls
<1>2. op' \in [Callers -> Calls] /\ op'[c] = o /\ \A d \in Callers : d # c => op'[d] = op[d]
  BY <1>1
<1>3. SavesTyped'
  BY <1>2 DEF SavesInv, SavesTyped
<1>4. Few'
  BY DEF SavesInv, Few, Saves!Live
<1>5. ASSUME NEW d \in Callers PROVE RouteTells(d)' /\ Holds(d)' /\ InLine(d)' /\ Certain(d)'
  <2>1. InLine(d)' /\ Certain(d)'
    BY DEF SavesInv, InLine, Certain
  <2>2. CASE d # c
    BY <1>2, <2>1, <2>2, OthersTell, OthersHold DEF SavesInv
  <2>3. CASE d = c
    <3>1. RouteTells(c) /\ op[c].kind = "idle" /\ ticket[c] = None /\ ~disposed /\ epoch \in Nat
      BY DEF SavesInv, SavesTyped
    <3>2. RouteTells(c)'
      BY <1>2, <3>1 DEF RouteTells
    <3>3. Holds(c)'
      BY <1>2, <3>1 DEF Holds
    <3> QED BY <2>1, <2>3, <3>2, <3>3
  <2> QED BY <2>2, <2>3
<1> QED BY <1>3, <1>4, <1>5 DEF SavesInv

\* A baseline is issued, or there is no room.
LEMMA ReadEndsInv ==
  ASSUME SavesInv, Saves!ConstantsAssumption, NEW c \in Callers, Saves!ReadEnds(c, documents[link])
  PROVE  SavesInv'
<1> USE DEF Saves!ReadEnds, Saves!host, Saves!history
<1> DEFINE b == [text |-> documents[link], pending |-> FALSE]
<1>0. op \in [Callers -> Calls] /\ ticket \in [Callers -> {None} \cup Baselines]
      /\ b \in Baselines /\ op[c].kind = "reading"
  BY DEF SavesInv, SavesTyped, Baselines
<1>1. PICK o \in Calls :
        o = [op[c] EXCEPT !.kind = "idle"] /\ o.kind = "idle" /\ o.start = op[c].start
  BY <1>0 DEF Calls
<1>2. op' \in [Callers -> Calls] /\ op'[c] = o /\ \A d \in Callers : d # c => op'[d] = op[d]
  BY <1>0, <1>1
<1>3. /\ ticket' \in [Callers -> {None} \cup Baselines]
      /\ \A d \in Callers : d # c => ticket'[d] = ticket[d]
      /\ ticket'[c] \in {b, ticket[c]}
  BY <1>0
<1>4. SavesTyped'
  BY <1>2, <1>3 DEF SavesInv, SavesTyped
<1>5. Few'
  <2>1. CASE Saves!HasRoom(Saves!Live)
    <3>1. Saves!HasRoom(Saves!Live \ {c})
      <4>0. IsFiniteSet(Saves!Live) /\ Cardinality(Saves!Live) \in Nat
        BY FS_CardinalityType DEF SavesInv, Few
      <4>1. Cardinality(Saves!Live \ {c}) <= Cardinality(Saves!Live)
            /\ Cardinality(Saves!Live) \in Nat /\ Cardinality(Saves!Live \ {c}) \in Nat
        BY <4>0, FS_Subset, FS_CardinalityType
      <4> QED BY <2>1, <4>1, SameCount DEF Saves!HasRoom, Saves!ConstantsAssumption
    <3>2. Saves!Live' \subseteq Saves!Live \cup {c}
      BY <1>3 DEF Saves!Live
    <3> QED BY <3>1, <3>2, OneMoreLive DEF SavesInv
  <2>2. CASE ~Saves!HasRoom(Saves!Live)
    BY <2>2 DEF SavesInv, Few, Saves!Live
  <2> QED BY <2>1, <2>2
<1>6. ASSUME NEW d \in Callers PROVE RouteTells(d)' /\ Holds(d)' /\ InLine(d)' /\ Certain(d)'
  <2>1. InLine(d)' /\ Certain(d)'
    BY DEF SavesInv, InLine, Certain
  <2>2. CASE d # c
    BY <1>2, <1>3, <2>1, <2>2, OthersTell, OthersHold DEF SavesInv
  <2>3. CASE d = c
    <3>1. RouteTells(c) /\ Holds(c)
      BY DEF SavesInv
    <3>2. RouteTells(c)'
      BY <1>0, <1>1, <1>2, <3>1 DEF RouteTells
    <3>3. ~disposed /\ (ticket'[c] # None => ticket'[c].pending = FALSE)
      BY <1>0, <1>3, <3>1 DEF Holds
    <3>4. Holds(c)'
      BY <1>1, <1>2, <3>1, <3>3 DEF Holds
    <3> QED BY <2>1, <2>3, <3>2, <3>4
  <2> QED BY <2>2, <2>3
<1> QED BY <1>4, <1>5, <1>6 DEF SavesInv

\* A baseline is given back.
LEMMA ReleaseInv ==
  ASSUME SavesInv, Saves!ConstantsAssumption, NEW c \in Callers, Saves!Release(c) PROVE SavesInv'
<1> USE DEF Saves!Release, Saves!Releasable, Saves!host, Saves!history
<1>1. /\ ticket' \in [Callers -> {None} \cup Baselines] /\ ticket'[c] = None
      /\ \A d \in Callers : d # c => ticket'[d] = ticket[d]
  BY DEF SavesInv, SavesTyped
<1>2. SavesTyped'
  BY <1>1 DEF SavesInv, SavesTyped
<1>3. Saves!Live' \subseteq Saves!Live
  BY <1>1 DEF Saves!Live
<1>4. Few'
  BY <1>3, FewerLive DEF SavesInv
<1>5. ASSUME NEW d \in Callers PROVE RouteTells(d)' /\ Holds(d)' /\ InLine(d)' /\ Certain(d)'
  <2>1. RouteTells(d)' /\ InLine(d)' /\ Certain(d)'
    BY DEF SavesInv, RouteTells, InLine, Certain
  <2>2. CASE d # c
    BY <1>1, <2>1, <2>2, OthersHold DEF SavesInv
  <2>3. CASE d = c
    BY <1>1, <2>1, <2>3 DEF SavesInv, Holds, Saves!Current
  <2> QED BY <2>2, <2>3
<1> QED BY <1>2, <1>4, <1>5 DEF SavesInv

\* The providers change, or the service is disposed of.
LEMMA VoidInv ==
  ASSUME SavesInv, Saves!ConstantsAssumption, Saves!ChangeProviders \/ Saves!Dispose
  PROVE SavesInv'
<1>1. /\ ticket' = [c \in Callers |-> None]
      /\ op' = [c \in Callers |-> IF op[c].kind = "reading" THEN [op[c] EXCEPT !.kind = "idle"]
                                  ELSE op[c]]
      /\ UNCHANGED <<documents, link, route, queue, told, wrote, overwrote, others, dropped>>
  BY DEF Saves!ChangeProviders, Saves!Dispose, Saves!Changed, Saves!Voided, Saves!host,
         Saves!history
<1>2. op \in [Callers -> Calls] /\ epoch \in Nat
  BY DEF SavesInv, SavesTyped
<1>21. /\ epoch' \in 0..MaxEpoch /\ disposed' \in BOOLEAN
       /\ \/ epoch' = epoch + 1 /\ disposed' = disposed
          \/ epoch' = epoch /\ disposed'
  <2>1. CASE Saves!ChangeProviders
    BY <2>1 DEF Saves!ChangeProviders, SavesInv, SavesTyped, Saves!ConstantsAssumption
  <2>2. CASE Saves!Dispose
    BY <2>2 DEF Saves!Dispose, SavesInv, SavesTyped
  <2> QED BY <2>1, <2>2
<1>3. ASSUME NEW c \in Callers
      PROVE  op'[c] \in Calls /\ op'[c].start = op[c].start /\ op'[c].kind # "reading"
             /\ (op'[c].kind = "writing") = (op[c].kind = "writing")
  <2>1. op[c] \in Calls
    BY <1>2
  <2>2. CASE op[c].kind = "reading"
    <3>1. op'[c] = [op[c] EXCEPT !.kind = "idle"]
      BY <1>1, <2>2
    <3> QED BY <2>1, <2>2, <3>1 DEF Calls
  <2>3. CASE op[c].kind # "reading"
    BY <1>1, <2>1, <2>3
  <2> QED BY <2>2, <2>3
<1>4. op' \in [Callers -> Calls] /\ ticket' \in [Callers -> {None} \cup Baselines]
  BY <1>1, <1>3
<1>5. SavesTyped'
  BY <1>1, <1>21, <1>4 DEF SavesInv, SavesTyped
<1>6. Saves!Live' \subseteq Saves!Live
  BY <1>1 DEF Saves!Live
<1>7. Few'
  BY <1>6, FewerLive DEF SavesInv
<1>8. ASSUME NEW d \in Callers PROVE RouteTells(d)' /\ Holds(d)' /\ InLine(d)' /\ Certain(d)'
  <2>1. InLine(d)' /\ Certain(d)'
    BY <1>1 DEF SavesInv, InLine, Certain
  <2>2. RouteTells(d)'
    BY <1>1, <1>3 DEF SavesInv, RouteTells
  <2>3. Holds(d) /\ op[d].start \in Nat /\ op'[d].start = op[d].start /\ ticket'[d] = None
    BY <1>1, <1>2, <1>3 DEF SavesInv, Calls
  <2>4. ~Saves!Current(d)' /\ op'[d].start <= epoch'
    BY <1>1, <1>2, <1>21, <2>3 DEF Holds, Saves!Current
  <2>5. Holds(d)'
    BY <1>3, <2>3, <2>4 DEF Holds
  <2> QED BY <2>1, <2>2, <2>5
<1> QED BY <1>1, <1>5, <1>7, <1>8 DEF SavesInv

\* A baseline with a save pending is one still.
LEMMA Claimed ==
  ASSUME NEW t \in Baselines
  PROVE  [t EXCEPT !.pending = TRUE] \in Baselines /\ [t EXCEPT !.pending = TRUE].pending = TRUE
BY DEF Baselines

\* A save is admitted to the queue of the file the path names.
LEMMA WriteInv ==
  ASSUME SavesInv, Saves!ConstantsAssumption, NEW c \in Callers, NEW new \in Replacements,
         Saves!Write(c, new)
  PROVE  SavesInv'
<1>0. /\ op[c].kind = "idle" /\ ticket[c] # None /\ ~disposed
      /\ ticket[c] \in Baselines /\ op \in [Callers -> Calls]
      /\ ticket \in [Callers -> {None} \cup Baselines] /\ epoch \in 0..MaxEpoch
      /\ link \in Files /\ DOMAIN route = Callers /\ queue \in [Files -> Seq(Callers)]
  BY DEF SavesInv, SavesTyped, Saves!Write
<1>1. PICK b \in Baselines : b = [ticket[c] EXCEPT !.pending = TRUE] /\ b.pending = TRUE
  BY <1>0, Claimed
<1>2. b # None
  BY DEF Saves!ConstantsAssumption, Baselines
<1>3. PICK o \in Calls : o = [kind |-> "writing", start |-> epoch]
  BY <1>0 DEF Calls
<1>4. PICK r : r = [stage |-> "queued", file |-> link, expected |-> ticket[c].text, new |-> new]
  OBVIOUS
<1>5. RouteFits(r) /\ r.stage = "queued" /\ r.file = link
  <2>1. ticket[c].text \in Replacements
    BY <1>0 DEF Baselines
  <2>2. r \in [stage : InQueue \cup Ended, file : Files, expected : Replacements,
               new : Replacements]
    BY <1>0, <1>4, <2>1 DEF InQueue
  <2> QED BY <1>4, <2>2 DEF RouteFits, InQueue
<1>6. PICK q : q = queue[link]
  OBVIOUS
<1>7. /\ ticket' = [ticket EXCEPT ![c] = b] /\ op' = [op EXCEPT ![c] = o]
      /\ route' = [route EXCEPT ![c] = r] /\ queue' = [queue EXCEPT ![link] = Append(q, c)]
      /\ told' = [told EXCEPT ![c] = None] /\ wrote' = wrote \ {c}
      /\ UNCHANGED <<epoch, disposed, documents, link, overwrote, others, dropped>>
  BY <1>1, <1>3, <1>4, <1>6 DEF Saves!Write
<1>8. /\ ticket'[c] = b /\ op'[c] = o /\ route'[c] = r /\ told'[c] = None /\ c \notin wrote'
      /\ \A d \in Callers : d # c =>
           /\ ticket'[d] = ticket[d] /\ op'[d] = op[d] /\ route'[d] = route[d]
           /\ told'[d] = told[d] /\ (d \in wrote') = (d \in wrote)
  BY <1>0, <1>7 DEF SavesInv, SavesTyped
<1>9. q \in Seq(Callers) /\ queue'[link] = Append(q, c)
      /\ \A f \in Files : f # link => queue'[f] = queue[f]
  BY <1>0, <1>6, <1>7
<1>10. Append(q, c) \in Seq(Callers)
  BY <1>9
<1>11. SavesTyped'
  <2>1. queue' \in [Files -> Seq(Callers)]
    BY <1>0, <1>7, <1>10
  <2>2. DOMAIN route' = Callers /\ \A d \in Callers : RouteFits(route'[d])
    BY <1>0, <1>5, <1>7, <1>8 DEF SavesInv, SavesTyped
  <2>3. ticket' \in [Callers -> {None} \cup Baselines] /\ op' \in [Callers -> Calls]
    BY <1>0, <1>7
  <2>4. told' \in [Callers -> {None, "saved", "refused", "unknown"}] /\ wrote' \subseteq Callers
    BY <1>7 DEF SavesInv, SavesTyped
  <2> QED BY <1>7, <2>1, <2>2, <2>3, <2>4 DEF SavesInv, SavesTyped
<1>12. Saves!Live' \subseteq Saves!Live
  BY <1>0, <1>8 DEF Saves!Live
<1>13. Few'
  BY <1>12, FewerLive DEF SavesInv
<1>14. ASSUME NEW d \in Callers PROVE RouteTells(d)' /\ Holds(d)' /\ InLine(d)' /\ Certain(d)'
  <2>1. CASE d = c
    <3>1. RouteTells(c)'
      <4>1. told'[c] # "saved" /\ told'[c] # "refused"
        BY <1>8 DEF Saves!ConstantsAssumption
      <4> QED BY <1>3, <1>5, <1>8, <4>1 DEF RouteTells, InQueue
    <3>2. Holds(c)'
      <4>1. b.pending = TRUE /\ o.kind = "writing" /\ o.start = epoch /\ epoch \in Nat
        BY <1>0, <1>1, <1>3
      <4>2. Saves!Current(c)'
        BY <1>0, <1>7, <1>8, <4>1 DEF Saves!Current
      <4>3. ticket'[c] # None /\ ticket'[c].pending = TRUE /\ op'[c].kind = "writing"
            /\ op'[c].start <= epoch' /\ ~disposed'
        BY <1>0, <1>2, <1>7, <1>8, <4>1
      <4> QED BY <4>2, <4>3 DEF Holds
    <3>3. InLine(c)'
      <4>1. Among(Append(q, c), c)
        BY <1>9, LineGrows
      <4>2. route'[c].stage = "queued" /\ queue'[route'[c].file] = Append(q, c)
        BY <1>5, <1>8, <1>9
      <4> QED BY <4>1, <4>2 DEF InLine, UnderWay
    <3>4. Certain(c)'
      BY <1>5, <1>8 DEF Certain
    <3> QED BY <2>1, <3>1, <3>2, <3>3, <3>4
  <2>2. CASE d # c
    <3>1. RouteTells(d)' /\ Holds(d)' /\ Certain(d)'
      BY <1>7, <1>8, <2>2, OthersTell, OthersHold, OthersCertain DEF SavesInv
    <3>2. CASE route[d].stage \notin InQueue
      BY <1>8, <2>2, <3>1, <3>2 DEF InLine, InQueue
    <3>3. CASE route[d].stage \in InQueue /\ route[d].file # link
      <4>1. route[d].file \in Files
        BY <3>3 DEF SavesInv, SavesTyped, RouteFits, InQueue, UnderWay
      <4> QED BY <1>8, <1>9, <2>2, <3>1, <3>3, <4>1, SameLine DEF SavesInv
    <3>4. CASE route[d].stage \in InQueue /\ route[d].file = link
      <4>1. Among(q, d)
        BY <1>6, <3>4 DEF SavesInv, InLine
      <4>3. Among(Append(q, c), d) /\ Append(q, c)[1] = q[1]
        BY <1>9, <4>1, LineGrows
      <4>4. route'[d] = route[d] /\ queue'[route'[d].file] = Append(q, c)
        BY <1>8, <1>9, <2>2, <3>4
      <4>5. InLine(d)'
        BY <1>6, <3>4, <4>3, <4>4 DEF SavesInv, InLine
      <4> QED BY <3>1, <4>5
    <3> QED BY <3>2, <3>3, <3>4
  <2> QED BY <2>1, <2>2
<1> QED BY <1>7, <1>11, <1>13, <1>14 DEF SavesInv

\* A step of the host that leaves the baselines alone concerns the route, the
\* queue and what was written.
LEMMA HostInv ==
  ASSUME SavesInv, UNCHANGED <<epoch, disposed, ticket, op, told, link>>,
         documents' \in [Files -> Replacements], others' \in 0..MaxOthers,
         dropped' \in 0..MaxLost,
         DOMAIN route' = Callers, \A d \in Callers : RouteFits(route'[d]),
         queue' \in [Files -> Seq(Callers)], wrote' \subseteq Callers, overwrote' \in BOOLEAN,
         ~Races => ~overwrote',
         \A d \in Callers : RouteTells(d)' /\ InLine(d)' /\ Certain(d)'
  PROVE  SavesInv'
<1>1. SavesTyped'
  BY DEF SavesInv, SavesTyped
<1>2. Few'
  BY DEF SavesInv, Few, Saves!Live
<1>3. \A d \in Callers : Holds(d)'
  BY DEF SavesInv, Holds, Saves!Current
<1> QED BY <1>1, <1>2, <1>3 DEF SavesInv

\* A save that runs takes a step, having found what it looked for.
LEMMA Advances ==
  ASSUME SavesInv, NEW c \in Callers, NEW how \in UnderWay,
         route[c].stage \in InQueue, queue[route[c].file][1] = c,
         route' = [route EXCEPT ![c].stage = how],
         how = "resolved" => link = route[c].file,
         how = "ready" => (/\ route[c].stage = "resolved"
                           /\ documents[route[c].file] = route[c].expected),
         UNCHANGED <<queue, documents, link, epoch, disposed, ticket, op, told, wrote, overwrote,
                     others, dropped>>
  PROVE  SavesInv'
<1>1. how \in InQueue \cup Ended /\ how \in InQueue /\ how \notin Ended /\ how # "none"
  BY DEF InQueue, UnderWay, Ended
<1>2. route[c].stage # "none"
  BY DEF InQueue, UnderWay
<1>3. SavesTyped /\ InLine(c) /\ RouteTells(c) /\ Certain(c)
  BY DEF SavesInv
<1>4. /\ DOMAIN route' = Callers /\ \A d \in Callers : RouteFits(route'[d])
      /\ route'[c].stage = how /\ route'[c].file = route[c].file
      /\ route'[c].expected = route[c].expected
      /\ \A d \in Callers : d # c => route'[d] = route[d]
  BY <1>1, <1>2, <1>3, StageMoves
<1>5. InLine(c)'
  BY <1>3, MovesOn
<1>6. RouteTells(c)'
  BY <1>1, <1>2, <1>3, <1>4 DEF RouteTells, Ended
<1>7. Certain(c)'
  BY <1>3, <1>4 DEF Certain, UnderWay
<1>8. \A d \in Callers : RouteTells(d)' /\ InLine(d)' /\ Certain(d)'
  BY <1>4, <1>5, <1>6, <1>7, OthersTell, SameLine, OthersCertain DEF SavesInv
<1> QED BY <1>3, <1>4, <1>8, HostInv DEF SavesInv, SavesTyped

\* A save ends without having written.
LEMMA GivesUp ==
  ASSUME SavesInv, NEW c \in Callers, NEW how \in {"conflict", "error"},
         route[c].stage \in InQueue, queue[route[c].file][1] = c, Saves!Ends(c, how),
         UNCHANGED <<documents, link, epoch, disposed, ticket, op, told, wrote, overwrote, others>>,
         dropped' \in 0..MaxLost
  PROVE  SavesInv'
<1>1. how \in Ended /\ how \in InQueue \cup Ended /\ how # "none" /\ how # "ok"
      /\ how \notin InQueue
  BY DEF InQueue, UnderWay, Ended
<1>2. route[c].stage # "none"
  BY DEF InQueue, UnderWay
<1>3. SavesTyped /\ InLine(c) /\ RouteTells(c) /\ \A d \in Callers : InLine(d)
  BY DEF SavesInv
<1>4. route' = [route EXCEPT ![c].stage = how]
  BY DEF Saves!Ends
<1>5. /\ DOMAIN route' = Callers /\ \A d \in Callers : RouteFits(route'[d])
      /\ route'[c].stage = how
      /\ \A d \in Callers : d # c => route'[d] = route[d]
  BY <1>1, <1>2, <1>3, <1>4, StageMoves
<1>6. queue' \in [Files -> Seq(Callers)] /\ \A d \in Callers : InLine(d)'
  BY <1>1, <1>3, LetsOthers
<1>7. RouteTells(c)'
  BY <1>1, <1>2, <1>3, <1>5 DEF RouteTells
<1>8. Certain(c)'
  BY <1>1, <1>5 DEF Certain, InQueue, UnderWay
<1>9. \A d \in Callers : RouteTells(d)' /\ InLine(d)' /\ Certain(d)'
  BY <1>5, <1>6, <1>7, <1>8, OthersTell, OthersCertain DEF SavesInv
<1> QED BY <1>3, <1>5, <1>6, <1>9, HostInv DEF SavesInv, SavesTyped

\* Who runs is at the head of a queue that is not empty.
LEMMA AtHead ==
  ASSUME SavesInv, NEW c \in Callers,
         route[c].stage \in UnderWay \/ (route[c].stage = "queued" /\ Saves!MyTurn(c))
  PROVE  route[c].stage \in InQueue /\ queue[route[c].file][1] = c
<1>1. route[c].stage \in InQueue
  BY DEF InQueue
<1>2. CASE route[c].stage \in UnderWay
  BY <1>1, <1>2 DEF SavesInv, InLine
<1>3. CASE route[c].stage = "queued" /\ Saves!MyTurn(c)
  <2>1. route[c].file \in Files /\ Among(queue[route[c].file], c)
    BY <1>1, <1>3 DEF SavesInv, SavesTyped, RouteFits, InLine
  <2>2. queue[route[c].file] \in Seq(Callers) /\ queue[route[c].file] # << >>
    BY <2>1 DEF SavesInv, SavesTyped, Among
  <2> QED BY <1>1, <1>3, <2>2 DEF Saves!MyTurn
<1> QED BY <1>2, <1>3

\* The three looks before the rename, and a disk that refuses it.
LEMMA LooksInv ==
  ASSUME SavesInv, NEW c \in Callers,
         Saves!Compare(c) \/ Saves!Resolve(c) \/ Saves!CompareAgain(c)
  PROVE  SavesInv'
<1> USE DEF Saves!client, Saves!history
<1>0. dropped' \in 0..MaxLost /\ SavesTyped
      /\ UNCHANGED <<documents, link, epoch, disposed, ticket, op, told, wrote, overwrote, others,
                     dropped>>
  BY DEF Saves!Compare, Saves!Resolve, Saves!CompareAgain, SavesInv, SavesTyped
<1>1. CASE Saves!Compare(c)
  <2>1. route[c].stage \in InQueue /\ queue[route[c].file][1] = c
    BY <1>1, AtHead DEF Saves!Compare
  <2>2. CASE Saves!Unchanged(c)
    BY <1>0, <1>1, <2>1, <2>2, Advances DEF Saves!Compare, UnderWay
  <2>3. CASE ~Saves!Unchanged(c)
    BY <1>0, <1>1, <2>1, <2>3, GivesUp DEF Saves!Compare
  <2> QED BY <2>2, <2>3
<1>2. CASE Saves!Resolve(c)
  <2>1. route[c].stage \in InQueue /\ queue[route[c].file][1] = c
    BY <1>2, AtHead DEF Saves!Resolve, UnderWay
  <2>2. CASE link = route[c].file
    BY <1>0, <1>2, <2>1, <2>2, Advances DEF Saves!Resolve, UnderWay
  <2>3. CASE link # route[c].file
    BY <1>0, <1>2, <2>1, <2>3, GivesUp DEF Saves!Resolve
  <2> QED BY <2>2, <2>3
<1>3. CASE Saves!CompareAgain(c)
  <2>1. route[c].stage \in InQueue /\ queue[route[c].file][1] = c
    BY <1>3, AtHead DEF Saves!CompareAgain, UnderWay
  <2>2. CASE Saves!Still(c)
    BY <1>0, <1>3, <2>1, <2>2, Advances
    DEF Saves!CompareAgain, Saves!Still, Saves!Unchanged, UnderWay
  <2>3. CASE ~Saves!Still(c)
    BY <1>0, <1>3, <2>1, <2>3, GivesUp DEF Saves!CompareAgain
  <2> QED BY <2>2, <2>3
<1> QED BY <1>1, <1>2, <1>3

LEMMA FailsInv ==
  ASSUME SavesInv, Saves!ConstantsAssumption, NEW c \in Callers, Saves!Fails(c) PROVE SavesInv'
<1>1. dropped' \in 0..MaxLost
  BY DEF Saves!Fails, SavesInv, SavesTyped, Saves!ConstantsAssumption
<1>2. route[c].stage \in InQueue /\ queue[route[c].file][1] = c
  BY AtHead DEF Saves!Fails, UnderWay
<1> QED BY <1>1, <1>2, GivesUp DEF Saves!Fails, Saves!client, Saves!history

\* The rename: it replaces what the save expects, in the file the path names.
LEMMA CommitInv ==
  ASSUME SavesInv, Saves!ConstantsAssumption, NEW c \in Callers, Saves!Commit(c) PROVE SavesInv'
<1>0. PICK f : f = route[c].file
  OBVIOUS
<1>1. /\ route[c].stage = "ready" /\ documents' = [documents EXCEPT ![f] = route[c].new]
      /\ wrote' = wrote \cup {c} /\ Saves!Ends(c, "ok")
      /\ overwrote' = (overwrote \/ ~(documents[f] = route[c].expected) \/ link # f)
      /\ UNCHANGED <<link, epoch, disposed, ticket, op, told, others, dropped>>
  BY <1>0 DEF Saves!Commit, Saves!client, Saves!Unchanged
<1>2. route[c].stage \in InQueue /\ route[c].stage \in UnderWay /\ route[c].stage # "none"
      /\ queue[f][1] = c /\ queue[route[c].file][1] = c
  BY <1>0, <1>1, AtHead DEF UnderWay
<1>3. SavesTyped /\ RouteTells(c) /\ Certain(c) /\ (\A d \in Callers : InLine(d))
  BY DEF SavesInv
<1>4. f \in Files /\ route[c].new \in Replacements
  BY <1>0, <1>2, <1>3 DEF SavesTyped, RouteFits
<1>5. "ok" \in InQueue \cup Ended /\ "ok" \in Ended /\ "ok" \notin InQueue
  BY DEF InQueue, UnderWay, Ended
<1>6. route' = [route EXCEPT ![c].stage = "ok"]
  BY <1>1 DEF Saves!Ends
<1>7. /\ DOMAIN route' = Callers /\ \A d \in Callers : RouteFits(route'[d])
      /\ route'[c].stage = "ok"
      /\ \A d \in Callers : d # c => route'[d] = route[d]
  BY <1>2, <1>3, <1>5, <1>6, StageMoves
<1>8. queue' \in [Files -> Seq(Callers)] /\ \A d \in Callers : InLine(d)'
  BY <1>1, <1>2, <1>3, <1>5, LetsOthers
<1>9. documents' \in [Files -> Replacements]
      /\ \A g \in Files : g # f => documents'[g] = documents[g]
  BY <1>1, <1>3, <1>4 DEF SavesTyped
<1>10. RouteTells(c)'
  BY <1>1, <1>2, <1>3, <1>5, <1>7 DEF RouteTells, Saves!ConstantsAssumption
<1>11. ASSUME NEW d \in Callers PROVE RouteTells(d)' /\ Certain(d)'
  <2>1. CASE d = c
    BY <1>5, <1>7, <1>10, <2>1 DEF Certain, InQueue, UnderWay
  <2>2. CASE d # c
    <3>1. RouteTells(d)'
      BY <1>1, <1>7, <2>2, OthersTell DEF SavesInv
    <3>2. route[d].stage = "ready" => route[d].file # f /\ route[d].file \in Files
      BY <1>2, <1>3, <2>2 DEF InLine, UnderWay, SavesTyped, RouteFits
    <3>3. Certain(d)'
      BY <1>1, <1>7, <1>9, <2>2, <3>2 DEF SavesInv, Certain
    <3> QED BY <3>1, <3>3
  <2> QED BY <2>1, <2>2
<1>12. overwrote' \in BOOLEAN /\ (~Races => ~overwrote')
  BY <1>0, <1>1 DEF SavesInv, SavesTyped, Certain
<1> QED BY <1>1, <1>3, <1>7, <1>8, <1>9, <1>11, <1>12, HostInv DEF SavesInv, SavesTyped

\* The answer is lost.
LEMMA LosesAnswerInv ==
  ASSUME SavesInv, Saves!ConstantsAssumption, NEW c \in Callers, Saves!LosesAnswer(c)
  PROVE  SavesInv'
<1>1. /\ dropped' \in 0..MaxLost /\ route[c].stage \in {"ok", "conflict"}
      /\ route' = [route EXCEPT ![c].stage = "error"]
      /\ UNCHANGED <<documents, link, queue, epoch, disposed, ticket, op, told, wrote, overwrote,
                     others>>
  BY DEF Saves!LosesAnswer, Saves!client, Saves!history, SavesInv, SavesTyped,
         Saves!ConstantsAssumption
<1>2. "error" \in InQueue \cup Ended /\ "error" \notin InQueue /\ route[c].stage # "none"
  BY <1>1 DEF InQueue, UnderWay, Ended
<1>3. SavesTyped /\ RouteTells(c)
  BY DEF SavesInv
<1>4. /\ DOMAIN route' = Callers /\ \A d \in Callers : RouteFits(route'[d])
      /\ route'[c].stage = "error"
      /\ \A d \in Callers : d # c => route'[d] = route[d]
  BY <1>1, <1>2, <1>3, StageMoves
<1>5. RouteTells(c)' /\ InLine(c)' /\ Certain(c)'
  BY <1>1, <1>2, <1>3, <1>4 DEF RouteTells, InLine, Certain, InQueue, UnderWay
<1>6. \A d \in Callers : RouteTells(d)' /\ InLine(d)' /\ Certain(d)'
  BY <1>1, <1>4, <1>5, OthersTell, SameLine, OthersCertain DEF SavesInv
<1> QED BY <1>1, <1>3, <1>4, <1>6, HostInv DEF SavesInv, SavesTyped

\* Others write, and relink the path: not where the last look would have missed it.
LEMMA ElsewhereInv ==
  ASSUME SavesInv, Saves!ConstantsAssumption, NEW f \in Files,
         Saves!Relink(f) \/ \E t \in Replacements : Saves!WriteElsewhere(f, t)
  PROVE  SavesInv'
<1>1. /\ link' \in Files /\ documents' \in [Files -> Replacements] /\ others' \in 0..MaxOthers
      /\ UNCHANGED <<route, queue, epoch, disposed, ticket, op, told, wrote, overwrote, dropped>>
  <2>1. CASE Saves!Relink(f)
    BY <2>1 DEF Saves!Relink, Saves!client, Saves!history, SavesInv, SavesTyped,
         Saves!ConstantsAssumption
  <2>2. CASE \E t \in Replacements : Saves!WriteElsewhere(f, t)
    BY <2>2 DEF Saves!WriteElsewhere, Saves!client, Saves!history, SavesInv, SavesTyped,
         Saves!ConstantsAssumption
  <2> QED BY <2>1, <2>2
<1>2. SavesTyped'
  BY <1>1 DEF SavesInv, SavesTyped
<1>3. Few'
  BY <1>1 DEF SavesInv, Few, Saves!Live
<1>4. ASSUME NEW d \in Callers PROVE Certain(d)'
  <2>1. CASE Saves!Relink(f)
    BY <2>1 DEF SavesInv, Certain, Saves!Relink, Saves!Calm
  <2>2. CASE \E t \in Replacements : Saves!WriteElsewhere(f, t)
    BY <2>2 DEF SavesInv, Certain, Saves!WriteElsewhere, Saves!Calm
  <2> QED BY <2>1, <2>2
<1>5. \A d \in Callers : RouteTells(d)' /\ Holds(d)' /\ InLine(d)'
  BY <1>1 DEF SavesInv, RouteTells, Holds, InLine, Saves!Current
<1> QED BY <1>1, <1>2, <1>3, <1>4, <1>5 DEF SavesInv

\* A call that ends is a call still.
LEMMA CallEnds ==
  ASSUME NEW p \in Calls
  PROVE  LET o == [p EXCEPT !.kind = "idle"] IN
         o \in Calls /\ o.kind = "idle" /\ o.start = p.start
BY DEF Calls

\* The answer reaches the caller: a baseline is used up, and a save of this epoch
\* gets the next one.
LEMMA AnsweredInv ==
  ASSUME SavesInv, Saves!ConstantsAssumption, NEW c \in Callers, Saves!Answered(c)
  PROVE  SavesInv'
<1> DEFINE answer == route[c].stage
<1>0. /\ op \in [Callers -> Calls] /\ ticket \in [Callers -> {None} \cup Baselines]
      /\ told \in [Callers -> {None, "saved", "refused", "unknown"}] /\ DOMAIN route = Callers
      /\ RouteTells(c) /\ Holds(c) /\ RouteFits(route[c]) /\ SavesTyped
  BY DEF SavesInv, SavesTyped
<1>1. /\ op[c].kind = "writing" /\ answer \in Ended
      /\ op' = [op EXCEPT ![c].kind = "idle"] /\ route' = [route EXCEPT ![c] = Saves!NoRoute]
      /\ UNCHANGED <<epoch, disposed, documents, link, queue, wrote, overwrote, others, dropped>>
  BY DEF Saves!Answered, Ended
<1>2. PICK o \in Calls :
        o = [op[c] EXCEPT !.kind = "idle"] /\ o.kind = "idle" /\ o.start = op[c].start
  BY <1>0, CallEnds
<1>3. op' \in [Callers -> Calls] /\ op'[c] = o /\ \A d \in Callers : d # c => op'[d] = op[d]
  BY <1>0, <1>1, <1>2
<1>4. RouteFits(Saves!NoRoute) /\ Saves!NoRoute.stage = "none"
  BY DEF RouteFits, Saves!NoRoute, InQueue, UnderWay, Ended
<1>5. /\ DOMAIN route' = Callers /\ \A d \in Callers : RouteFits(route'[d])
      /\ route'[c].stage = "none" /\ \A d \in Callers : d # c => route'[d] = route[d]
  BY <1>0, <1>1, <1>4 DEF SavesTyped
<1>6. ASSUME answer = "ok", Saves!Current(c)
      PROVE  \E b \in Baselines :
               /\ b.pending = FALSE /\ ticket' = [ticket EXCEPT ![c] = b]
               /\ told' = [told EXCEPT ![c] = "saved"]
  <2>1. c \in Saves!Live
    BY <1>0, <1>1, <1>6 DEF Holds, Saves!Live
  <2>2. Saves!HasRoom(Saves!Live \ {c})
    BY <2>1, RoomBeside DEF SavesInv
  <2>3. PICK b : b = [text |-> route[c].new, pending |-> FALSE]
    OBVIOUS
  <2>4. b \in Baselines /\ b.pending = FALSE
    <3>1. route[c].new \in Replacements
      BY <1>0, <1>6 DEF RouteFits
    <3> QED BY <2>3, <3>1 DEF Baselines
  <2>5. ticket' = [ticket EXCEPT ![c] = b] /\ told' = [told EXCEPT ![c] = "saved"]
    BY <1>6, <2>2, <2>3 DEF Saves!Answered
  <2> QED BY <2>4, <2>5
<1>7. ASSUME ~(answer = "ok" /\ Saves!Current(c))
      PROVE  /\ ticket' = [ticket EXCEPT ![c] = IF answer = "ok" THEN @ ELSE None]
             /\ told' = [told EXCEPT ![c] = Saves!Verdict(c, answer)]
  BY <1>7 DEF Saves!Answered
<1>8. ASSUME ~(answer = "ok" /\ Saves!Current(c))
      PROVE  /\ Saves!Verdict(c, answer) \in {"refused", "unknown"}
             /\ Saves!Verdict(c, answer) = "refused" => answer = "conflict"
  BY <1>1, <1>8 DEF Saves!Verdict, Ended
<1>9. /\ ticket' \in [Callers -> {None} \cup Baselines]
      /\ \A d \in Callers : d # c => ticket'[d] = ticket[d]
      /\ ticket'[c] # None => ticket'[c].pending = FALSE /\ ticket[c] # None
  <2>1. CASE answer = "ok" /\ Saves!Current(c)
    <3>1. ticket[c] # None
      BY <1>0, <1>1, <2>1 DEF Holds
    <3> QED BY <1>0, <1>6, <2>1, <3>1
  <2>2. CASE ~(answer = "ok" /\ Saves!Current(c))
    <3>1. ticket'[c] # None => ticket'[c] = ticket[c] /\ ~Saves!Current(c)
      BY <1>0, <1>7, <2>2
    <3>2. ticket[c] # None /\ ~Saves!Current(c) => ticket[c].pending = FALSE
      BY <1>0 DEF Holds
    <3> QED BY <1>0, <1>7, <2>2, <3>1, <3>2
  <2> QED BY <2>1, <2>2
<1>10. /\ told' \in [Callers -> {None, "saved", "refused", "unknown"}]
       /\ \A d \in Callers : d # c => told'[d] = told[d]
       /\ told'[c] \in {"saved", "refused", "unknown"}
       /\ told'[c] = "saved" => answer = "ok"
       /\ told'[c] = "refused" => answer = "conflict"
  <2>1. CASE answer = "ok" /\ Saves!Current(c)
    BY <1>0, <1>6, <2>1
  <2>2. CASE ~(answer = "ok" /\ Saves!Current(c))
    BY <1>0, <1>7, <1>8, <2>2
  <2> QED BY <2>1, <2>2
<1>11. SavesTyped'
  BY <1>0, <1>1, <1>3, <1>5, <1>9, <1>10 DEF SavesTyped
<1>12. Saves!Live' \subseteq Saves!Live
  BY <1>9 DEF Saves!Live
<1>13. Few'
  BY <1>12, FewerLive DEF SavesInv
<1>14. ASSUME NEW d \in Callers PROVE RouteTells(d)' /\ Holds(d)' /\ InLine(d)' /\ Certain(d)'
  <2>1. CASE d = c
    <3>1. RouteTells(c)'
      BY <1>0, <1>1, <1>2, <1>3, <1>5, <1>10 DEF RouteTells, InQueue, UnderWay
    <3>2. Holds(c)'
      <4>1. op'[c].kind = "idle" /\ op'[c].start <= epoch'
        BY <1>0, <1>1, <1>2, <1>3 DEF Holds
      <4>2. disposed' => ticket'[c] = None
        BY <1>0, <1>1, <1>9 DEF Holds
      <4> QED BY <1>9, <4>1, <4>2 DEF Holds
    <3>3. InLine(c)' /\ Certain(c)'
      BY <1>5 DEF InLine, Certain, InQueue, UnderWay
    <3> QED BY <2>1, <3>1, <3>2, <3>3
  <2>2. CASE d # c
    BY <1>1, <1>3, <1>5, <1>9, <1>10, <2>2, OthersTell, OthersHold, OthersCertain, SameLine
    DEF SavesInv
  <2> QED BY <2>1, <2>2
<1> QED BY <1>1, <1>11, <1>13, <1>14 DEF SavesInv

-----------------------------------------------------------------------------
(* The theorems. *)

LEMMA SavesStep ==
  ASSUME SavesInv, Saves!ConstantsAssumption, [Saves!Next]_(Saves!vars) PROVE SavesInv'
<1>1. CASE Saves!Next
  <2>1. CASE Saves!ChangeProviders \/ Saves!Dispose
    BY <2>1, VoidInv
  <2>2. CASE \E f \in Files : Saves!Relink(f) \/ \E t \in Replacements : Saves!WriteElsewhere(f, t)
    BY <2>2, ElsewhereInv
  <2>3. ASSUME NEW c \in Callers,
               \/ Saves!Read(c) \/ Saves!ReadEnds(c, documents[link]) \/ Saves!Release(c)
               \/ Saves!Compare(c) \/ Saves!Resolve(c) \/ Saves!CompareAgain(c)
               \/ Saves!Commit(c) \/ Saves!Fails(c) \/ Saves!LosesAnswer(c)
               \/ Saves!Answered(c)
               \/ \E t \in Replacements : Saves!Write(c, t)
        PROVE  SavesInv'
    BY <2>3, ReadInv, ReadEndsInv, ReleaseInv, LooksInv, CommitInv, FailsInv, LosesAnswerInv,
       AnsweredInv, WriteInv
  <2> QED BY <1>1, <2>1, <2>2, <2>3 DEF Saves!Next
<1>2. CASE UNCHANGED Saves!vars
  BY <1>2 DEF Saves!vars, Saves!client, Saves!host, Saves!history, SavesInv, SavesTyped, Few,
     RouteTells, Holds, InLine, Certain, Saves!Live, Saves!Current
<1> QED BY <1>1, <1>2

\* The invariant of the plugins' saves (resource-data.ts, resource-data-routes.ts).
THEOREM SavesInvHolds == ASSUME Saves!ConstantsAssumption PROVE Saves!Spec => []SavesInv
<1>1. Saves!Init => SavesInv
  BY SavesInit
<1>2. SavesInv /\ [Saves!Next]_(Saves!vars) => SavesInv'
  BY SavesStep
<1> QED BY <1>1, <1>2, PTL DEF Saves!Spec

\* Every variable of the service and of the route keeps its type.
THEOREM SavesTypeCorrect == ASSUME Saves!ConstantsAssumption PROVE Saves!Spec => []Saves!TypeOK
<1>1. SavesInv => Saves!TypeOK
  <2> SUFFICES ASSUME SavesInv PROVE Saves!TypeOK
    OBVIOUS
  <2>1. \A c \in Callers :
          /\ route[c].stage \in {"none", "queued", "compared", "resolved", "ready", "ok",
                                 "conflict", "error"}
          /\ route[c].stage \in {"none", "ok", "conflict", "error"} \/ route[c].file \in Files
    BY DEF SavesInv, SavesTyped, RouteFits, InQueue, UnderWay, Ended
  <2>2. \A f \in Files : \A i \in DOMAIN queue[f] : queue[f][i] \in Callers
    BY DEF SavesInv, SavesTyped
  <2>3. ticket \in [Callers -> {None} \cup [text : Replacements, pending : BOOLEAN]]
        /\ op \in [Callers -> [kind : {"idle", "reading", "writing"}, start : 0..MaxEpoch]]
    BY DEF SavesInv, SavesTyped, Baselines, Calls
  <2> QED BY <2>1, <2>2, <2>3 DEF SavesInv, SavesTyped, Saves!TypeOK
<1> QED BY <1>1, SavesInvHolds, PTL

\* Whatever the providers, the disk, the network and the other plugins do, at most
\* MaxTickets baselines are live, none outlives its epoch or the service, and one
\* with a save pending has its call under way (resource-data.ts:29).
THEOREM BaselinesBoundHolds ==
  ASSUME Saves!ConstantsAssumption PROVE Saves!Spec => []Saves!BaselinesBound
<1>1. SavesInv => Saves!BaselinesBound
  BY SameCount DEF SavesInv, Few, Holds, Saves!BaselinesBound, Saves!Live
<1> QED BY <1>1, SavesInvHolds, PTL

\* A plugin that is told "saved" has saved, and one that is told its save was
\* refused has not, however the providers change meanwhile (resource-data.ts:245).
THEOREM OutcomesAreTrueHolds ==
  ASSUME Saves!ConstantsAssumption PROVE Saves!Spec => []Saves!OutcomesAreTrue
<1>1. SavesInv => Saves!OutcomesAreTrue
  BY DEF SavesInv, RouteTells, Saves!OutcomesAreTrue
<1> QED BY <1>1, SavesInvHolds, PTL

\* And unless others write between the last look and the rename, a save replaces
\* the text its baseline was read from, in the file the path names
\* (resource-data-routes.ts:94).
THEOREM ToldTheTruthHolds ==
  ASSUME Saves!ConstantsAssumption, ~Races PROVE Saves!Spec => []Saves!ToldTheTruth
<1>1. SavesInv => Saves!NeverBlind
  BY DEF SavesInv, Saves!NeverBlind
<1> QED BY <1>1, SavesInvHolds, BaselinesBoundHolds, OutcomesAreTrueHolds, PTL
    DEF Saves!ToldTheTruth
=============================================================================
