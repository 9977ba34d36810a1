----------------------------- MODULE SplitTree -----------------------------
(* The bottom workbench's layout (src/client/state.ts): a tree of panes, each   *)
(* a tab group with its active tab, and of two-way splits, changed by opens,    *)
(* closes, drags, diff placement, the host's agent terminal pushes and a        *)
(* reload.                                                                      *)
(*                                                                              *)
(* The code nests the tree; here it is kept flat, by node id: mapLeaf(id) is    *)
(* an update at the id, and no update where the id is gone. Directions, sizes   *)
(* and titles are left out.                                                     *)
EXTENDS Naturals, Sequences, FiniteSets, SequencesExt

CONSTANTS
  Files,         \* editor tabs
  Diffs,         \* diff tabs, dropped by a reload
  Agents,        \* agent terminal tabs, owned by the host
  None,          \* no active tab
  LoneSelfDrops, \* a pane's only tab may be dropped on its own pane's centre
  DiffsAlone     \* a split layout may be reloaded with nothing but diffs open

Tabs == Files \cup Diffs \cup Agents

ASSUME KindsAssumption ==
  /\ IsFiniteSet(Tabs) /\ None \notin Tabs
  /\ Files \cap Diffs = {} /\ Agents \cap (Files \cup Diffs) = {}

\* Node ids: as many panes as tabs, and one more while a drag copies a tab.
PaneIds == 1..(Cardinality(Tabs) + 1)
SplitIds == (Cardinality(Tabs) + 2)..(2 * Cardinality(Tabs) + 2)

VARIABLES
  tree,        \* root, tabs and active tab by pane, children by split
  activePane   \* the pane last touched

vars == <<tree, activePane>>

Lone(pane) == [root |-> pane, tabs |-> (pane :> <<>>), active |-> (pane :> None), kids |-> <<>>]

Init == tree = Lone(1) /\ activePane = 1

-----------------------------------------------------------------------------
(* Reading the tree.                                                          *)

Panes(t) == DOMAIN t.tabs
Splits(t) == DOMAIN t.kids
TabsOf(t, p) == ToSet(t.tabs[p])
OpenTabs(t) == UNION {TabsOf(t, p) : p \in Panes(t)}

\* leafWithTab, for an open tab.
PaneOf(t, tab) == CHOOSE p \in Panes(t) : tab \in TabsOf(t, p)

\* allLeaves: the panes, depth first.
Leaves(t) ==
  LET from[n \in Panes(t) \cup Splits(t)] ==
        IF n \in Panes(t) THEN <<n>> ELSE from[t.kids[n][1]] \o from[t.kids[n][2]]
  IN  from[t.root]

FirstLeaf(t) == Head(Leaves(t))

LastTab(tabs) == IF tabs = <<>> THEN None ELSE Last(tabs)

\* Mutant: the counter restarts and repeats ids beyond its range.
Fresh_Any(ids, used) == Cardinality(ids) + Cardinality(used) + 1

\* uid: an id no node of the tree has.
Fresh(ids, used) == CHOOSE i \in ids \ used : \A j \in ids \ used : i <= j

\* Node a gives its place to node b.
Replaced(t, a, b) ==
  [t EXCEPT
     !.root = IF @ = a THEN b ELSE @,
     !.kids = [s \in DOMAIN @ |-> [i \in 1..2 |-> IF @[s][i] = a THEN b ELSE @[s][i]]]]

-----------------------------------------------------------------------------
(* The reducers' parts.                                                       *)

\* mapLeaf: a pane gets these tabs and this active tab; no pane, no change.
WithPane(t, p, tabs, tab) ==
  IF p \in Panes(t)
    THEN [t EXCEPT !.tabs[p] = tabs, !.active[p] = tab]
    ELSE t

\* Append a tab to a pane and activate it.
Appended(t, p, tab) ==
  IF p \in Panes(t) THEN WithPane(t, p, Append(t.tabs[p], tab), tab) ELSE t

\* Mutant: the split keeps its place with the sibling alone twice.
RemovedLeaf_Kept(t, p) ==
  IF t.root = p THEN WithPane(t, p, <<>>, None)
  ELSE LET s == CHOOSE n \in Splits(t) : p \in ToSet(t.kids[n])
           sibling == CHOOSE n \in ToSet(t.kids[s]) : n # p
       IN  [t EXCEPT !.kids[s] = <<sibling, sibling>>,
                     !.tabs = [q \in DOMAIN @ \ {p} |-> @[q]],
                     !.active = [q \in DOMAIN @ \ {p} |-> @[q]]]

\* removeLeafAt: the sibling takes the split's place; the last pane is emptied.
RemovedLeaf(t, p) ==
  IF t.root = p THEN WithPane(t, p, <<>>, None)
  ELSE LET s == CHOOSE n \in Splits(t) : p \in ToSet(t.kids[n])
           sibling == CHOOSE n \in ToSet(t.kids[s]) : n # p
           up == Replaced(t, s, sibling)
       IN  [up EXCEPT !.kids = [n \in DOMAIN @ \ {s} |-> @[n]],
                      !.tabs = [q \in DOMAIN @ \ {p} |-> @[q]],
                      !.active = [q \in DOMAIN @ \ {p} |-> @[q]]]

\* Mutant: the active pointer is left on the tab that went.
Lifted_KeepActive(t, p, tab) ==
  LET tabs == SelectSeq(t.tabs[p], LAMBDA other : other # tab)
  IN  IF tabs = <<>> THEN RemovedLeaf(t, p) ELSE WithPane(t, p, tabs, t.active[p])

\* A tab leaves a pane: its neighbour at the end becomes active, and an emptied
\* pane is removed (closeTab, and the first half of every move).
Lifted(t, p, tab) ==
  LET tabs == SelectSeq(t.tabs[p], LAMBDA other : other # tab)
  IN  IF tabs = <<>>
        THEN RemovedLeaf(t, p)
        ELSE WithPane(t, p, tabs, IF t.active[p] = tab THEN LastTab(tabs) ELSE t.active[p])

\* insertLeafAt: a split of the pane and a fresh one that holds the tab.
FreshPane(t) == Fresh(PaneIds, Panes(t))

Inserted(t, p, tab, front) ==
  LET f == FreshPane(t)
      s == Fresh(SplitIds, Splits(t))
      up == Replaced(t, p, s)
  IN  [up EXCEPT !.tabs = @ @@ (f :> <<tab>>),
                 !.active = @ @@ (f :> tab),
                 !.kids = @ @@ (s :> IF front THEN <<f, p>> ELSE <<p, f>>)]

-----------------------------------------------------------------------------
(* The reducers.                                                              *)

Change(t, p) == tree' = t /\ activePane' = p

\* Mutant: an open tab is opened a second time.
OpenedIn_Twice(t, tab) == Change(Appended(t, FirstLeaf(t), tab), FirstLeaf(t))

\* openTabInBottomPane: an open tab is focused, another lands in the first pane.
OpenedIn(t, tab) ==
  IF tab \in OpenTabs(t)
    THEN LET p == PaneOf(t, tab) IN Change(WithPane(t, p, t.tabs[p], tab), p)
    ELSE Change(Appended(t, FirstLeaf(t), tab), FirstLeaf(t))

Open(tab) == OpenedIn(tree, tab)

\* "Open to the side" of an open tab: a fresh tab in a split of its pane.
OpenSide(beside, tab) ==
  /\ beside \in OpenTabs(tree) /\ tab \notin OpenTabs(tree)
  /\ Change(Inserted(tree, PaneOf(tree, beside), tab, FALSE), FreshPane(tree))

\* Mutant: a source pane that is still there is split for every diff.
DiffPlaced_Split(source, tab) ==
  LET p == IF source \in Panes(tree) THEN source ELSE FirstLeaf(tree)
  IN  Change(Inserted(tree, p, tab, FALSE), FreshPane(tree))

\* Where a diff that is not open goes: with the other diffs, or below its source.
DiffPlaced(source, tab) ==
  LET holders == SelectSeq(Leaves(tree), LAMBDA p : TabsOf(tree, p) \cap Diffs # {})
  IN  IF holders # <<>>
        THEN Change(Appended(tree, Head(holders), tab), Head(holders))
        ELSE Change(Inserted(tree, source, tab, FALSE), FreshPane(tree))

\* openDiffTab, from a view in the source pane, which may have gone since.
OpenDiff(source, tab) ==
  /\ source \in Panes(tree) => TabsOf(tree, source) \cap Files # {}
  /\ IF tab \in OpenTabs(tree) \/
        (source \notin Panes(tree) /\ \A p \in Panes(tree) : TabsOf(tree, p) \cap Diffs = {})
       THEN OpenedIn(tree, tab)
       ELSE DiffPlaced(source, tab)

\* closeTab, on the pane the service looked up.
Close(tab) ==
  /\ tab \in OpenTabs(tree)
  /\ Change(Lifted(tree, PaneOf(tree, tab), tab), activePane)

Activate(tab) ==
  /\ tab \in OpenTabs(tree)
  /\ LET p == PaneOf(tree, tab) IN Change(WithPane(tree, p, tree.tabs[p], tab), p)

FocusPane(p) == p \in Panes(tree) /\ Change(tree, p)

\* Mutant: the pane the tab leaves is not taken for a target.
Moved_Away(from, tab, to, index) ==
  LET t == Lifted(tree, from, tab)
  IN  Change(IF to \in Panes(t) \ {from} THEN WithPane(t, to, Append(t.tabs[to], tab), tab) ELSE t,
             to)

\* moveTab: the tab leaves its pane and is put before the index, or last.
Moved(from, tab, to, index) ==
  LET t == Lifted(tree, from, tab)
      at == IF index \in 1..(Len(t.tabs[to]) + 1) THEN index ELSE Len(t.tabs[to]) + 1
  IN  Change(IF to \in Panes(t) THEN WithPane(t, to, InsertAt(t.tabs[to], at, tab), tab) ELSE t,
             to)

\* A drop on a pane's centre, or on its strip behind the last tab
\* (moveTabToEdge 'center'; moveTab when the pane is the tab's own).
DropCentre(tab, to) ==
  /\ tab \in OpenTabs(tree) /\ to \in Panes(tree)
  /\ tree.tabs[to] = <<tab>> => LoneSelfDrops
  /\ Moved(PaneOf(tree, tab), tab, to, 0)

\* A drop on another tab of a pane (moveTabBefore): the index was read before
\* the tab left.
DropBefore(tab, to, before) ==
  /\ tab \in OpenTabs(tree) /\ to \in Panes(tree)
  /\ before \in TabsOf(tree, to)
  /\ tree.tabs[to] = <<tab>> => LoneSelfDrops
  /\ Moved(PaneOf(tree, tab), tab, to, IndexFirstSubSeq(<<before>>, tree.tabs[to]))

\* The target is split first, then the tab leaves its source pane.
EdgeDropped(tab, to, front) ==
  LET t == Inserted(tree, to, tab, front)
  IN  Change(Lifted(t, PaneOf(tree, tab), tab), FreshPane(tree))

\* A drop on a pane's edge (moveTabToEdge).
DropEdge(tab, to, front) ==
  /\ tab \in OpenTabs(tree) /\ to \in Panes(tree)
  /\ EdgeDropped(tab, to, front)

\* reconcileAgentTerminals, on the host's list: tabs of the terminals that are
\* gone are closed, and new ones opened in its order.
Reconcile(listed) ==
  LET gone == SetToSeq((OpenTabs(tree) \cap Agents) \ listed)
      new == SetToSeq(listed \ OpenTabs(tree))
      kept == FoldSeq(LAMBDA tab, t : Lifted(t, PaneOf(t, tab), tab), tree, gone)
      full == FoldSeq(LAMBDA tab, t : Appended(t, FirstLeaf(t), tab), kept, new)
  IN  Change(full, IF new = <<>> THEN activePane ELSE FirstLeaf(kept))

\* sanitizeNode: a reload drops the diffs, and an active pointer into one.
WithoutDiffs(t) ==
  [t EXCEPT
     !.tabs = [p \in DOMAIN @ |-> SelectSeq(@[p], LAMBDA tab : tab \notin Diffs)],
     !.active = [p \in DOMAIN @ |-> IF @[p] \in Diffs THEN None ELSE @[p]]]

\* Mutant: panes that held diffs alone are kept.
Pruned_Not(t) == t

\* pruneEmptyPanes: the emptied panes go, unless every pane is empty.
Pruned(t) ==
  IF OpenTabs(t) = {} THEN t
  ELSE FoldSeq(LAMBDA p, u : IF t.tabs[p] = <<>> THEN RemovedLeaf(u, p) ELSE u, t, Leaves(t))

\* A reload restores the persisted layout (sanitizeState).
Reload ==
  /\ OpenTabs(tree) \subseteq Diffs /\ Splits(tree) # {} => DiffsAlone
  /\ LET t == Pruned(WithoutDiffs(tree))
     IN  Change(t, IF activePane \in Panes(t) THEN activePane ELSE FirstLeaf(t))

Next ==
  \/ \E tab \in Files : Open(tab)
  \/ \E tab \in Diffs, source \in PaneIds : OpenDiff(source, tab)
  \/ \E beside, tab \in Files : OpenSide(beside, tab)
  \/ \E tab \in OpenTabs(tree) : Close(tab) \/ Activate(tab)
  \/ \E p \in Panes(tree) : FocusPane(p)
  \/ \E tab \in OpenTabs(tree), to \in Panes(tree) : DropCentre(tab, to)
  \/ \E tab, before \in OpenTabs(tree), to \in Panes(tree) : DropBefore(tab, to, before)
  \/ \E tab \in OpenTabs(tree), to \in Panes(tree), front \in BOOLEAN : DropEdge(tab, to, front)
  \/ \E listed \in SUBSET Agents : Reconcile(listed)
  \/ Reload

Spec == Init /\ [][Next]_vars

-----------------------------------------------------------------------------
(* Properties.                                                                *)

\* The panes hold sequences of tabs, the splits two nodes each.
TypeOK ==
  /\ Panes(tree) \subseteq PaneIds /\ Splits(tree) \subseteq SplitIds
  /\ \A p \in Panes(tree) : tree.tabs[p] \in Seq(Tabs) /\ tree.active[p] \in Tabs \cup {None}
  /\ DOMAIN tree.active = Panes(tree)
  /\ \A s \in Splits(tree) : tree.kids[s] \in [1..2 -> Panes(tree) \cup Splits(tree)]
  /\ activePane \in PaneIds

\* The nodes form one tree: every node but the root is the child of exactly one
\* split, once, and every pane is met exactly once from the root.
ProperTree ==
  /\ tree.root \in Panes(tree) \cup Splits(tree)
  /\ \A n \in Panes(tree) \cup Splits(tree) :
       Cardinality({<<s, i>> \in Splits(tree) \X (1..2) : tree.kids[s][i] = n})
         = (IF n = tree.root THEN 0 ELSE 1)
  /\ Len(Leaves(tree)) = Cardinality(Panes(tree))

\* A tab is open in one place.
TabOnce ==
  \A tab \in Tabs :
    Cardinality({<<p, i>> \in Panes(tree) \X (1..Cardinality(Tabs)) :
                   i \in DOMAIN tree.tabs[p] /\ tree.tabs[p][i] = tab}) <= 1

\* An emptied pane goes, by a close, a drag, the host's list or a reload that
\* drops its diffs: an empty pane is the only one.
EmptyPaneIsAlone ==
  \A p \in Panes(tree) : tree.tabs[p] = <<>> => Panes(tree) = {p}

\* A pane's active tab is one of its own.
ActiveIsOwn == \A p \in Panes(tree) : tree.active[p] \in TabsOf(tree, p) \cup {None}

\* A diff that was not open joins the diffs, and never splits a second pane.
DiffsStack ==
  [][\A tab \in OpenTabs(tree)' \ OpenTabs(tree) :
       tab \in Diffs /\ OpenTabs(tree) \cap Diffs # {} => Panes(tree)' = Panes(tree)]_vars

\* No drag, open, focus or resize loses a tab: the tabs that go are one closed
\* by the user, agent terminals the host closed, or a reload's diffs.
KeepsOrCloses ==
  \/ OpenTabs(tree) \subseteq OpenTabs(tree)'
  \/ \E tab \in Tabs : Close(tab)
  \/ \E listed \in SUBSET Agents : Reconcile(listed)
  \/ Reload
NoTabLost == [][KeepsOrCloses]_vars
=============================================================================
