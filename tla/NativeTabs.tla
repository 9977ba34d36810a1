----------------------------- MODULE NativeTabs -----------------------------
(***************************************************************************)
(* The plugin's tabs in the host's right sidebar: the queue of opens for    *)
(* sessions that are not on screen (native/surface.ts) and the records the  *)
(* plugin keeps of the host's tabs (native/tab-adapter.tsx).               *)
(*                                                                         *)
(* A tab's path is written from two sides: by the host's navigation, which  *)
(* it delivers again with every render, and by the plugin, when a file is   *)
(* renamed or switched in place.  The same tab id names a tab in every      *)
(* session.  The host (its controller, its list of sessions, its tabs) is   *)
(* modelled from how the two files use it.  Left out: titles and meta,     *)
(* which pass the same gate as the path, the line to land on, the expansion *)
(* set, and opens without a controller, which go to the bottom workbench.   *)
(***************************************************************************)
EXTENDS Naturals, FiniteSets, Sequences, SequencesExt

CONSTANTS
  Sessions, TabIds, Paths, None,
  Misses,          \* whether the list may miss a session that exists, and a close be refused
  MaxOpens, MaxNavs, MaxControllers, MaxWrites  \* bounds

VARIABLES
  controller,  \* the number of the host's controller; 0 before there is one
  mounted,     \* the session on screen
  exists, listed,  \* sessions, and those the list has
  watched,     \* the controller whose mounted feed is subscribed to, or 0
  pending,     \* opens that could not be placed yet
  tab,         \* the host's tabs and their navigation
  view,        \* the plugin's records
  own,         \* history: the path the plugin wrote since the record's navigation
  opens, writes

host == <<controller, mounted, exists, listed>>
vars == <<host, watched, pending, tab, view, own, opens, writes>>

Tabs == Sessions \X TabIds
Unused == [open |-> FALSE, path |-> None, revision |-> 0]
Navigations == [open : BOOLEAN, path : Paths \cup {None}, revision : 0 .. MaxNavs]
Records == [path : Paths, revision : 1 .. MaxNavs]
Opens == [at : Tabs, path : Paths]

TypeOK ==
  /\ controller \in 0 .. MaxControllers /\ watched \in 0 .. controller
  /\ exists \subseteq Sessions /\ listed \subseteq Sessions /\ mounted \in exists \cup {None}
  /\ pending \in Seq(Opens)
  /\ tab \in [Tabs -> Navigations] /\ view \in [Tabs -> Records \cup {None}]
  /\ own \in [Tabs -> Paths \cup {None}]
  /\ \A k \in Tabs : view[k] # None => view[k].revision <= tab[k].revision

Init ==
  /\ controller = 0 /\ mounted = None /\ exists = Sessions /\ listed = Sessions /\ watched = 0
  /\ pending = << >>
  /\ tab = [k \in Tabs |-> Unused] /\ view = [k \in Tabs |-> None]
  /\ own = [k \in Tabs |-> None]
  /\ opens = 0 /\ writes = 0

-----------------------------------------------------------------------------
(* Opening. *)

\* The host opens or reveals the tab an open is for.
Navigated(tabs, o) ==
  [tabs EXCEPT ![o.at] = [open |-> TRUE, path |-> o.path,
                          revision |-> @.revision + 1]]

For(s, o) == o.at[1] = s

\* Mutant: the queue is walked forwards, and the entry after one that is taken
\* out is skipped.
Due_Forwards(s) ==
  {i \in DOMAIN pending : For(s, pending[i]) /\ (i > 1 => ~For(s, pending[i - 1]))}
\* flushPending: what is for the session on screen is placed, newest first.
Due(s) == {i \in DOMAIN pending : For(s, pending[i])}
Picked(indices) == [i \in DOMAIN indices |-> pending[indices[i]]]
Flushed(s) ==
  /\ pending' = Picked(SetToSortSeq(DOMAIN pending \ Due(s), <))
  /\ tab' = FoldLeft(Navigated, tab, Picked(SetToSortSeq(Due(s), >)))

\* openTab, openResource.  Which tab an open lands in is the host's choice.
Open(o) ==
  /\ controller > 0 /\ opens < MaxOpens
  /\ o.at[1] \in exists /\ (tab[o.at].open \/ tab[o.at].revision = 0)
  /\ tab[o.at].revision + Cardinality({i \in DOMAIN pending : pending[i].at = o.at}) < MaxNavs
  /\ opens' = opens + 1
  /\ IF For(mounted, o)
     THEN tab' = Navigated(tab, o) /\ UNCHANGED pending
     ELSE pending' = Append(pending, o) /\ UNCHANGED tab
  /\ UNCHANGED <<host, watched, view, own, writes>>

-----------------------------------------------------------------------------
(* The host. *)

\* A controller is provided, or another in its place.
Provide(s) ==
  /\ controller < MaxControllers /\ s \in exists \cup {None}
  /\ controller' = controller + 1 /\ mounted' = s
  /\ UNCHANGED <<exists, listed, watched, pending, tab, view, own, opens, writes>>

\* Another session's seat is drawn, or none.
Mount(s) ==
  /\ controller > 0 /\ s \in (exists \cup {None}) \ {mounted}
  /\ mounted' = s
  /\ IF watched = controller THEN Flushed(s) ELSE UNCHANGED <<pending, tab>>
  /\ UNCHANGED <<controller, exists, listed, watched, view, own, opens, writes>>

\* Mutant: the sessions of the list alone are kept.
Kept_Listed == listed'
Kept == listed' \cup {mounted}
\* The list is published: subscribe to the controller's feed if that is still
\* to be done, flush, and forget the records of sessions that are gone.
Publish(list) ==
  /\ list = exists \/ (Misses /\ list \subseteq exists)
  /\ listed' = list
  /\ watched' = IF watched = 0 THEN controller ELSE watched
  /\ IF controller > 0 THEN Flushed(mounted) ELSE UNCHANGED <<pending, tab>>
  /\ view' = [k \in Tabs |-> IF k[1] \in Kept THEN view[k] ELSE None]
  /\ UNCHANGED <<controller, mounted, exists, own, opens, writes>>

Shut(ks) == [k \in Tabs |-> IF k \in ks THEN [tab[k] EXCEPT !.open = FALSE] ELSE tab[k]]
\* The user deletes a session that is not on screen.
Delete(s) ==
  /\ s \in exists /\ s # mounted
  /\ exists' = exists \ {s}
  /\ tab' = Shut({k \in Tabs : k[1] = s})
  /\ UNCHANGED <<controller, mounted, listed, watched, pending, view, own, opens, writes>>

-----------------------------------------------------------------------------
(* The records. *)

\* Mutant: the path is taken up at every render.
Ensured_Always(v, n) == [path |-> n.path, revision |-> n.revision]
Minted(n) == [path |-> n.path, revision |-> n.revision]
\* ensure(): a navigation is taken up once.
Ensured(v, n) ==
  [path |-> IF v.revision = n.revision THEN v.path ELSE n.path, revision |-> n.revision]

\* A body renders; the host keeps the bodies of all sessions mounted.
Render(k) ==
  /\ tab[k].open /\ k[1] \in exists
  /\ view' = [view EXCEPT ![k] = IF @ = None THEN Minted(tab[k]) ELSE Ensured(@, tab[k])]
  /\ own' = IF view[k] # None /\ view[k].revision # tab[k].revision THEN [own EXCEPT ![k] = None] ELSE own
  /\ UNCHANGED <<host, watched, pending, tab, opens, writes>>

\* sessionOf: whose record a bare id means.
Meant(id) ==
  LET having == {s \in Sessions : view[<<s, id>>] # None} IN
  IF mounted \in having THEN {mounted}
  ELSE IF Cardinality(having \cap listed) = 1 THEN having \cap listed ELSE {}

Written(k, path) ==
  /\ view' = [view EXCEPT ![k].path = path]
  /\ own' = [own EXCEPT ![k] = path]
\* updateTab: a rename or a switch in place, of a session's tab ...
Update(k, path) ==
  /\ view[k] # None /\ path # view[k].path /\ writes < MaxWrites
  /\ Written(k, path) /\ writes' = writes + 1
  /\ UNCHANGED <<host, watched, pending, tab, opens>>
\* ... or of the one a bare id means.
UpdateBare(id, path) ==
  /\ writes < MaxWrites /\ writes' = writes + 1
  /\ \E s \in Meant(id) : Written(<<s, id>>, path)
  /\ UNCHANGED <<host, watched, pending, tab, opens>>

Awaited(k) == \E i \in DOMAIN pending : pending[i].at = k
\* close(): the record goes first, then the host is asked.
Close(k) ==
  /\ view[k] # None /\ ~Awaited(k)
  /\ view' = [view EXCEPT ![k] = None]
  /\ \/ tab' = Shut({k})
     \/ Misses /\ UNCHANGED tab
  /\ UNCHANGED <<host, watched, pending, own, opens, writes>>

\* The user closes the tab in the host's strip, which tells the plugin nothing.
HostClose(k) ==
  /\ tab[k].open /\ ~Awaited(k)
  /\ tab' = Shut({k})
  /\ UNCHANGED <<host, watched, pending, view, own, opens, writes>>

Next ==
  \/ \E o \in Opens : Open(o)
  \/ \E s \in Sessions \cup {None} : Provide(s) \/ Mount(s)
  \/ \E list \in SUBSET Sessions : Publish(list)
  \/ \E s \in Sessions : Delete(s)
  \/ \E k \in Tabs : Render(k) \/ Close(k) \/ HostClose(k)
  \/ \E k \in Tabs, path \in Paths : Update(k, path)
  \/ \E id \in TabIds, path \in Paths : UpdateBare(id, path)

Spec == Init /\ [][Next]_vars

-----------------------------------------------------------------------------
(* Properties. *)

\* tab-adapter.tsx:321, "only a real navigation may move the record back onto its
\* address": a record shows the last of its navigation and the plugin's writes,
\* whatever renders, sessions and other tabs of that id come between.
RecordsFollow ==
  \A k \in Tabs :
    tab[k].open /\ view[k] # None /\ view[k].revision = tab[k].revision
      => view[k].path = IF own[k] = None THEN tab[k].path ELSE own[k]

\* surface.ts:19, an open "stays QUEUED and is replayed once that session comes
\* on screen": none waits for the session on screen while its feed is heard.
NothingWaitsOnScreen ==
  watched = controller => \A i \in DOMAIN pending : ~For(mounted, pending[i])
=============================================================================
