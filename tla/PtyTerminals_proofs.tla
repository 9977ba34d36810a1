----------------------- MODULE PtyTerminals_proofs -----------------------
(***************************************************************************)
(* Proofs about PtyTerminals.  The type invariant is split in the part     *)
(* that PtyManager's operations write and the part that sockets and the    *)
(* browser write; every operation of the manager gets a lemma of its own,  *)
(* which the steps below compose.                                          *)
(***************************************************************************)
EXTENDS PtyTerminals, FiniteSetTheorems, TLAPS

ManagerTypeOK ==
  /\ sessions \in [Keys -> Ptys \cup {NoPty}]
  /\ pendingCloses \in [Keys -> {"none", "now", "grace"}]
  /\ parked \subseteq Keys
  /\ pty \in [Ptys -> [cwd : Cwds \cup {NoCwd}, life : Lives]]

\* Closing any set of keys keeps the manager's types.
LEMMA CloseAllType ==
  ASSUME ManagerTypeOK, NEW ks \in SUBSET Keys, CloseAll(ks)
  PROVE  ManagerTypeOK'
<1>1. Killed(ks) \in [Ptys -> [cwd : Cwds \cup {NoCwd}, life : Lives]]
  <2> SUFFICES ASSUME NEW p \in Ptys
               PROVE [pty[p] EXCEPT !.life = "killed"] \in [cwd : Cwds \cup {NoCwd}, life : Lives]
    BY DEF ManagerTypeOK, Killed
  <2> QED BY DEF ManagerTypeOK, Lives
<1>2. SessionsWithout(ks) \in [Keys -> Ptys \cup {NoPty}]
  BY DEF ManagerTypeOK, SessionsWithout
<1>3. TimersWithout(ks) \in [Keys -> {"none", "now", "grace"}]
  BY DEF ManagerTypeOK, TimersWithout
<1> QED BY <1>1, <1>2, <1>3 DEF ManagerTypeOK, CloseAll

\* So do scheduling a close and parking.
LEMMA MarkType ==
  ASSUME ManagerTypeOK, NEW k \in Keys,
         \/ \E delay \in {"now", "grace"} : ScheduleClose(k, delay)
         \/ Park(k)
         \/ GraceAfterHangup(k)
  PROVE  ManagerTypeOK'
BY DEF ManagerTypeOK, ScheduleClose, Park, GraceAfterHangup, manager

\* So does opening a shell, whether it reuses, spawns or throws.
LEMMA OpenType ==
  ASSUME ManagerTypeOK, NEW k \in Keys, NEW d \in Cwds,
         \/ OpenReuses(k, d)
         \/ \E p \in Ptys : OpenSpawns(k, d, p)
         \/ OpenThrows(k, d)
  PROVE  ManagerTypeOK'
<1>1. CASE OpenReuses(k, d)
  BY <1>1 DEF ManagerTypeOK, OpenReuses, TimersWithout
<1>2. ASSUME NEW p \in Ptys, OpenSpawns(k, d, p) PROVE ManagerTypeOK'
  <2> DEFINE gone == ClosedByOpen(k)
  <2>1. Killed(gone) \in [Ptys -> [cwd : Cwds \cup {NoCwd}, life : Lives]]
    <3> SUFFICES ASSUME NEW q \in Ptys
                 PROVE [pty[q] EXCEPT !.life = "killed"] \in [cwd : Cwds \cup {NoCwd}, life : Lives]
      BY DEF ManagerTypeOK, Killed
    <3> QED BY DEF ManagerTypeOK, Lives
  <2>2. pty' \in [Ptys -> [cwd : Cwds \cup {NoCwd}, life : Lives]]
    <3>1. [cwd |-> d, life |-> "running"] \in [cwd : Cwds \cup {NoCwd}, life : Lives]
      BY DEF Lives
    <3>2. pty' = [Killed(gone) EXCEPT ![p] = [cwd |-> d, life |-> "running"]]
      BY <1>2 DEF OpenSpawns
    <3> HIDE DEF gone
    <3> QED BY <2>1, <3>1, <3>2
  <2>3. sessions' \in [Keys -> Ptys \cup {NoPty}]
    BY <1>2 DEF OpenSpawns, SessionsWithout, ManagerTypeOK
  <2>4. pendingCloses' \in [Keys -> {"none", "now", "grace"}]
    BY <1>2 DEF OpenSpawns, TimersWithout, ManagerTypeOK
  <2>5. parked' \subseteq Keys
    BY <1>2 DEF OpenSpawns, ManagerTypeOK
  <2> QED BY <2>2, <2>3, <2>4, <2>5 DEF ManagerTypeOK
<1>3. CASE OpenThrows(k, d)
  <2>1. ClosedByOpen(k) \cup {k} \in SUBSET Keys
    BY DEF ClosedByOpen
  <2> QED BY <1>3, <2>1, CloseAllType DEF OpenThrows
<1> QED BY <1>1, <1>2, <1>3

-----------------------------------------------------------------------------
(* Type correctness. *)

\* Every socket that was ever used is about a key; the handlers rely on it.
ConnsKeyed == \A c \in Conns : conn[c].phase # "unused" => conn[c].key \in Keys

Typed == Types /\ ConnsKeyed

SocketTypeOK ==
  /\ conn \in [Conns -> [phase : Phases, key : Keys \cup {NoKey}]]
  /\ wire \in [Conns -> Seq(Frames)]
  /\ opened \subseteq Conns
  /\ view \in [Keys -> Conns \cup {NoConn}]
  /\ tabs \subseteq Keys
  /\ active \in Sessions
  /\ tornDown \in BOOLEAN
  /\ ConnsKeyed

LEMMA TypedParts == Typed <=> ManagerTypeOK /\ SocketTypeOK
BY DEF Typed, Types, ManagerTypeOK, SocketTypeOK

LEMMA TypedInit == Init => Typed
<1> SUFFICES ASSUME Init PROVE Typed
  OBVIOUS
<1>1. ManagerTypeOK
  BY DEF Init, ManagerTypeOK, Lives
<1>2. wire \in [Conns -> Seq(Frames)]
  <2>1. << >> \in Seq(Frames)
    OBVIOUS
  <2> QED BY <2>1 DEF Init
<1>3. conn \in [Conns -> [phase : Phases, key : Keys \cup {NoKey}]] /\ ConnsKeyed
  BY DEF Init, Phases, ConnsKeyed
<1>4. view \in [Keys -> Conns \cup {NoConn}]
  BY DEF Init
<1>5. SocketTypeOK
  BY <1>2, <1>3, <1>4 DEF Init, SocketTypeOK
<1> QED BY <1>1, <1>5, TypedParts

\* Moving a used socket to another phase.
LEMMA SetPhaseType ==
  ASSUME SocketTypeOK, NEW c \in Conns, NEW ph \in Phases \ {"unused"},
         conn[c].phase # "unused", SetPhase(c, ph)
  PROVE  /\ conn' \in [Conns -> [phase : Phases, key : Keys \cup {NoKey}]]
         /\ ConnsKeyed'
<1>1. conn[c].key \in Keys
  BY DEF SocketTypeOK, ConnsKeyed
<1>2. \A b \in Conns : conn[b].phase = "unused" => conn'[b].phase = "unused"
  BY DEF SocketTypeOK, SetPhase
<1>3. \A b \in Conns : conn'[b].key = conn[b].key
  BY DEF SocketTypeOK, SetPhase
<1>4. conn' \in [Conns -> [phase : Phases, key : Keys \cup {NoKey}]]
  BY DEF SocketTypeOK, SetPhase
<1> QED BY <1>2, <1>3, <1>4 DEF ConnsKeyed, SocketTypeOK

LEMMA UnmountType ==
  ASSUME SocketTypeOK, NEW ks \in SUBSET Keys, NEW frame \in Seq(Frames),
         Unmount(ks, frame)
  PROVE  /\ view' \in [Keys -> Conns \cup {NoConn}]
         /\ wire' \in [Conns -> Seq(Frames)]
         /\ conn' \in [Conns -> [phase : Phases, key : Keys \cup {NoKey}]]
         /\ ConnsKeyed'
<1>1. view' \in [Keys -> Conns \cup {NoConn}]
  BY DEF SocketTypeOK, Unmount
<1>2. wire' \in [Conns -> Seq(Frames)]
  <2>1. <<"fin">> \in Seq(Frames) /\ << >> \in Seq(Frames)
    BY DEF Frames
  <2>2. \A c \in Conns : wire[c] \in Seq(Frames)
    BY DEF SocketTypeOK
  <2>3. ASSUME NEW c \in Conns
        PROVE  wire[c] \o (IF c \in opened THEN frame ELSE << >>) \o <<"fin">> \in Seq(Frames)
    <3>1. (IF c \in opened THEN frame ELSE << >>) \in Seq(Frames)
      BY <2>1
    <3> QED BY <2>1, <2>2, <3>1
  <2>4. wire' = [c \in Conns |-> wire'[c]]
    BY DEF Unmount
  <2>5. ASSUME NEW c \in Conns PROVE wire'[c] \in Seq(Frames)
    <3>1. \/ wire'[c] = wire[c]
          \/ wire'[c] = wire[c] \o (IF c \in opened THEN frame ELSE << >>) \o <<"fin">>
      BY DEF Unmount
    <3> QED BY <2>2, <2>3, <3>1
  <2> QED BY <2>4, <2>5
<1>3. \A c \in Conns : \/ conn'[c] = conn[c]
                       \/ conn[c].phase = "connecting" /\ conn'[c] = [conn[c] EXCEPT !.phase = "closed"]
  <2> DEFINE leaving == {view[k] : k \in ks} \cap Conns
  <2>1. conn' = [c \in Conns |-> IF c \in leaving /\ InPhase(c, {"connecting"})
                                 THEN [conn[c] EXCEPT !.phase = "closed"] ELSE conn[c]]
    BY DEF Unmount
  <2> HIDE DEF leaving
  <2> SUFFICES ASSUME NEW c \in Conns
               PROVE \/ conn'[c] = conn[c]
                     \/ conn[c].phase = "connecting" /\ conn'[c] = [conn[c] EXCEPT !.phase = "closed"]
    OBVIOUS
  <2> QED BY <2>1 DEF InPhase
<1>4. conn' \in [Conns -> [phase : Phases, key : Keys \cup {NoKey}]]
  <2>1. ASSUME NEW c \in Conns
        PROVE  conn'[c] \in [phase : Phases, key : Keys \cup {NoKey}]
    <3>1. conn[c] \in [phase : Phases, key : Keys \cup {NoKey}]
      BY DEF SocketTypeOK
    <3>2. [conn[c] EXCEPT !.phase = "closed"] \in [phase : Phases, key : Keys \cup {NoKey}]
      BY <3>1 DEF Phases
    <3> QED BY <1>3, <3>1, <3>2
  <2> QED BY <2>1 DEF Unmount
<1>5. ConnsKeyed'
  <2> SUFFICES ASSUME NEW c \in Conns, conn'[c].phase # "unused"
               PROVE  conn'[c].key \in Keys
    BY DEF ConnsKeyed
  <2>1. conn[c] \in [phase : Phases, key : Keys \cup {NoKey}]
    BY DEF SocketTypeOK
  <2>2. conn[c].phase # "unused" /\ conn'[c].key = conn[c].key
    BY <1>3, <2>1
  <2> QED BY <2>2 DEF SocketTypeOK, ConnsKeyed
<1> QED BY <1>1, <1>2, <1>4, <1>5

\* Every step keeps the types.
LEMMA TypedNext == Typed /\ [Next]_vars => Typed'
<1> SUFFICES ASSUME Typed, [Next]_vars PROVE ManagerTypeOK' /\ SocketTypeOK'
  BY DEF Typed, Types, ManagerTypeOK, SocketTypeOK
<1>0. ManagerTypeOK /\ SocketTypeOK
  BY TypedParts
<1>a. ASSUME UNCHANGED manager PROVE ManagerTypeOK'
  BY <1>0, <1>a DEF ManagerTypeOK, manager
<1>b. ASSUME NEW c \in Conns, conn[c].phase # "unused" PROVE conn[c].key \in Keys
  BY <1>0, <1>b DEF SocketTypeOK, ConnsKeyed
<1>1. CASE UNCHANGED vars
  BY <1>0, <1>1, <1>a DEF vars, browser, SocketTypeOK, ConnsKeyed
<1>2. ASSUME NEW c \in Conns, Upgrade(c) PROVE ManagerTypeOK' /\ SocketTypeOK'
  <2>1. conn[c].phase # "unused" /\ "resolving" \in Phases \ {"unused"}
    BY <1>2 DEF Upgrade, InPhase, Phases
  <2> QED BY <1>0, <1>2, <1>a, <2>1, SetPhaseType DEF Upgrade, SocketTypeOK, browser
<1>3. ASSUME NEW c \in Conns, Attach(c) PROVE ManagerTypeOK' /\ SocketTypeOK'
  <2>1. conn[c].phase # "unused"
    BY <1>3 DEF Attach, InPhase
  <2>2. ManagerTypeOK'
    BY <1>0, <1>3, <1>b, <2>1, OpenType DEF Attach
  <2>3. (IF InPhase(c, {"hungUp"}) THEN "deaf" ELSE "attached") \in Phases \ {"unused"}
    BY DEF Phases
  <2>4. /\ conn' \in [Conns -> [phase : Phases, key : Keys \cup {NoKey}]]
        /\ ConnsKeyed'
    BY <1>0, <1>3, <2>1, <2>3, SetPhaseType DEF Attach
  <2> QED BY <1>0, <1>3, <2>2, <2>4 DEF Attach, SocketTypeOK, browser
<1>4. ASSUME NEW c \in Conns, Refuse(c) PROVE ManagerTypeOK' /\ SocketTypeOK'
  <2>1. conn[c].phase # "unused" /\ "closed" \in Phases \ {"unused"}
    BY <1>4 DEF Refuse, InPhase, Phases
  <2>2. ManagerTypeOK'
    BY <1>0, <1>4, <1>a, <1>b, <2>1, OpenType DEF Refuse
  <2>3. /\ conn' \in [Conns -> [phase : Phases, key : Keys \cup {NoKey}]]
        /\ ConnsKeyed'
    BY <1>0, <1>4, <2>1, SetPhaseType DEF Refuse
  <2>4. wire' \in [Conns -> Seq(Frames)]
    <3>1. << >> \in Seq(Frames)
      OBVIOUS
    <3> QED BY <1>0, <1>4, <3>1 DEF Refuse, SocketTypeOK
  <2>5. view' \in [Keys -> Conns \cup {NoConn}]
    BY <1>0, <1>4 DEF Refuse, SocketTypeOK
  <2> QED BY <1>0, <1>4, <2>2, <2>3, <2>4, <2>5 DEF Refuse, SocketTypeOK
<1>c. ASSUME NEW c \in Conns, wire[c] # << >>
      PROVE  [wire EXCEPT ![c] = Tail(@)] \in [Conns -> Seq(Frames)]
  <2>1. wire[c] \in Seq(Frames)
    BY <1>0 DEF SocketTypeOK
  <2>2. Tail(wire[c]) \in Seq(Frames)
    BY <1>c, <2>1
  <2> QED BY <1>0, <2>2 DEF SocketTypeOK
<1>5. ASSUME NEW c \in Conns, DeliverUnheard(c) PROVE ManagerTypeOK' /\ SocketTypeOK'
  <2>1. conn[c].phase # "unused"
    BY <1>5 DEF DeliverUnheard, InPhase
  <2>2. (IF Head(wire[c]) = "fin" THEN "hungUp" ELSE "resolving") \in Phases \ {"unused"}
    BY DEF Phases
  <2>3. /\ conn' \in [Conns -> [phase : Phases, key : Keys \cup {NoKey}]]
        /\ ConnsKeyed'
    BY <1>0, <1>5, <2>1, <2>2, SetPhaseType DEF DeliverUnheard
  <2>4. wire' \in [Conns -> Seq(Frames)]
    BY <1>5, <1>c DEF DeliverUnheard
  <2> QED BY <1>0, <1>5, <1>a, <2>3, <2>4 DEF DeliverUnheard, SocketTypeOK, browser
<1>6. ASSUME NEW c \in Conns, DeliverControl(c) PROVE ManagerTypeOK' /\ SocketTypeOK'
  <2>1. conn[c].phase # "unused"
    BY <1>6 DEF DeliverControl, InPhase
  <2>2. ManagerTypeOK'
    BY <1>0, <1>6, <1>b, <2>1, MarkType DEF DeliverControl
  <2>3. wire' \in [Conns -> Seq(Frames)]
    BY <1>6, <1>c DEF DeliverControl
  <2> QED BY <1>0, <1>6, <2>2, <2>3 DEF DeliverControl, SocketTypeOK, browser, ConnsKeyed
<1>7. ASSUME NEW c \in Conns, SocketClosed(c) PROVE ManagerTypeOK' /\ SocketTypeOK'
  <2>1. conn[c].phase # "unused" /\ "closed" \in Phases \ {"unused"}
    BY <1>7 DEF SocketClosed, InPhase, Phases
  <2>2. ManagerTypeOK'
    BY <1>0, <1>7, <1>b, <2>1, MarkType DEF SocketClosed
  <2>3. /\ conn' \in [Conns -> [phase : Phases, key : Keys \cup {NoKey}]]
        /\ ConnsKeyed'
    BY <1>0, <1>7, <2>1, SetPhaseType DEF SocketClosed
  <2>4. wire' \in [Conns -> Seq(Frames)]
    <3>1. << >> \in Seq(Frames)
      OBVIOUS
    <3> QED BY <1>0, <1>7, <3>1 DEF SocketClosed, SocketTypeOK
  <2> QED BY <1>0, <1>7, <2>2, <2>3, <2>4 DEF SocketClosed, SocketTypeOK, browser
<1>8. ASSUME NEW k \in Keys, TimerFires(k) PROVE ManagerTypeOK' /\ SocketTypeOK'
  <2>1. ManagerTypeOK'
    BY <1>0, <1>8, CloseAllType DEF TimerFires
  <2> QED BY <1>0, <1>8, <2>1 DEF TimerFires, SocketTypeOK, browser, ConnsKeyed
<1>9. ASSUME NEW p \in Ptys, ProcessExits(p) PROVE ManagerTypeOK' /\ SocketTypeOK'
  <2>1. pty' \in [Ptys -> [cwd : Cwds \cup {NoCwd}, life : Lives]]
    BY <1>0, <1>9 DEF ProcessExits, ManagerTypeOK, Lives
  <2> QED BY <1>0, <1>9, <2>1 DEF ProcessExits, ManagerTypeOK, SocketTypeOK, browser, ConnsKeyed
<1>10. CASE Teardown
  <2>1. ManagerTypeOK'
    BY <1>0, <1>10, CloseAllType DEF Teardown
  <2>2. wire' \in [Conns -> Seq(Frames)]
    <3>1. \A c \in Conns : wire[c] \in Seq(Frames) /\ Append(wire[c], "fin") \in Seq(Frames)
      BY <1>0 DEF SocketTypeOK, Frames
    <3> QED BY <1>10, <3>1 DEF Teardown
  <2>3. \A c \in Conns : \/ conn'[c] = conn[c]
                         \/ conn[c].phase = "connecting" /\ conn'[c] = [conn[c] EXCEPT !.phase = "closed"]
    BY <1>10 DEF Teardown, InPhase
  <2>4. \A c \in Conns : /\ conn'[c] \in [phase : Phases, key : Keys \cup {NoKey}]
                         /\ conn'[c].phase # "unused" => conn'[c].key \in Keys
    <3> SUFFICES ASSUME NEW c \in Conns
                 PROVE /\ conn'[c] \in [phase : Phases, key : Keys \cup {NoKey}]
                       /\ conn'[c].phase # "unused" => conn'[c].key \in Keys
      OBVIOUS
    <3>1. conn[c] \in [phase : Phases, key : Keys \cup {NoKey}]
      BY <1>0 DEF SocketTypeOK
    <3>2. [conn[c] EXCEPT !.phase = "closed"] \in [phase : Phases, key : Keys \cup {NoKey}]
      BY <3>1 DEF Phases
    <3>3. conn'[c].key = conn[c].key /\ (conn'[c].phase # "unused" => conn[c].phase # "unused")
      BY <2>3, <3>1
    <3> QED BY <1>b, <2>3, <3>1, <3>2, <3>3
  <2>5. conn' \in [Conns -> [phase : Phases, key : Keys \cup {NoKey}]] /\ ConnsKeyed'
    BY <1>10, <2>4 DEF Teardown, ConnsKeyed
  <2> QED BY <1>0, <1>10, <2>1, <2>2, <2>5 DEF Teardown, SocketTypeOK, browser
<1>11. ASSUME NEW k \in Keys, OpenTab(k) PROVE ManagerTypeOK' /\ SocketTypeOK'
  BY <1>0, <1>11, <1>a DEF OpenTab, SocketTypeOK, ConnsKeyed
<1>12. ASSUME NEW k \in Keys, NEW c \in Conns, Mount(k, c) PROVE ManagerTypeOK' /\ SocketTypeOK'
  <2>1. conn' \in [Conns -> [phase : Phases, key : Keys \cup {NoKey}]]
    BY <1>0, <1>12 DEF Mount, SocketTypeOK, Phases
  <2>2. ConnsKeyed'
    BY <1>0, <1>12 DEF Mount, SocketTypeOK, ConnsKeyed
  <2> QED BY <1>0, <1>12, <1>a, <2>1, <2>2 DEF Mount, SocketTypeOK
<1>13. ASSUME NEW c \in Conns, SeeOpen(c) PROVE ManagerTypeOK' /\ SocketTypeOK'
  BY <1>0, <1>13, <1>a DEF SeeOpen, SocketTypeOK, ConnsKeyed
<1>d. <<"close">> \in Seq(Frames) /\ <<"park">> \in Seq(Frames) /\ << >> \in Seq(Frames)
  BY DEF Frames
<1>14. ASSUME NEW k \in Keys, CloseTab(k) PROVE ManagerTypeOK' /\ SocketTypeOK'
  BY <1>0, <1>14, <1>a, <1>d, UnmountType DEF CloseTab, SocketTypeOK
<1>15. ASSUME NEW s \in Sessions, SwitchTo(s) PROVE ManagerTypeOK' /\ SocketTypeOK'
  <2>1. {k \in Keys : view[k] # NoConn} \in SUBSET Keys
    OBVIOUS
  <2> QED BY <1>0, <1>15, <1>a, <1>d, <2>1, UnmountType DEF SwitchTo, SocketTypeOK
<1>16. ASSUME NEW k \in Keys, Drop(k) PROVE ManagerTypeOK' /\ SocketTypeOK'
  BY <1>0, <1>16, <1>a, <1>d, UnmountType DEF Drop, SocketTypeOK
<1> QED
  BY <1>1, <1>2, <1>3, <1>4, <1>5, <1>6, <1>7, <1>8, <1>9, <1>10, <1>11, <1>12, <1>13,
     <1>14, <1>15, <1>16 DEF Next, Browser, Host, Deliver, Resolve

\* Closing takes entries out and kills theirs: another entry is of another process.
LEMMA CloseAllAlive ==
  ASSUME Typed, EntriesAlive, NEW ks \in SUBSET Keys, CloseAll(ks)
  PROVE  EntriesAlive'
<1>1. \A k \in Keys : sessions'[k] = IF k \in ks THEN NoPty ELSE sessions[k]
  BY DEF CloseAll, SessionsWithout
<1>2. ASSUME NEW k \in Keys, sessions'[k] # NoPty
      PROVE  pty'[sessions'[k]].life \in {"running", "exited"}
  <2>1. k \notin ks /\ sessions'[k] = sessions[k] /\ sessions[k] \in Ptys
    BY <1>1, <1>2 DEF Typed, Types
  <2>2. ~\E j \in ks : sessions[j] = sessions[k]
    BY <1>2, <2>1 DEF EntriesAlive
  <2>3. pty'[sessions[k]] = pty[sessions[k]]
    BY <2>1, <2>2 DEF CloseAll, Killed
  <2> QED BY <1>2, <2>1, <2>3 DEF EntriesAlive
<1> QED BY <1>1, <1>2 DEF EntriesAlive

\* A process that open() starts was in no entry.
LEMMA OpenAlive ==
  ASSUME Typed, EntriesAlive, NEW k \in Keys, NEW d \in Cwds,
         \/ OpenReuses(k, d)
         \/ \E p \in Ptys : OpenSpawns(k, d, p)
         \/ OpenThrows(k, d)
  PROVE  EntriesAlive'
<1>1. CASE OpenReuses(k, d)
  BY <1>1 DEF OpenReuses, EntriesAlive
<1>2. ASSUME NEW p \in Ptys, OpenSpawns(k, d, p) PROVE EntriesAlive'
  <2> DEFINE gone == ClosedByOpen(k)
  <2>0. gone \subseteq Keys /\ p # NoPty
    BY ConstantsAssumption DEF ClosedByOpen
  <2>1. \A j \in Keys : sessions'[j] = IF j = k THEN p ELSE IF j \in gone THEN NoPty ELSE sessions[j]
    BY <1>2 DEF OpenSpawns, SessionsWithout, Typed, Types
  <2>2. \A j \in Keys : sessions[j] # p
    BY <1>2, <2>0 DEF OpenSpawns, EntriesAlive
  <2>3. pty' = [Killed(gone) EXCEPT ![p] = [cwd |-> d, life |-> "running"]]
    BY <1>2 DEF OpenSpawns
  <2>4. Killed(gone) =
          [q \in Ptys |-> IF pty[q].life = "running" /\ \E j \in gone : sessions[j] = q
                          THEN [pty[q] EXCEPT !.life = "killed"] ELSE pty[q]]
    BY DEF Killed
  <2> HIDE DEF gone
  <2>5. ASSUME NEW j \in Keys, sessions'[j] # NoPty
        PROVE  pty'[sessions'[j]].life \in {"running", "exited"}
    <3>1. CASE j = k
      <4>1. sessions'[j] = p
        BY <2>1, <3>1
      <4>2. pty'[p] = [cwd |-> d, life |-> "running"]
        BY <2>3, <2>4
      <4> QED BY <4>1, <4>2
    <3>2. CASE j # k
      <4>1. j \notin gone /\ sessions'[j] = sessions[j] /\ sessions[j] \in Ptys \ {p}
        BY <2>1, <2>2, <2>5, <3>2 DEF Typed, Types
      <4>2. ~\E i \in gone : sessions[i] = sessions[j]
        BY <2>0, <2>5, <4>1 DEF EntriesAlive
      <4>3. pty'[sessions[j]] = pty[sessions[j]]
        BY <2>3, <2>4, <4>1, <4>2
      <4> QED BY <2>5, <4>1, <4>3 DEF EntriesAlive
    <3> QED BY <3>1, <3>2
  <2> QED BY <2>1, <2>2, <2>5 DEF EntriesAlive
<1>3. CASE OpenThrows(k, d)
  <2>1. ClosedByOpen(k) \cup {k} \in SUBSET Keys
    BY DEF ClosedByOpen
  <2> QED BY <1>3, <2>1, CloseAllAlive DEF OpenThrows
<1> QED BY <1>1, <1>2, <1>3

\* Every step keeps the entries alive: it opens, closes, or leaves the table alone.
LEMMA AliveNext == Typed /\ EntriesAlive /\ [Next]_vars => EntriesAlive'
<1> SUFFICES ASSUME Typed, EntriesAlive, [Next]_vars PROVE EntriesAlive'
  OBVIOUS
<1>a. ASSUME sessions' = sessions, pty' = pty PROVE EntriesAlive'
  BY <1>a DEF EntriesAlive
<1>b. ASSUME NEW c \in Conns, conn[c].phase # "unused" PROVE conn[c].key \in Keys
  BY <1>b DEF Typed, ConnsKeyed
<1>1. CASE UNCHANGED vars
  BY <1>1, <1>a DEF vars, manager
<1>2. ASSUME NEW c \in Conns, Upgrade(c) \/ Resolve(c) \/ Deliver(c) PROVE EntriesAlive'
  <2>1. CASE Upgrade(c) \/ DeliverUnheard(c)
    BY <1>a, <2>1 DEF Upgrade, DeliverUnheard, manager
  <2>2. CASE Attach(c) \/ Refuse(c)
    <3>1. conn[c].key \in Keys
      BY <1>b, <2>2 DEF Attach, Refuse, InPhase
    <3> QED BY <1>a, <2>2, <3>1, OpenAlive DEF Attach, Refuse, manager
  <2>3. CASE DeliverControl(c) \/ SocketClosed(c)
    BY <1>a, <2>3 DEF DeliverControl, SocketClosed, ScheduleClose, Park, GraceAfterHangup, manager
  <2> QED BY <1>2, <2>1, <2>2, <2>3 DEF Resolve, Deliver
<1>3. ASSUME NEW k \in Keys, TimerFires(k) PROVE EntriesAlive'
  BY <1>3, CloseAllAlive DEF TimerFires
<1>4. ASSUME NEW p \in Ptys, ProcessExits(p) PROVE EntriesAlive'
  <2>1. sessions' = sessions /\ \A q \in Ptys : pty'[q] = pty[q] \/ pty'[q].life = "exited"
    BY <1>4 DEF ProcessExits, Typed, Types
  <2> QED BY <2>1 DEF EntriesAlive, Typed, Types
<1>5. CASE Teardown
  BY <1>5, CloseAllAlive DEF Teardown
<1>6. CASE Browser
  BY <1>6, <1>a DEF Browser, OpenTab, CloseTab, Drop, Mount, SeeOpen, SwitchTo, manager
<1> QED BY <1>1, <1>2, <1>3, <1>4, <1>5, <1>6 DEF Next, Host

\* Every variable keeps its type in every reachable state, and an entry of the
\* shell table is of one live process: however sockets hang up, reconnect and time
\* out, no reconnect attaches to a shell that close() has killed.
THEOREM TypeCorrect == Spec => []TypeOK
<1>1. Init => EntriesAlive
  BY DEF Init, EntriesAlive
<1>2. Typed /\ EntriesAlive => TypeOK
  BY DEF Typed, TypeOK
<1> QED BY <1>1, <1>2, TypedInit, TypedNext, AliveNext, PTL DEF Spec

-----------------------------------------------------------------------------
(* The shell table.  What an operation of the manager does to it is stated   *)
(* once, as TableStep: the steps of the system are such operations or leave  *)
(* the manager alone.                                                        *)

TableInv == MarksConsistent /\ NoStrayProcess /\ QuotaRespected

LEMMA QuotaShrinks ==
  ASSUME Typed, QuotaRespected, \A k \in Keys : sessions'[k] # NoPty => sessions[k] # NoPty
  PROVE  QuotaRespected'
<1> SUFFICES ASSUME NEW s \in Sessions PROVE Cardinality(KeysOf(s))' <= MaxPerSession
  BY DEF QuotaRespected
<1>1. KeysOf(s)' \subseteq KeysOf(s)
  BY DEF KeysOf, HasHandle
<1>2. IsFiniteSet(KeysOf(s))
  <2>1. IsFiniteSet(Keys)
    BY ConstantsAssumption, FS_Product DEF Keys
  <2> QED BY <2>1, FS_Subset DEF KeysOf
<1>3. Cardinality(KeysOf(s)') <= Cardinality(KeysOf(s))
  BY <1>1, <1>2, FS_Subset
<1>4. Cardinality(KeysOf(s)) <= MaxPerSession
  BY DEF QuotaRespected
<1>5. /\ Cardinality(KeysOf(s)) \in Nat /\ Cardinality(KeysOf(s)') \in Nat
      /\ MaxPerSession \in Nat
  BY <1>1, <1>2, FS_Subset, FS_CardinalityType, ConstantsAssumption
<1> QED BY <1>3, <1>4, <1>5

\* Closing keys keeps the table consistent: what leaves it is killed.
LEMMA CloseAllInv ==
  ASSUME Typed, TableInv, NEW ks \in SUBSET Keys, CloseAll(ks)
  PROVE  TableInv'
<1>1. \A k \in Keys : sessions'[k] = IF k \in ks THEN NoPty ELSE sessions[k]
  BY DEF CloseAll, SessionsWithout
<1>2. \A k \in Keys : pendingCloses'[k] = IF k \in ks THEN "none" ELSE pendingCloses[k]
  BY DEF CloseAll, TimersWithout
<1>3. MarksConsistent'
  BY <1>1, <1>2 DEF TableInv, MarksConsistent, HasHandle, CloseAll, Typed, Types
<1>4. NoStrayProcess'
  <2> SUFFICES ASSUME NEW p \in Ptys, pty'[p].life = "running"
               PROVE \E k \in Keys : sessions'[k] = p
    BY DEF NoStrayProcess
  <2>1. pty' = [q \in Ptys |-> IF pty[q].life = "running" /\ \E k \in ks : sessions[k] = q
                               THEN [pty[q] EXCEPT !.life = "killed"] ELSE pty[q]]
    BY DEF CloseAll, Killed
  <2>2. pty[p] \in [cwd : Cwds \cup {NoCwd}, life : Lives]
    BY DEF Typed, Types
  <2>3. pty[p].life = "running" /\ ~\E k \in ks : sessions[k] = p
    BY <2>1, <2>2
  <2> QED BY <1>1, <2>3 DEF TableInv, NoStrayProcess
<1>5. QuotaRespected'
  BY <1>1, QuotaShrinks DEF TableInv
<1> QED BY <1>3, <1>4, <1>5 DEF TableInv

\* A timer or a parked mark is set for a handle only, and never both.
LEMMA MarkInv ==
  ASSUME Typed, TableInv, NEW k \in Keys,
         \/ \E delay \in {"now", "grace"} : ScheduleClose(k, delay)
         \/ Park(k)
         \/ GraceAfterHangup(k)
  PROVE  TableInv'
<1>1. sessions' = sessions /\ pty' = pty
  BY DEF ScheduleClose, Park, GraceAfterHangup, manager
<1>2. MarksConsistent'
  BY <1>1 DEF TableInv, MarksConsistent, HasHandle, Typed, Types, ScheduleClose, Park,
              GraceAfterHangup, manager
<1>3. NoStrayProcess'
  BY <1>1 DEF TableInv, NoStrayProcess
<1>4. QuotaRespected'
  BY <1>1, QuotaShrinks DEF TableInv
<1> QED BY <1>2, <1>3, <1>4 DEF TableInv

\* open(): the cap is tested on what remains after the closes, then one is added.
LEMMA OpenSpawnsInv ==
  ASSUME Typed, TableInv, NEW k \in Keys, NEW d \in Cwds, NEW p \in Ptys, OpenSpawns(k, d, p)
  PROVE  TableInv'
<1> DEFINE gone == ClosedByOpen(k)
<1>0. gone \subseteq Keys /\ (HasHandle(k) => k \in gone)
  BY DEF ClosedByOpen
<1>1. \A j \in Keys : sessions'[j] = IF j = k THEN p ELSE IF j \in gone THEN NoPty ELSE sessions[j]
  BY DEF OpenSpawns, SessionsWithout
<1>2. /\ \A j \in Keys : pendingCloses'[j] = IF j \in gone \cup {k} THEN "none" ELSE pendingCloses[j]
      /\ parked' = parked \ (gone \cup {k})
  BY DEF OpenSpawns, TimersWithout
<1>3. p # NoPty
  BY ConstantsAssumption
<1>4. MarksConsistent'
  <2> HIDE DEF gone
  <2> QED BY <1>1, <1>2, <1>3 DEF TableInv, MarksConsistent, HasHandle, Typed, Types
<1>5. NoStrayProcess'
  <2> SUFFICES ASSUME NEW q \in Ptys, pty'[q].life = "running", q # p
               PROVE \E j \in Keys : sessions'[j] = q
    BY <1>1 DEF NoStrayProcess
  <2>1. pty'[q] = IF pty[q].life = "running" /\ \E j \in gone : sessions[j] = q
                  THEN [pty[q] EXCEPT !.life = "killed"] ELSE pty[q]
    BY DEF OpenSpawns, Killed
  <2>2. pty[q] \in [cwd : Cwds \cup {NoCwd}, life : Lives]
    BY DEF Typed, Types
  <2>3. pty[q].life = "running" /\ ~\E j \in gone : sessions[j] = q
    <3> HIDE DEF gone
    <3> QED BY <2>1, <2>2
  <2>4. PICK j \in Keys : sessions[j] = q
    BY <2>3 DEF TableInv, NoStrayProcess
  <2>5. q # NoPty
    BY ConstantsAssumption
  <2>6. j \notin gone /\ j # k
    BY <1>0, <2>3, <2>4, <2>5 DEF HasHandle
  <2> QED BY <1>1, <2>4, <2>6
<1>6. QuotaRespected'
  <2> SUFFICES ASSUME NEW s \in Sessions PROVE Cardinality(KeysOf(s)') <= MaxPerSession
    BY DEF QuotaRespected
  <2>1. IsFiniteSet(KeysOf(s)) /\ Cardinality(KeysOf(s)) \in Nat
    <3>1. IsFiniteSet(Keys)
      BY ConstantsAssumption, FS_Product DEF Keys
    <3>2. KeysOf(s) \subseteq Keys
      BY DEF KeysOf
    <3> QED BY <3>1, <3>2, FS_Subset, FS_CardinalityType
  <2>2. CASE s = SessionOf(k)
    <3> DEFINE rest == KeysOf(s) \ gone
    <3>1. KeysOf(s)' \subseteq rest \cup {k}
      BY <1>1 DEF KeysOf, HasHandle
    <3>2. IsFiniteSet(rest) /\ Cardinality(rest) \in Nat
      BY <2>1, FS_Subset, FS_CardinalityType
    <3>3. Cardinality(rest) < MaxPerSession
      BY <2>2, <3>2, ConstantsAssumption DEF OpenSpawns, LimitReached
    <3>4. IsFiniteSet(rest \cup {k}) /\ Cardinality(rest \cup {k}) <= Cardinality(rest) + 1
      <4> HIDE DEF rest
      <4>1. /\ IsFiniteSet(rest \cup {k})
            /\ Cardinality(rest \cup {k}) = IF k \in rest THEN Cardinality(rest) ELSE Cardinality(rest) + 1
        BY <3>2, FS_AddElement
      <4> QED BY <3>2, <4>1
    <3>5. /\ Cardinality(KeysOf(s)') <= Cardinality(rest \cup {k})
          /\ Cardinality(KeysOf(s)') \in Nat /\ Cardinality(rest \cup {k}) \in Nat
      <4> HIDE DEF rest
      <4> QED BY <3>1, <3>4, FS_Subset, FS_CardinalityType
    <3> HIDE DEF rest
    <3> QED BY <3>2, <3>3, <3>4, <3>5, ConstantsAssumption
  <2>3. CASE s # SessionOf(k)
    <3>1. KeysOf(s)' \subseteq KeysOf(s)
      BY <1>1, <2>3 DEF KeysOf, HasHandle
    <3>2. /\ Cardinality(KeysOf(s)') <= Cardinality(KeysOf(s))
          /\ Cardinality(KeysOf(s)') \in Nat
      BY <2>1, <3>1, FS_Subset, FS_CardinalityType
    <3>3. Cardinality(KeysOf(s)) <= MaxPerSession
      BY DEF TableInv, QuotaRespected
    <3> QED BY <2>1, <3>2, <3>3, ConstantsAssumption
  <2> QED BY <2>2, <2>3
<1> QED BY <1>4, <1>5, <1>6 DEF TableInv

LEMMA OpenInv ==
  ASSUME Typed, TableInv, NEW k \in Keys, NEW d \in Cwds,
         \/ OpenReuses(k, d)
         \/ \E p \in Ptys : OpenSpawns(k, d, p)
         \/ OpenThrows(k, d)
  PROVE  TableInv'
<1>1. CASE OpenReuses(k, d)
  <2>1. sessions' = sessions /\ pty' = pty
    BY <1>1 DEF OpenReuses
  <2>2. MarksConsistent'
    BY <1>1, <2>1 DEF OpenReuses, TimersWithout, TableInv, MarksConsistent, HasHandle, Typed, Types
  <2>3. NoStrayProcess'
    BY <2>1 DEF TableInv, NoStrayProcess
  <2>4. QuotaRespected'
    BY <2>1, QuotaShrinks DEF TableInv
  <2> QED BY <2>2, <2>3, <2>4 DEF TableInv
<1>2. CASE \E p \in Ptys : OpenSpawns(k, d, p)
  BY <1>2, OpenSpawnsInv
<1>3. CASE OpenThrows(k, d)
  <2>1. ClosedByOpen(k) \cup {k} \in SUBSET Keys
    BY DEF ClosedByOpen
  <2> QED BY <1>3, <2>1, CloseAllInv DEF OpenThrows
<1> QED BY <1>1, <1>2, <1>3

LEMMA TableInvNext == Typed /\ TableInv /\ [Next]_vars => TableInv'
<1> SUFFICES ASSUME Typed, TableInv, [Next]_vars PROVE TableInv'
  OBVIOUS
<1>a. ASSUME UNCHANGED manager PROVE TableInv'
  <2>1. sessions' = sessions /\ pendingCloses' = pendingCloses /\ parked' = parked /\ pty' = pty
    BY <1>a DEF manager
  <2>2. MarksConsistent' /\ NoStrayProcess'
    BY <2>1 DEF TableInv, MarksConsistent, HasHandle, NoStrayProcess
  <2>3. QuotaRespected'
    BY <2>1, QuotaShrinks DEF TableInv
  <2> QED BY <2>2, <2>3 DEF TableInv
<1>b. ASSUME NEW c \in Conns, conn[c].phase # "unused" PROVE conn[c].key \in Keys
  BY <1>b DEF Typed, ConnsKeyed
<1>1. CASE UNCHANGED vars
  BY <1>1, <1>a DEF vars
<1>2. ASSUME NEW c \in Conns, Upgrade(c) \/ Resolve(c) \/ Deliver(c) PROVE TableInv'
  <2>1. CASE Upgrade(c) \/ DeliverUnheard(c)
    BY <1>a, <2>1 DEF Upgrade, DeliverUnheard
  <2>2. CASE Attach(c) \/ Refuse(c)
    <3>1. conn[c].key \in Keys
      BY <1>b, <2>2 DEF Attach, Refuse, InPhase
    <3> QED BY <1>a, <2>2, <3>1, OpenInv DEF Attach, Refuse
  <2>3. CASE DeliverControl(c) \/ SocketClosed(c)
    <3>1. conn[c].key \in Keys
      BY <1>b, <2>3 DEF DeliverControl, SocketClosed, InPhase
    <3> QED BY <2>3, <3>1, MarkInv DEF DeliverControl, SocketClosed
  <2> QED BY <1>2, <2>1, <2>2, <2>3 DEF Resolve, Deliver
<1>3. ASSUME NEW k \in Keys, TimerFires(k) PROVE TableInv'
  BY <1>3, CloseAllInv DEF TimerFires
<1>4. ASSUME NEW p \in Ptys, ProcessExits(p) PROVE TableInv'
  <2>1. sessions' = sessions /\ pendingCloses' = pendingCloses /\ parked' = parked
    BY <1>4 DEF ProcessExits
  <2>2. MarksConsistent'
    BY <2>1 DEF TableInv, MarksConsistent, HasHandle
  <2>3. \A q \in Ptys : pty'[q].life = "running" => pty[q].life = "running"
    BY <1>4 DEF ProcessExits, Typed, Types
  <2>4. NoStrayProcess'
    BY <2>1, <2>3 DEF TableInv, NoStrayProcess
  <2>5. QuotaRespected'
    BY <2>1, QuotaShrinks DEF TableInv
  <2> QED BY <2>2, <2>4, <2>5 DEF TableInv
<1>5. CASE Teardown
  BY <1>5, CloseAllInv DEF Teardown
<1>6. CASE Browser
  BY <1>6, <1>a DEF Browser, OpenTab, CloseTab, Drop, Mount, SeeOpen, SwitchTo
<1> QED BY <1>1, <1>2, <1>3, <1>4, <1>5, <1>6 DEF Next, Host

LEMMA TableInvInit == Init => TableInv
<1> SUFFICES ASSUME Init PROVE TableInv
  OBVIOUS
<1>1. \A k \in Keys : ~HasHandle(k)
  BY DEF Init, HasHandle
<1>2. MarksConsistent /\ NoStrayProcess
  BY DEF Init, MarksConsistent, NoStrayProcess
<1>3. QuotaRespected
  <2> SUFFICES ASSUME NEW s \in Sessions PROVE Cardinality(KeysOf(s)) <= MaxPerSession
    BY DEF QuotaRespected
  <2>1. KeysOf(s) = {}
    BY <1>1 DEF KeysOf
  <2> QED BY <2>1, FS_EmptySet, ConstantsAssumption
<1> QED BY <1>2, <1>3 DEF TableInv

LEMMA TableCorrect == Spec => [](Typed /\ TableInv)
BY TypedInit, TypedNext, TableInvInit, TableInvNext, PTL DEF Spec

\* However sockets hang up, reconnect and time out, no shell runs outside the
\* table (close, respawn, zombie cleanup and disposeAll all kill what they drop).
THEOREM NoStrayProcessHolds == Spec => []NoStrayProcess
BY TableCorrect, PTL DEF TableInv

\* The per-conversation cap of PtyManager.open holds in every reachable state.
THEOREM QuotaHolds == Spec => []QuotaRespected
BY TableCorrect, PTL DEF TableInv

\* Close timers and parked marks are about handles, and exclude each other.
THEOREM MarksHold == Spec => []MarksConsistent
BY TableCorrect, PTL DEF TableInv

-----------------------------------------------------------------------------
(* A parked shell. *)

LEMMA KeepsParkedNext ==
  ASSUME Typed, TableInv, [Next]_vars, NEW k \in parked
  PROVE  KeepsParked(k)
<1>0. k \in Keys /\ HasHandle(k) /\ pendingCloses[k] = "none"
  BY DEF Typed, Types, TableInv, MarksConsistent
<1>a. ASSUME UNCHANGED manager PROVE KeepsParked(k)
  BY <1>a DEF KeepsParked, manager
<1>b. ASSUME NEW c \in Conns PROVE conn[c] \in [phase : Phases, key : Keys \cup {NoKey}]
  BY DEF Typed, Types
<1>1. CASE UNCHANGED vars
  BY <1>1, <1>a DEF vars
<1>2. ASSUME NEW c \in Conns, Upgrade(c) \/ DeliverUnheard(c) PROVE KeepsParked(k)
  BY <1>2, <1>a DEF Upgrade, DeliverUnheard
<1>3. ASSUME NEW c \in Conns, Attach(c) \/ Refuse(c) PROVE KeepsParked(k)
  <2>1. CASE conn[c].key = k
    <3>1. InPhase(c, {"resolving", "hungUp"})
      BY <1>3 DEF Attach, Refuse
    <3>2. conn'[c].phase \in {"deaf", "attached", "closed"}
      BY <1>3, <1>b DEF Attach, Refuse, SetPhase, Typed, Types
    <3>3. conn'[c] # conn[c]
      BY <3>1, <3>2 DEF InPhase
    <3> QED BY <2>1, <3>1, <3>3 DEF KeepsParked
  <2>2. CASE conn[c].key # k
    <3>1. CASE UNCHANGED manager
      BY <1>a, <3>1
    <3>2. ASSUME NEW d \in Cwds, OpenReuses(conn[c].key, d) PROVE KeepsParked(k)
      BY <2>2, <3>2 DEF OpenReuses, KeepsParked
    <3>3. ASSUME ~Exited(k) PROVE k \notin ClosedByOpen(conn[c].key) \cup {conn[c].key}
      BY <2>2, <3>3 DEF ClosedByOpen
    <3>4. ASSUME NEW d \in Cwds, NEW p \in Ptys, OpenSpawns(conn[c].key, d, p)
          PROVE  KeepsParked(k)
      BY <1>0, <2>2, <3>3, <3>4 DEF OpenSpawns, SessionsWithout, KeepsParked, Typed, Types
    <3>5. ASSUME NEW d \in Cwds, OpenThrows(conn[c].key, d) PROVE KeepsParked(k)
      BY <1>0, <3>3, <3>5 DEF OpenThrows, CloseAll, SessionsWithout, KeepsParked
    <3> QED BY <1>3, <3>1, <3>2, <3>4, <3>5 DEF Attach, Refuse
  <2> QED BY <2>1, <2>2
<1>4. ASSUME NEW c \in Conns, DeliverControl(c) PROVE KeepsParked(k)
  <2>1. CASE conn[c].key # k
    BY <1>4, <2>1, <1>a DEF DeliverControl, ScheduleClose, Park, KeepsParked
  <2>2. CASE conn[c].key = k /\ Head(wire[c]) = "close"
    BY <1>4, <2>2 DEF DeliverControl, KeepsParked, Typed, Types
  <2>3. CASE conn[c].key = k /\ Head(wire[c]) # "close"
    BY <1>4, <2>3, <1>a DEF DeliverControl, Park, KeepsParked
  <2> QED BY <2>1, <2>2, <2>3
<1>5. ASSUME NEW c \in Conns, SocketClosed(c) PROVE KeepsParked(k)
  BY <1>5, <1>a DEF SocketClosed, GraceAfterHangup, ScheduleClose, KeepsParked
<1>6. ASSUME NEW j \in Keys, TimerFires(j) PROVE KeepsParked(k)
  <2>1. j # k
    BY <1>0, <1>6 DEF TimerFires
  <2> QED BY <1>0, <1>6, <2>1 DEF TimerFires, CloseAll, SessionsWithout, KeepsParked
<1>7. ASSUME NEW p \in Ptys, ProcessExits(p) PROVE KeepsParked(k)
  BY <1>7 DEF ProcessExits, KeepsParked
<1>8. CASE Teardown
  BY <1>8 DEF Teardown, KeepsParked
<1>9. CASE Browser
  BY <1>9, <1>a DEF Browser, OpenTab, CloseTab, Drop, Mount, SeeOpen, SwitchTo
<1> QED BY <1>1, <1>2, <1>3, <1>4, <1>5, <1>6, <1>7, <1>8, <1>9 DEF Next, Host, Deliver, Resolve

\* Nothing but a reconnect, a close frame, the shell's own end or teardown
\* takes a parked shell out of the table or out of the parked set.
THEOREM ParkedSurvivesHolds == Spec => ParkedSurvives
<1>1. Typed /\ TableInv /\ [Next]_vars => [\A k \in parked : KeepsParked(k)]_vars
  BY KeepsParkedNext
<1> QED BY <1>1, TableCorrect, PTL DEF Spec, ParkedSurvives

-----------------------------------------------------------------------------
(* A reconnect cancels the countdown (without late hangups).                 *)

\* A key has one socket the host may still listen to, and a socket under way
\* is hung up by its last frame.
Listening == {"connecting", "resolving", "attached", "hungUp"}

OneListener ==
  \A b, c \in Conns :
    InPhase(b, Listening) /\ InPhase(c, Listening) /\ conn[b].key = conn[c].key => b = c

EndsInHangup == \A c \in Conns : wire[c] # << >> => wire[c][Len(wire[c])] = "fin"

\* A step that mounts no view leaves every socket its key and wakes none.
LEMMA OneListenerKept ==
  ASSUME OneListener,
         \A c \in Conns : conn'[c].phase \in Listening =>
           conn[c].phase \in Listening /\ conn'[c].key = conn[c].key
  PROVE  OneListener'
BY DEF OneListener, InPhase

LEMMA OneListenerNext ==
  ASSUME Typed, OneListener, LateHangup = FALSE, [Next]_vars
  PROVE  OneListener'
<1>0. conn \in [Conns -> [phase : Phases, key : Keys \cup {NoKey}]]
  BY DEF Typed, Types
<1>1. ASSUME NEW k \in Keys, NEW c \in Conns, Mount(k, c) PROVE OneListener'
  <2>1. \A b \in Conns \ {c} : conn[b].key = k => ~InPhase(b, Listening)
    BY <1>1 DEF Mount, OnlySocketOf, InPhase, Listening
  <2>2. conn'[c].key = k /\ \A b \in Conns \ {c} : conn'[b] = conn[b]
    BY <1>0, <1>1 DEF Mount
  <2> QED BY <2>1, <2>2 DEF OneListener, InPhase
<1>2. ASSUME NEW c \in Conns, NEW ph \in Phases, SetPhase(c, ph),
             ph \in Listening => conn[c].phase \in Listening
      PROVE  OneListener'
  BY <1>0, <1>2, OneListenerKept DEF SetPhase
<1>3. ASSUME NEW c \in Conns, Upgrade(c) PROVE OneListener'
  BY <1>2, <1>3 DEF Upgrade, InPhase, Listening, Phases
<1>4. ASSUME NEW c \in Conns, Attach(c) \/ Refuse(c) PROVE OneListener'
  BY <1>2, <1>4 DEF Attach, Refuse, InPhase, Listening, Phases
<1>5. ASSUME NEW c \in Conns, DeliverUnheard(c) \/ SocketClosed(c) PROVE OneListener'
  BY <1>2, <1>5 DEF DeliverUnheard, SocketClosed, InPhase, Listening, Phases
<1>6. ASSUME UNCHANGED conn PROVE OneListener'
  BY <1>6, OneListenerKept
<1>7. CASE \E c \in Conns : DeliverControl(c) \/ SeeOpen(c)
  BY <1>6, <1>7 DEF DeliverControl, SeeOpen
<1>8. CASE \/ \E k \in Keys : TimerFires(k) \/ OpenTab(k)
           \/ \E p \in Ptys : ProcessExits(p)
           \/ UNCHANGED vars
  BY <1>6, <1>8 DEF TimerFires, OpenTab, ProcessExits, vars
<1>9. CASE Teardown
  BY <1>0, <1>9, OneListenerKept DEF Teardown, Listening
<1>10. ASSUME NEW ks, NEW frame, Unmount(ks, frame) PROVE OneListener'
  <2> DEFINE left == {view[k] : k \in ks} \cap Conns
  <2>1. conn' = [c \in Conns |-> IF c \in left /\ InPhase(c, {"connecting"})
                                 THEN [conn[c] EXCEPT !.phase = "closed"] ELSE conn[c]]
    BY <1>10 DEF Unmount
  <2> HIDE DEF left
  <2> QED BY <1>0, <2>1, OneListenerKept DEF Listening
<1>11. CASE \/ \E k \in Keys : CloseTab(k) \/ Drop(k)
            \/ \E s \in Sessions : SwitchTo(s)
  BY <1>10, <1>11 DEF CloseTab, Drop, SwitchTo
<1> QED
  BY <1>1, <1>3, <1>4, <1>5, <1>7, <1>8, <1>9, <1>11 DEF Next, Browser, Host, Deliver, Resolve

LEMMA EndsInHangupNext ==
  ASSUME Typed, EndsInHangup, [Next]_vars
  PROVE  EndsInHangup'
<1>0. wire \in [Conns -> Seq(Frames)]
  BY DEF Typed, Types
<1>1. ASSUME NEW c \in Conns, wire[c] # << >>, wire' = [wire EXCEPT ![c] = Tail(@)]
      PROVE  EndsInHangup'
  <2>1. wire[c] \in Seq(Frames) /\ \A b \in Conns \ {c} : wire'[b] = wire[b]
    BY <1>0, <1>1
  <2>2. Tail(wire[c]) # << >> =>
          Tail(wire[c])[Len(Tail(wire[c]))] = wire[c][Len(wire[c])]
    BY <1>1, <2>1
  <2>3. wire'[c] = Tail(wire[c])
    BY <1>0, <1>1
  <2> QED BY <1>1, <2>1, <2>2, <2>3 DEF EndsInHangup
<1>2. ASSUME NEW c \in Conns, wire' = [wire EXCEPT ![c] = << >>] PROVE EndsInHangup'
  BY <1>0, <1>2 DEF EndsInHangup
<1>3. ASSUME UNCHANGED wire PROVE EndsInHangup'
  BY <1>3 DEF EndsInHangup
<1>4. ASSUME NEW s \in Seq(Frames)
      PROVE  Append(s, "fin")[Len(Append(s, "fin"))] = "fin"
  BY <1>4 DEF Frames
<1>5. CASE Teardown
  <2>1. ASSUME NEW c \in Conns PROVE wire'[c] = wire[c] \/ wire'[c] = Append(wire[c], "fin")
    BY <1>5 DEF Teardown
  <2> QED BY <1>0, <1>4, <2>1 DEF EndsInHangup
<1>6. ASSUME NEW ks, NEW frame \in Seq(Frames), Unmount(ks, frame) PROVE EndsInHangup'
  <2>1. ASSUME NEW c \in Conns
        PROVE  \/ wire'[c] = wire[c]
               \/ \E s \in Seq(Frames) : wire'[c] = s \o <<"fin">>
    <3> DEFINE said == IF c \in opened THEN frame ELSE << >>
    <3>1. wire'[c] = wire[c] \/ wire'[c] = (wire[c] \o said) \o <<"fin">>
      BY <1>6 DEF Unmount
    <3>2. wire[c] \in Seq(Frames) /\ said \in Seq(Frames)
      BY <1>0
    <3> HIDE DEF said
    <3>3. wire[c] \o said \in Seq(Frames)
      BY <3>2
    <3> QED BY <3>1, <3>3
  <2>2. ASSUME NEW s \in Seq(Frames) PROVE (s \o <<"fin">>)[Len(s \o <<"fin">>)] = "fin"
    BY <2>2 DEF Frames
  <2> QED BY <2>1, <2>2 DEF EndsInHangup
<1>7. <<"close">> \in Seq(Frames) /\ <<"park">> \in Seq(Frames) /\ << >> \in Seq(Frames)
  BY DEF Frames
<1>8. CASE \/ \E k \in Keys : CloseTab(k) \/ Drop(k)
           \/ \E s \in Sessions : SwitchTo(s)
  BY <1>6, <1>7, <1>8 DEF CloseTab, Drop, SwitchTo
<1>9. CASE \E c \in Conns : Upgrade(c) \/ Attach(c) \/ SeeOpen(c)
  BY <1>3, <1>9 DEF Upgrade, Attach, SeeOpen
<1>10. CASE \E c \in Conns : Refuse(c) \/ SocketClosed(c)
  BY <1>2, <1>10 DEF Refuse, SocketClosed
<1>11. CASE \E c \in Conns : DeliverUnheard(c) \/ DeliverControl(c)
  BY <1>1, <1>11 DEF DeliverUnheard, DeliverControl
<1>12. CASE \/ \E k \in Keys : TimerFires(k) \/ OpenTab(k) \/ \E c \in Conns : Mount(k, c)
            \/ \E p \in Ptys : ProcessExits(p)
            \/ UNCHANGED vars
  BY <1>3, <1>12 DEF TimerFires, OpenTab, Mount, ProcessExits, vars
<1> QED
  BY <1>5, <1>8, <1>9, <1>10, <1>11, <1>12 DEF Next, Browser, Host, Deliver, Resolve

\* What a step does to the attached sockets and the timers of their keys.
LEMMA AttachedNext ==
  ASSUME Typed, OneListener, EndsInHangup, AttachedNotDoomed, [Next]_vars
  PROVE  AttachedNotDoomed'
<1>0. /\ conn \in [Conns -> [phase : Phases, key : Keys \cup {NoKey}]]
      /\ wire \in [Conns -> Seq(Frames)]
      /\ pendingCloses \in [Keys -> {"none", "now", "grace"}]
      /\ \A c \in Conns : InPhase(c, {"attached"}) => conn[c].key \in Keys
  BY DEF Typed, Types, ConnsKeyed, InPhase
\* Steps that attach no socket, empty no wire of one, and set no timer.
<1>1. ASSUME \A c \in Conns : InPhase(c, {"attached"})' /\ wire'[c] = << >> =>
               InPhase(c, {"attached"}) /\ wire[c] = << >> /\ conn'[c].key = conn[c].key,
             \A k \in Keys : pendingCloses[k] = "none" => pendingCloses'[k] = "none"
      PROVE  AttachedNotDoomed'
  BY <1>0, <1>1 DEF AttachedNotDoomed
<1>2. ASSUME NEW c \in Conns, Upgrade(c) \/ DeliverUnheard(c) \/ Refuse(c) PROVE AttachedNotDoomed'
  <2>1. /\ \A b \in Conns : InPhase(b, {"attached"})' => b # c /\ conn'[b] = conn[b]
        /\ \A b \in Conns \ {c} : wire'[b] = wire[b]
    BY <1>0, <1>2 DEF Upgrade, DeliverUnheard, Refuse, SetPhase, InPhase
  <2>2. \A k \in Keys : pendingCloses[k] = "none" => pendingCloses'[k] = "none"
    BY <1>2 DEF Upgrade, DeliverUnheard, Refuse, OpenThrows, CloseAll, TimersWithout, manager
  <2> QED BY <1>1, <2>1, <2>2 DEF InPhase
<1>3. ASSUME NEW c \in Conns, Attach(c) PROVE AttachedNotDoomed'
  <2>1. /\ conn'[c].key = conn[c].key /\ \A b \in Conns \ {c} : conn'[b] = conn[b]
        /\ UNCHANGED wire
    BY <1>0, <1>3 DEF Attach, SetPhase
  <2>2. conn[c].key \in Keys
    BY <1>3 DEF Attach, InPhase, Typed, ConnsKeyed
  <2>3. /\ pendingCloses'[conn[c].key] = "none"
        /\ \A k \in Keys : pendingCloses[k] = "none" => pendingCloses'[k] = "none"
    BY <1>3, <2>2 DEF Attach, OpenReuses, OpenSpawns, TimersWithout
  <2> QED BY <1>0, <2>1, <2>2, <2>3 DEF AttachedNotDoomed, InPhase
<1>4. ASSUME NEW c \in Conns, DeliverControl(c) \/ SocketClosed(c) PROVE AttachedNotDoomed'
  <2> DEFINE k == conn[c].key
  <2>1. InPhase(c, {"attached"}) /\ k \in Keys
    BY <1>0, <1>4 DEF DeliverControl, SocketClosed
  <2>2. \A b \in Conns : InPhase(b, {"attached"}) /\ conn[b].key = k => b = c
    BY <2>1 DEF OneListener, InPhase, Listening
  <2>3. \A j \in Keys \ {k} : pendingCloses'[j] = pendingCloses[j]
    BY <1>0, <1>4, <2>1 DEF DeliverControl, SocketClosed, GraceAfterHangup, ScheduleClose, Park, manager
  <2>4. \A b \in Conns \ {c} : conn'[b] = conn[b] /\ wire'[b] = wire[b]
    BY <1>0, <1>4 DEF DeliverControl, SocketClosed, SetPhase
  <2>5. ASSUME NEW b \in Conns, InPhase(b, {"attached"})', wire'[b] = << >>, conn'[b].key = k
        PROVE  pendingCloses'[k] = "none"
    <3>1. b = c
      BY <2>2, <2>4, <2>5 DEF InPhase
    <3>2. DeliverControl(c)
      BY <1>0, <1>4, <2>5, <3>1 DEF SocketClosed, SetPhase, InPhase
    <3>3. wire[c] \in Seq(Frames) /\ wire[c] # << >> /\ Tail(wire[c]) = << >>
      BY <1>0, <2>5, <3>1, <3>2 DEF DeliverControl
    <3>4. Len(wire[c]) = 1
      <4>1. Len(Tail(wire[c])) = Len(wire[c]) - 1 /\ Len(wire[c]) \in Nat
        BY <3>3
      <4>2. Len(Tail(wire[c])) = Len(<< >>)
        BY <3>3
      <4>3. \A s : s = << >> => Len(s) = 0
        OBVIOUS
      <4> QED BY <4>1, <4>2, <4>3
    <3>5. Head(wire[c]) = "fin"
      BY <3>3, <3>4 DEF EndsInHangup
    <3> QED BY <3>2, <3>5 DEF DeliverControl
  <2>6. \A b \in Conns : conn'[b].key = conn[b].key
    <3>1. conn[c] \in [phase : Phases, key : Keys \cup {NoKey}]
      BY <1>0
    <3>2. conn' = conn \/ conn' = [conn EXCEPT ![c].phase = "closed"]
      BY <1>4 DEF DeliverControl, SocketClosed, SetPhase
    <3>3. conn'[c].key = conn[c].key
      BY <1>0, <3>1, <3>2
    <3> QED BY <2>4, <3>3
  <2> HIDE DEF k
  <2>7. ASSUME NEW b \in Conns, InPhase(b, {"attached"})', wire'[b] = << >>
        PROVE  pendingCloses'[conn'[b].key] = "none"
    <3>1. CASE conn'[b].key = k
      BY <2>5, <2>7, <3>1
    <3>2. CASE conn'[b].key # k
      <4>1. b # c
        BY <2>6, <3>2 DEF k
      <4>2. conn[b].key \in Keys \ {k} /\ pendingCloses[conn[b].key] = "none"
        BY <1>0, <2>4, <2>7, <3>2, <4>1 DEF AttachedNotDoomed, InPhase
      <4> QED BY <2>3, <2>6, <4>2
    <3> QED BY <3>1, <3>2
  <2> QED BY <2>7 DEF AttachedNotDoomed
<1>5. CASE Teardown
  <2>1. \A k \in Keys : pendingCloses'[k] = "none"
    BY <1>5 DEF Teardown, CloseAll, TimersWithout
  <2>2. \A c \in Conns : InPhase(c, {"attached"})' => InPhase(c, {"attached"}) /\ conn'[c] = conn[c]
    BY <1>0, <1>5 DEF Teardown, InPhase
  <2> QED BY <1>0, <2>1, <2>2 DEF AttachedNotDoomed
<1>6. ASSUME NEW k \in Keys, TimerFires(k) PROVE AttachedNotDoomed'
  BY <1>1, <1>6 DEF TimerFires, CloseAll, TimersWithout, InPhase
<1>7. ASSUME NEW ks, NEW frame, Unmount(ks, frame), UNCHANGED pendingCloses
      PROVE  AttachedNotDoomed'
  <2> DEFINE left == {view[k] : k \in ks} \cap Conns
  <2>1. \A c \in Conns : InPhase(c, {"attached"})' => conn'[c] = conn[c] /\ InPhase(c, {"attached"})
    <3>1. conn' = [c \in Conns |-> IF c \in left /\ InPhase(c, {"connecting"})
                                   THEN [conn[c] EXCEPT !.phase = "closed"] ELSE conn[c]]
      BY <1>7 DEF Unmount
    <3> HIDE DEF left
    <3> QED BY <1>0, <3>1 DEF InPhase
  <2>2. \A c \in Conns : wire'[c] = << >> => wire[c] = << >>
    <3> SUFFICES ASSUME NEW c \in Conns, wire'[c] = << >> PROVE wire[c] = << >>
      OBVIOUS
    <3>1. \/ wire'[c] = wire[c]
          \/ \E said \in {frame, << >>} : wire'[c] = wire[c] \o said \o <<"fin">>
      BY <1>7 DEF Unmount
    <3> QED BY <1>0, <3>1
  <2> QED BY <1>1, <1>7, <2>1, <2>2
<1>8. CASE \/ \E k \in Keys : CloseTab(k) \/ Drop(k)
           \/ \E s \in Sessions : SwitchTo(s)
  BY <1>7, <1>8 DEF CloseTab, Drop, SwitchTo, manager
<1>9. ASSUME NEW k \in Keys, NEW c \in Conns, Mount(k, c) PROVE AttachedNotDoomed'
  BY <1>0, <1>1, <1>9 DEF Mount, InPhase, manager
<1>10. CASE \/ \E k \in Keys : OpenTab(k)
            \/ \E c \in Conns : SeeOpen(c)
            \/ \E p \in Ptys : ProcessExits(p)
            \/ UNCHANGED vars
  BY <1>1, <1>10 DEF OpenTab, SeeOpen, ProcessExits, vars, manager, InPhase
<1> QED
  BY <1>2, <1>3, <1>4, <1>5, <1>6, <1>8, <1>9, <1>10 DEF Next, Browser, Host, Deliver, Resolve

\* "The reconnect's open() cancels the pending close" (pty.ts): a shell whose
\* view is attached, with nothing under way on its socket, is not counting down,
\* if a key's new socket never overtakes the hangup of the one before it.
THEOREM AttachedNotDoomedHolds ==
  ASSUME LateHangup = FALSE
  PROVE  Spec => []AttachedNotDoomed
<1>1. Init => OneListener /\ EndsInHangup /\ AttachedNotDoomed
  BY DEF Init, OneListener, EndsInHangup, AttachedNotDoomed, InPhase, Listening
<1>2. Typed /\ OneListener /\ [Next]_vars => OneListener'
  BY OneListenerNext
<1>3. Typed /\ EndsInHangup /\ [Next]_vars => EndsInHangup'
  BY EndsInHangupNext
<1>4. Typed /\ OneListener /\ EndsInHangup /\ AttachedNotDoomed /\ [Next]_vars => AttachedNotDoomed'
  BY AttachedNext
<1> QED BY <1>1, <1>2, <1>3, <1>4, TableCorrect, PTL DEF Spec
=============================================================================
