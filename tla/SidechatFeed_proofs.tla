------------------------ MODULE SidechatFeed_proofs ------------------------
(***************************************************************************)
(* Proofs about SidechatFeed, for any number of threads, any cap on an     *)
(* answer's rows and any of the bounds.  What carries them: a pull aborts  *)
(* its predecessor and a binding aborts every pull, so there is at most    *)
(* one, it goes into the cache it was asked for, and what it was asked     *)
(* after is still what that cache holds when it answers (OnePull).  So an  *)
(* answer only ever replaces what was taken from a shorter log (Told), and *)
(* the rows it leaves out as known are held: the newest row held is always *)
(* the last the answer before knew (LEMMA LastIsShown).                    *)
(*                                                                         *)
(* The last part is about the threads themselves, SidechatThread.          *)
(***************************************************************************)
EXTENDS SidechatFeed, TLAPS

\* A debounced pull is due for the thread in the tab.
OwnDue == invalid # None => invalid = bound

\* What the tab shows was true of its thread's log: nothing, before it has one.
Told == shown <= IF bound = None THEN 0 ELSE log[bound]

\* A pull is of the tab's thread, after what is shown, and what answers it are the
\* newest rows, up to a stamp not older than what is shown.
PullFits(p) ==
  /\ p.thread = bound /\ p.into = bound /\ p.after = shown
  /\ p.phase = "answered" =>
       /\ shown <= p.stamp /\ p.stamp <= log[bound]
       /\ p.fresh = {r \in Newest(p.stamp) : r > shown}
OnePull == pulls = << >> \/ \E p \in Pulls : pulls = <<p>> /\ PullFits(p)

Inv == TypeOK /\ OwnRowsOnly /\ TailWindow /\ OwnDue /\ Told /\ OnePull

\* The pull of thread t after row n.
Asked(t, n) ==
  [thread |-> t, into |-> t, after |-> n, phase |-> "asked", fresh |-> {}, stamp |-> 0]

-----------------------------------------------------------------------------
(* The operators. *)

\* A sequence begins empty.
LEMMA EmptySequence == ASSUME NEW S PROVE << >> \in Seq(S)
  OBVIOUS

\* A sequence grows at its end.
LEMMA Appended == ASSUME NEW S, NEW q \in Seq(S), NEW x \in S PROVE Append(q, x) \in Seq(S)
  OBVIOUS

\* The newest row held is the last of the log when the cache was filled: the
\* newest rows are held, and the cap lets at least one through.
LEMMA LastIsShown ==
  ASSUME ConstantsAssumption, NEW n \in Nat, NEW held,
         held \subseteq 1..n, Newest(n) \subseteq held
  PROVE  LastRow(held) = n
<1>1. CASE n = 0
  <2>1. held = {}
    BY <1>1
  <2> QED
    BY <1>1, <2>1 DEF LastRow
<1>2. CASE n # 0
  <2>1. n \in Newest(n)
    BY <1>2 DEF Newest, ConstantsAssumption
  <2>2. n \in held /\ \A r \in held : r \in Nat /\ n >= r
    BY <2>1
  <2>3. \A m \in held : (\A r \in held : m >= r) => m = n
    BY <2>2
  <2> QED
    BY <2>2, <2>3 DEF LastRow, Max
<1> QED
  BY <1>1, <1>2

\* A log's newest rows after what is shown make, with what is shown of its newest,
\* the newest of the longer log.
LEMMA AnswerCompletes ==
  ASSUME ConstantsAssumption, NEW n \in Nat, NEW m \in Nat, n <= m, NEW held,
         held \subseteq 1..n, Newest(n) \subseteq held
  PROVE  /\ held \cup {r \in Newest(m) : r > n} \subseteq 1..m
         /\ Newest(m) \subseteq held \cup {r \in Newest(m) : r > n}
<1>1. \A r \in held : r \in 1..m
  OBVIOUS
<1>2. Newest(m) \subseteq 1..m
  BY DEF Newest
<1>3. \A r \in Newest(m) : ~(r > n) => r \in Newest(n)
  BY DEF Newest, ConstantsAssumption
<1> QED
  BY <1>1, <1>2, <1>3

\* A pull is the only one, whatever was under way.
LEMMA PullIsTheOne ==
  ASSUME NEW t \in Threads, NEW held, LastRow(held) \in Nat
  PROVE  /\ Pull(t, t, held) = <<Asked(t, LastRow(held))>>
         /\ Asked(t, LastRow(held)) \in Pulls /\ Pull(t, t, held) \in Seq(Pulls)
<1>1. Pull(t, t, held) = <<Asked(t, LastRow(held))>>
  BY DEF Pull, Aborted, Asked
<1>2. Asked(t, LastRow(held)) \in Pulls
  BY DEF Asked, Pulls
<1> QED
  BY <1>1, <1>2

\* The one pull received, none is under way; the one answered is under way still.
LEMMA OneOfOne ==
  ASSUME NEW p \in Pulls, NEW q \in Pulls, NEW i \in DOMAIN <<p>>
  PROVE  i = 1 /\ RemoveAt(<<p>>, i) = << >> /\ [<<p>> EXCEPT ![i] = q] = <<q>>
<1>1. i = 1
  OBVIOUS
<1>2. RemoveAt(<<p>>, 1) = << >>
  <2>1. SubSeq(<<p>>, 1, 0) = << >> /\ SubSeq(<<p>>, 2, 1) = << >>
    OBVIOUS
  <2> QED
    BY <2>1 DEF RemoveAt
<1>3. [<<p>> EXCEPT ![1] = q] = <<q>>
  OBVIOUS
<1> QED
  BY <1>1, <1>2, <1>3

-----------------------------------------------------------------------------
(* The steps. *)

\* At the start nothing is bound, asked or shown.
LEMMA InitInv == ASSUME ConstantsAssumption, Init PROVE Inv
<1>1. TypeOK
  <2>1. /\ << >> \in Seq(RunStates) /\ << >> \in Seq(Pulls) /\ << >> \in Seq(SUBSET Threads)
        /\ << >> \in Seq(Threads)
    BY EmptySequence, Zenon
  <2>2. log \in [Threads -> 0..MaxRows] /\ runs \in [Threads -> BOOLEAN] /\ running = runs
    BY DEF Init, ConstantsAssumption
  <2>3. ~Subscribed(bound, visible) /\ link = "none"
    BY DEF Init, Subscribed
  <2>4. listed \in Seq(RunStates) /\ pulls \in Seq(Pulls) /\ up \in Seq(SUBSET Threads)
        /\ down \in Seq(Threads)
    BY <2>1 DEF Init
  <2>5. /\ rows \subseteq 1..MaxRows /\ shown \in 0..MaxRows /\ moves \in 0..MaxMoves
        /\ cuts \in 0..MaxCuts
    <3>1. rows = {} /\ shown = 0 /\ moves = 0 /\ cuts = 0
      BY DEF Init
    <3> QED
      BY <3>1 DEF ConstantsAssumption
  <2>6. /\ bound \in Threads \cup {None} /\ visible \in BOOLEAN /\ invalid \in Threads \cup {None}
        /\ watched \subseteq Threads /\ timers \subseteq watched /\ foreign \in BOOLEAN
    BY DEF Init
  <2> QED
    BY <2>2, <2>3, <2>4, <2>5, <2>6 DEF TypeOK
<1>2. TailWindow
  BY DEF Init, TailWindow, Newest
<1> QED
  BY <1>1, <1>2 DEF Init, Inv, OwnRowsOnly, OwnDue, Told, OnePull

\* What the proofs use of a state: the pull that is made now names the last row
\* shown.
LEMMA NowAfterShown ==
  ASSUME ConstantsAssumption, Inv, bound # None
  PROVE  /\ bound \in Threads /\ Pull(bound, bound, rows) = <<Asked(bound, shown)>>
         /\ Asked(bound, shown) \in Pulls /\ <<Asked(bound, shown)>> \in Seq(Pulls)
         /\ PullFits(Asked(bound, shown))
<1>1. bound \in Threads /\ shown \in Nat
  BY DEF Inv, TypeOK
<1>2. LastRow(rows) = shown
  BY <1>1, LastIsShown DEF Inv, TailWindow
<1>3. /\ Pull(bound, bound, rows) = <<Asked(bound, shown)>>
      /\ Asked(bound, shown) \in Pulls /\ Pull(bound, bound, rows) \in Seq(Pulls)
  BY <1>1, <1>2, PullIsTheOne
<1> QED
  BY <1>1, <1>3 DEF PullFits, Asked

\* A binding empties the cache and asks for all of the new thread.
LEMMA BindStep == ASSUME ConstantsAssumption, Inv, NEW t \in Threads, Bind(t) PROVE Inv'
<1> USE DEF Inv
<1>1. LastRow({}) = 0
  BY DEF LastRow
<1>2. /\ Pull(t, t, {}) = <<Asked(t, 0)>> /\ Asked(t, 0) \in Pulls
      /\ Pull(t, t, {}) \in Seq(Pulls)
  BY <1>1, PullIsTheOne
<1>3. bound' = t /\ t # None /\ rows' = {} /\ shown' = 0 /\ log' = log
  BY DEF Bind, host, ConstantsAssumption
<1>4. pulls' = << >> \/ pulls' = <<Asked(t, 0)>>
  BY <1>2 DEF Bind, Aborted
<1>5. PullFits(Asked(t, 0))'
  BY <1>3 DEF PullFits, Asked
<1>6. OnePull'
  BY <1>2, <1>4, <1>5 DEF OnePull
<1>7. OwnDue' /\ Told' /\ TailWindow' /\ OwnRowsOnly'
  <2>1. OwnDue'
    BY <1>3 DEF Bind, OwnDue, DueAfterBind
  <2>2. Told'
    BY <1>3 DEF Told, TypeOK
  <2>3. TailWindow'
    BY <1>3 DEF TailWindow, Newest
  <2> QED
    BY <2>1, <2>2, <2>3 DEF Bind, OwnRowsOnly
<1>8. TypeOK'
  <2>1. pulls' \in Seq(Pulls)
    BY <1>2, <1>4, EmptySequence
  <2>2. /\ log' \in [Threads -> 0..MaxRows] /\ runs' \in [Threads -> BOOLEAN]
        /\ listed' \in Seq(RunStates) /\ running' \in [Threads -> BOOLEAN]
        /\ bound' \in Threads \cup {None} /\ visible' \in BOOLEAN
        /\ rows' \subseteq 1..MaxRows /\ shown' \in 0..MaxRows
        /\ moves' \in 0..MaxMoves /\ cuts' \in 0..MaxCuts /\ foreign' \in BOOLEAN
    BY DEF Bind, TypeOK, Move, host, ConstantsAssumption
  <2>3. invalid' \in Threads \cup {None}
    BY DEF Bind, DueAfterBind
  <2>4. CASE visible /\ bound = None
    BY <1>3, <2>1, <2>2, <2>3, <2>4 DEF Bind, TypeOK, Relink, Subscribed
  <2>5. CASE ~(visible /\ bound = None)
    <3>1. up' \in Seq(SUBSET Threads)
      <4>1. {t} \in SUBSET Threads /\ up \in Seq(SUBSET Threads)
        BY DEF TypeOK
      <4>2. Append(up, {t}) \in Seq(SUBSET Threads)
        BY <4>1, Appended
      <4>3. up' = Append(up, {t}) \/ up' = up
        BY <2>5 DEF Bind
      <4> QED
        BY <4>1, <4>2, <4>3
    <3>2. UNCHANGED <<link, watched, timers, down, visible>>
      BY <2>5 DEF Bind
    <3>3. (link' = "none") = ~Subscribed(bound', visible')
      BY <1>3, <2>5, <3>2 DEF TypeOK, Subscribed
    <3> QED
      BY <2>1, <2>2, <2>3, <3>1, <3>2, <3>3 DEF TypeOK
  <2> QED
    BY <2>4, <2>5
<1> QED
  BY <1>6, <1>7, <1>8

\* Parking keeps the cache; coming back asks for what is newer.
LEMMA ParkStep == ASSUME ConstantsAssumption, Inv, Park PROVE Inv'
<1> USE DEF Inv
<1>1. UNCHANGED <<log, runs, listed, running, bound, rows, shown, foreign, cuts>>
  BY DEF Park, host, cache
<1>2. OwnRowsOnly' /\ TailWindow' /\ Told'
  BY <1>1 DEF OwnRowsOnly, TailWindow, Newest, Told
<1>3. moves' \in 0..MaxMoves /\ visible' \in BOOLEAN /\ visible' = ~visible
  BY DEF Park, Move, TypeOK, ConstantsAssumption
<1>4. CASE bound = None
  <2>1. UNCHANGED <<link, up, watched, timers, down, pulls, invalid>>
    BY <1>4 DEF Park, socketVars
  <2>2. TypeOK'
    BY <1>1, <1>3, <1>4, <2>1 DEF TypeOK, Subscribed
  <2>3. pulls = << >>
    BY <1>4 DEF OnePull, PullFits, Pulls, ConstantsAssumption
  <2> QED
    BY <1>1, <1>2, <2>1, <2>2, <2>3 DEF OnePull, OwnDue
<1>5. CASE bound # None
  <2>1. /\ bound \in Threads /\ Pull(bound, bound, rows) = <<Asked(bound, shown)>>
        /\ Asked(bound, shown) \in Pulls /\ <<Asked(bound, shown)>> \in Seq(Pulls)
        /\ PullFits(Asked(bound, shown))
    BY <1>5, NowAfterShown
  <2>2. pulls' = <<Asked(bound, shown)>> \/ pulls' = pulls
    BY <1>5, <2>1 DEF Park
  <2>3. \A p : PullFits(p) => PullFits(p)'
    BY <1>1 DEF PullFits, Newest
  <2>4. OnePull'
    BY <2>1, <2>2, <2>3 DEF OnePull
  <2>5. (invalid' = invalid \/ invalid' = bound) /\ OwnDue'
    BY <1>1, <1>5 DEF Park, OwnDue
  <2>6. TypeOK'
    <3>1. pulls' \in Seq(Pulls) /\ invalid' \in Threads \cup {None}
      BY <2>1, <2>2, <2>5 DEF TypeOK
    <3>2. Relink(visible')
      BY <1>5 DEF Park
    <3> QED
      BY <1>1, <1>3, <1>5, <3>1, <3>2 DEF TypeOK, Relink, Subscribed
  <2> QED
    BY <1>2, <2>4, <2>5, <2>6
<1> QED
  BY <1>4, <1>5

\* A run state heard, the slow poll and the notices' pull each ask for what is newer
\* than what is shown.
LEMMA PullStep ==
  ASSUME ConstantsAssumption, Inv, Hear \/ Poll \/ PullDue
  PROVE  Inv'
<1> USE DEF Inv
<1>1. UNCHANGED <<log, runs, bound, visible, rows, shown, foreign, link, up, watched, timers,
                  down, moves, cuts>>
  BY DEF Hear, Poll, PullDue, host, tab, cache, socketVars
<1>2. /\ listed' \in Seq(RunStates) /\ running' \in [Threads -> BOOLEAN]
  <2>1. CASE Hear
    <3>1. Head(listed) \in RunStates /\ Tail(listed) \in Seq(RunStates)
      BY <2>1 DEF Hear, TypeOK
    <3>2. Head(listed).thread \in Threads /\ Head(listed).running \in BOOLEAN
      BY <3>1 DEF RunStates
    <3>3. listed' = Tail(listed)
      BY <2>1 DEF Hear
    <3>4. running' = [running EXCEPT ![Head(listed).thread] = Head(listed).running]
      BY <2>1 DEF Hear
    <3> QED
      BY <3>1, <3>2, <3>3, <3>4 DEF TypeOK
  <2> QED
    BY <2>1 DEF Poll, PullDue, TypeOK
<1>3. \/ pulls' = pulls
      \/ bound # None /\ pulls' = Pull(bound, bound, rows)
  <2>1. CASE Hear
    <3>1. Head(listed) \in RunStates
      BY <2>1 DEF Hear, TypeOK
    <3>2. Head(listed).thread # None
      BY <3>1 DEF RunStates, ConstantsAssumption
    <3> QED
      BY <2>1, <3>2 DEF Hear, PullsOnRunState
  <2>2. CASE Poll
    BY <2>2 DEF Poll, Subscribed
  <2>3. CASE PullDue
    BY <2>3 DEF PullDue, OwnDue
  <2> QED
    BY <2>1, <2>2, <2>3
<1>4. \A p : PullFits(p) => PullFits(p)'
  BY <1>1 DEF PullFits, Newest
<1>5. OnePull' /\ pulls' \in Seq(Pulls)
  BY <1>3, <1>4, NowAfterShown DEF OnePull, TypeOK
<1>6. (invalid' = invalid \/ invalid' = None) /\ OwnDue'
  BY <1>1 DEF Hear, Poll, PullDue, OwnDue
<1>7. TypeOK'
  BY <1>1, <1>2, <1>5, <1>6 DEF TypeOK
<1>8. OwnRowsOnly' /\ TailWindow' /\ Told'
  BY <1>1 DEF OwnRowsOnly, TailWindow, Newest, Told
<1> QED
  BY <1>5, <1>6, <1>7, <1>8

\* An answer is received into the cache it was asked for, and completes it.
LEMMA ReceiveStep ==
  ASSUME ConstantsAssumption, Inv, NEW i \in 1..Len(pulls), Receive(i)
  PROVE  Inv' /\ shown' >= shown
<1> USE DEF Inv
<1>1. pulls # << >>
  BY DEF Receive
<1>2. PICK p \in Pulls : pulls = <<p>> /\ PullFits(p)
  BY <1>1 DEF OnePull
<1>3. i = 1 /\ pulls[i] = p /\ pulls' = << >>
  BY <1>2, OneOfOne DEF Receive
<1>4. /\ p.thread = bound /\ p.into = bound /\ shown <= p.stamp /\ p.stamp <= log[bound]
      /\ p.fresh = {r \in Newest(p.stamp) : r > shown}
  BY <1>2, <1>3 DEF Receive, PullFits
<1>5. rows' = rows \cup p.fresh /\ shown' = p.stamp /\ foreign' = (foreign \/ p.thread # bound)
  BY <1>3, <1>4 DEF Receive
<1>6. UNCHANGED <<log, runs, listed, running, bound, visible, invalid, link, up, watched, timers,
                  down, moves, cuts>>
  BY DEF Receive, host, tab, socketVars
<1>7. bound \in Threads /\ p.stamp \in Nat /\ shown \in Nat /\ log[bound] \in 0..MaxRows
  BY <1>2, <1>4 DEF TypeOK, Pulls
<1>8. TailWindow'
  <2>1. rows \cup p.fresh \subseteq 1..p.stamp /\ Newest(p.stamp) \subseteq rows \cup p.fresh
    <3>1. rows \subseteq 1..shown /\ Newest(shown) \subseteq rows
      BY DEF TailWindow
    <3>2. shown <= p.stamp
      BY <1>4
    <3>3. /\ rows \cup {r \in Newest(p.stamp) : r > shown} \subseteq 1..p.stamp
          /\ Newest(p.stamp) \subseteq rows \cup {r \in Newest(p.stamp) : r > shown}
      BY <1>7, <3>1, <3>2, AnswerCompletes
    <3> QED
      BY <1>4, <3>3, Zenon
  <2> QED
    BY <1>5, <2>1 DEF TailWindow, Newest
<1>9. OwnRowsOnly' /\ OwnDue' /\ OnePull'
  BY <1>3, <1>4, <1>5, <1>6 DEF OwnRowsOnly, OwnDue, OnePull
<1>10. Told'
  BY <1>4, <1>5, <1>6, <1>7 DEF Told, ConstantsAssumption
<1>11. TypeOK'
  <2>1. shown' \in 0..MaxRows /\ rows' \subseteq 1..MaxRows
    BY <1>4, <1>5, <1>7, <1>8 DEF TailWindow, ConstantsAssumption
  <2>2. pulls' \in Seq(Pulls) /\ foreign' \in BOOLEAN
    BY <1>3, <1>5 DEF TypeOK
  <2> QED
    BY <1>6, <2>1, <2>2 DEF TypeOK
<1> QED
  BY <1>4, <1>5, <1>7, <1>8, <1>9, <1>10, <1>11

\* The socket, its frames and its timers touch neither the cache nor the pull.
LEMMA SocketStep ==
  ASSUME ConstantsAssumption, Inv,
         Connect \/ SeeOpen \/ Cut \/ Watch \/ \E t \in Threads : NoticeDue(t)
  PROVE  Inv'
<1> USE DEF Inv
<1>1. UNCHANGED <<log, runs, listed, running, bound, visible, rows, shown, foreign, pulls, invalid,
                  moves>>
  BY DEF Connect, SeeOpen, Cut, Watch, NoticeDue, host, tab, cache
<1>2. OwnRowsOnly' /\ TailWindow' /\ Told' /\ OwnDue' /\ OnePull'
  BY <1>1 DEF OwnRowsOnly, TailWindow, Newest, Told, OwnDue, OnePull, PullFits
<1>3. cuts' \in 0..MaxCuts
  BY DEF Connect, SeeOpen, Cut, Watch, NoticeDue, TypeOK, ConstantsAssumption
<1>4. link' \in {"none", "retry", "connecting", "open"} /\ (link' = "none" <=> link = "none")
  BY DEF Connect, SeeOpen, Cut, Watch, NoticeDue, TypeOK
<1>5. up' \in Seq(SUBSET Threads)
  <2>1. CASE SeeOpen
    <3>1. bound \in Threads
      BY <2>1 DEF SeeOpen, TypeOK, Subscribed
    <3>2. {bound} \in SUBSET Threads
      BY <3>1
    <3>3. <<{bound}>> \in Seq(SUBSET Threads)
      BY <3>2
    <3> QED
      BY <2>1, <3>3 DEF SeeOpen
  <2>2. CASE Cut
    BY <2>2, EmptySequence DEF Cut
  <2>3. CASE Watch
    BY <2>3 DEF Watch, TypeOK
  <2> QED
    BY <2>1, <2>2, <2>3 DEF Connect, NoticeDue, TypeOK
<1>6. watched' \subseteq Threads /\ timers' \subseteq watched'
  <2>1. CASE Watch
    <3>1. Head(up) \in SUBSET Threads
      BY <2>1 DEF Watch, TypeOK
    <3> QED
      BY <2>1, <3>1 DEF Watch, TimersOf
  <2> QED
    BY <2>1 DEF Connect, SeeOpen, Cut, NoticeDue, TypeOK
<1>7. down' \in Seq(Threads)
  <2>1. CASE Cut
    BY <2>1, EmptySequence DEF Cut
  <2>2. ASSUME NEW t \in Threads, NoticeDue(t) PROVE down' \in Seq(Threads)
    BY <2>2, Appended DEF NoticeDue, TypeOK
  <2> QED
    BY <2>1, <2>2 DEF Connect, SeeOpen, Watch, TypeOK
<1>8. TypeOK'
  BY <1>1, <1>3, <1>4, <1>5, <1>6, <1>7 DEF TypeOK, Subscribed
<1> QED
  BY <1>2, <1>8

\* A notice makes a pull of the thread in the tab due.
LEMMA NoticeStep == ASSUME ConstantsAssumption, Inv, Notice PROVE Inv'
<1> USE DEF Inv
<1>1. UNCHANGED <<log, runs, listed, running, bound, visible, rows, shown, foreign, pulls, link, up,
                  watched, timers, moves, cuts>>
  BY DEF Notice, host, tab, cache
<1>2. invalid' = bound \/ invalid' = invalid
  BY DEF Notice
<1>3. down' \in Seq(Threads)
  BY DEF Notice, TypeOK
<1>4. TypeOK'
  BY <1>1, <1>2, <1>3 DEF TypeOK, Subscribed
<1>5. OwnRowsOnly' /\ TailWindow' /\ Told' /\ OwnDue' /\ OnePull'
  BY <1>1, <1>2 DEF OwnRowsOnly, TailWindow, Newest, Told, OwnDue, OnePull, PullFits
<1> QED
  BY <1>4, <1>5

\* A log only grows, which leaves what was taken from it true.
LEMMA HostStep ==
  ASSUME ConstantsAssumption, Inv, NEW t \in Threads, Run(t) \/ Log(t)
  PROVE  Inv'
<1> USE DEF Inv
<1>1. UNCHANGED <<running, bound, visible, rows, shown, foreign, pulls, invalid, link, up, watched,
                  down, cuts>>
  BY DEF Run, Log, tab, cache, socketVars
<1>2. log' \in [Threads -> 0..MaxRows] /\ \A u \in Threads : log[u] <= log'[u]
  <2>1. log \in [Threads -> 0..MaxRows] /\ MaxRows \in Nat
    BY DEF TypeOK, ConstantsAssumption
  <2>2. CASE Run(t)
    BY <2>1, <2>2 DEF Run
  <2>3. CASE Log(t)
    <3>1. log[t] < MaxRows /\ log' = [log EXCEPT ![t] = log[t] + 1]
      BY <2>3 DEF Log
    <3> QED
      BY <2>1, <3>1
  <2> QED
    BY <2>2, <2>3
<1>3. runs' \in [Threads -> BOOLEAN] /\ moves' \in 0..MaxMoves
  <2>1. runs \in [Threads -> BOOLEAN] /\ moves \in 0..MaxMoves /\ MaxMoves \in Nat
    BY DEF TypeOK, ConstantsAssumption
  <2>2. CASE Run(t)
    <3>1. runs' = [runs EXCEPT ![t] = ~runs[t]]
      BY <2>2, Zenon DEF Run
    <3>2. runs' \in [Threads -> BOOLEAN]
      BY <2>1, <3>1
    <3>3. moves' = moves \/ Move
      BY <2>2, Zenon DEF Run
    <3>4. moves' \in 0..MaxMoves
      BY <2>1, <3>3 DEF Move
    <3> QED
      BY <3>2, <3>4
  <2>3. CASE Log(t)
    BY <2>1, <2>3 DEF Log
  <2> QED
    BY <2>2, <2>3
<1>4. listed' \in Seq(RunStates)
  <2>1. CASE Run(t)
    <3>1. [thread |-> t, running |-> ~runs[t]] \in RunStates
      BY DEF RunStates, TypeOK
    <3> QED
      BY <2>1, <3>1, Appended DEF Run, TypeOK
  <2> QED
    BY <2>1 DEF Log, TypeOK
<1>5. timers' \subseteq watched'
  BY <1>1 DEF Run, Log, TypeOK, socketVars
<1>6. TypeOK'
  BY <1>1, <1>2, <1>3, <1>4, <1>5 DEF TypeOK, Subscribed
<1>7. OwnRowsOnly' /\ TailWindow' /\ OwnDue'
  BY <1>1 DEF OwnRowsOnly, TailWindow, Newest, OwnDue
<1>8. Told'
  BY <1>1, <1>2 DEF Told, TypeOK
<1>9. OnePull'
  <2>1. ASSUME NEW p \in Pulls, PullFits(p)  PROVE PullFits(p)'
    <3>1. bound \in Threads /\ p.stamp \in Nat
      BY <2>1 DEF PullFits, Pulls
    <3>2. p.stamp <= log[bound] => p.stamp <= log'[bound]
      BY <1>2, <3>1 DEF TypeOK
    <3> QED
      BY <1>1, <2>1, <3>2 DEF PullFits, Newest
  <2> QED
    BY <1>1, <2>1 DEF OnePull
<1> QED
  BY <1>6, <1>7, <1>8, <1>9

\* What answers the pull is taken from the log of the thread it names, after what
\* the tab shows.
LEMMA AnswerStep ==
  ASSUME ConstantsAssumption, Inv, NEW i \in 1..Len(pulls), Answer(i)
  PROVE  Inv'
<1> USE DEF Inv
<1>1. pulls # << >>
  BY DEF Answer
<1>2. PICK p \in Pulls : pulls = <<p>> /\ PullFits(p)
  BY <1>1 DEF OnePull
<1>3. i = 1 /\ pulls[1] = p
  BY <1>2
<1>4. p.thread \in Threads /\ p.thread = bound /\ log[p.thread] \in 0..MaxRows /\ shown \in Nat
  BY <1>2 DEF PullFits, Pulls, TypeOK
<1>5. Fresh(p) \in SUBSET Nat
  BY DEF Fresh, Newest
<1>6. PICK q : q = [p EXCEPT !.phase = "answered", !.fresh = Fresh(p), !.stamp = log[p.thread]]
  OBVIOUS
<1>7. /\ q \in Pulls /\ q.thread = bound /\ q.into = p.into /\ q.after = p.after
      /\ q.fresh = Fresh(p) /\ q.stamp = log[bound]
  <2>1. log[p.thread] \in Nat
    BY <1>4 DEF ConstantsAssumption
  <2> QED
    BY <1>4, <1>5, <1>6, <2>1 DEF Pulls
<1>8. UNCHANGED <<log, runs, listed, running, bound, visible, rows, shown, foreign, invalid, link, up,
                  watched, timers, down, moves, cuts>>
  BY DEF Answer, host, tab, cache, socketVars
<1>9. PullFits(q)'
  <2>1. p.into = bound /\ p.after = shown
    BY <1>2 DEF PullFits
  <2>2. q.fresh = {r \in Newest(log[bound]) : r > shown}
    BY <1>4, <1>7, <2>1 DEF Fresh
  <2>3. shown <= log[bound]
    BY <1>4 DEF Told, ConstantsAssumption
  <2> QED
    BY <1>4, <1>7, <1>8, <2>1, <2>2, <2>3 DEF PullFits, Newest
<1>10. pulls' = <<q>> /\ OnePull'
  BY <1>2, <1>3, <1>6, <1>7, <1>9 DEF Answer, OnePull
<1>11. pulls' \in Seq(Pulls)
  BY <1>7, <1>10
<1>12. TypeOK'
  BY <1>8, <1>11 DEF TypeOK, Subscribed
<1>13. OwnRowsOnly' /\ TailWindow' /\ Told' /\ OwnDue'
  BY <1>8 DEF OwnRowsOnly, TailWindow, Newest, Told, OwnDue
<1> QED
  BY <1>10, <1>12, <1>13

\* Every step keeps the invariant, and none that keeps the binding makes what is
\* shown older.
LEMMA StepInv ==
  ASSUME ConstantsAssumption, Inv, [Next]_vars
  PROVE  Inv' /\ (bound' = bound => shown' >= shown)
<1>1. shown \in Nat
  BY DEF Inv, TypeOK
<1>2. ASSUME NEW t \in Threads, Bind(t)  PROVE Inv' /\ bound' # bound
  BY <1>2, BindStep DEF Bind
<1>3. ASSUME NEW t \in Threads, Run(t) \/ Log(t)  PROVE Inv' /\ shown' = shown
  BY <1>3, HostStep DEF Run, Log, cache
<1>4. ASSUME \E t \in Threads : NoticeDue(t)  PROVE Inv' /\ shown' = shown
  BY <1>4, SocketStep DEF NoticeDue, cache
<1>5. CASE Park
  BY <1>1, <1>5, ParkStep DEF Park, cache
<1>6. CASE Hear \/ Poll \/ PullDue
  BY <1>1, <1>6, PullStep DEF Hear, Poll, PullDue, cache
<1>7. CASE Connect \/ SeeOpen \/ Cut \/ Watch
  BY <1>1, <1>7, SocketStep DEF Connect, SeeOpen, Cut, Watch, cache
<1>8. CASE Notice
  BY <1>1, <1>8, NoticeStep DEF Notice, cache
<1>9. ASSUME NEW i \in 1..Len(pulls), Receive(i)  PROVE Inv' /\ shown' >= shown
  BY <1>9, ReceiveStep
<1>10. ASSUME NEW i \in 1..Len(pulls), Answer(i)  PROVE Inv' /\ shown' = shown
  BY <1>10, AnswerStep DEF Answer, cache
<1>11. CASE UNCHANGED vars
  <2>1. UNCHANGED <<log, runs, listed, running, bound, visible, rows, shown, foreign, pulls, invalid,
                    link, up, watched, timers, down, moves, cuts>>
    BY <1>11 DEF vars, host, tab, cache, socketVars
  <2>2. TypeOK'
    BY <2>1 DEF Inv, TypeOK, Subscribed
  <2>3. OwnRowsOnly' /\ TailWindow' /\ Told' /\ OwnDue' /\ OnePull'
    BY <2>1 DEF Inv, OwnRowsOnly, TailWindow, Newest, Told, OwnDue, OnePull, PullFits
  <2> QED
    BY <1>1, <2>1, <2>2, <2>3 DEF Inv
<1> QED
  BY <1>1, <1>2, <1>3, <1>4, <1>5, <1>6, <1>7, <1>8, <1>9, <1>10, <1>11 DEF Next

\* The invariant holds of every behaviour.
LEMMA Inductive == ASSUME ConstantsAssumption PROVE Spec => []Inv
<1>1. Init => Inv
  BY InitInv
<1>2. Inv /\ [Next]_vars => Inv'
  BY StepInv
<1> QED
  BY <1>1, <1>2, PTL DEF Spec

-----------------------------------------------------------------------------
(* The theorems. *)

\* The feed's variables keep their types: the socket is there exactly while the
\* tab shows a thread, and only a watched thread has a timer.
THEOREM TypeCorrect == ASSUME ConstantsAssumption PROVE Spec => []TypeOK
<1>1. Inv => TypeOK
  BY DEF Inv
<1> QED
  BY <1>1, Inductive, PTL

\* However bindings, parkings, lost sockets, notices and answers overlap, the tab
\* shows rows of its own thread only, the newest of those it was told of, as many
\* as one answer carries, and what it shows is never replaced by something older
\* (fetchThread's abort, the reset at a binding, the route's slice).
THEOREM ShowsOwnTailHolds == ASSUME ConstantsAssumption PROVE Spec => ShowsOwnTail
<1>1. Inv => OwnRowsOnly /\ TailWindow
  BY DEF Inv
<1>2. Inv /\ [Next]_vars => [bound' = bound => shown' >= shown]_vars
  BY StepInv
<1> QED
  BY <1>1, <1>2, Inductive, PTL DEF Spec, ShowsOwnTail, SnapshotsAdvance

\* A pull that is under way is the only one, and is of the thread in the tab, after
\* what it shows: no answer is of another binding or of an older cache.
THEOREM OnePullHolds == ASSUME ConstantsAssumption PROVE Spec => []OnePull
<1>1. Inv => OnePull
  BY DEF Inv
<1> QED
  BY <1>1, Inductive, PTL
-----------------------------------------------------------------------------
(***************************************************************************)
(* The thread the tab talks to (SidechatThread), for any number of calls,  *)
(* models and lives.  A call opens the thread before it awaits, so unless  *)
(* a close overlaps a call a closed thread has none under way (Quiet), and *)
(* a thread whose agent lives is either open, with its disposer and its    *)
(* model, or being disposed of (Kept).  Without it only this is left of    *)
(* that: a snapshot is parked while nothing was said yet (Unsaid).         *)
(***************************************************************************)

CONSTANTS Calls, Models, DefaultModel, MaxLives, MaxClears, Overlaps, PicksOut
VARIABLES made, live, lives, dying, threadLog, picked, step, turn, parked, ref, disposer, call,
          closed, clears

Thread == INSTANCE SidechatThread WITH log <- threadLog

ThreadAssumption == Thread!DefaultAssumption /\ Thread!BoundsAssumption

\* The variables that are not messages.
ThreadTyped ==
  /\ made \in BOOLEAN /\ dying \in BOOLEAN /\ parked \in BOOLEAN /\ closed \in BOOLEAN
  /\ live \in 0..MaxLives /\ lives \in 0..MaxLives /\ disposer \in 0..MaxLives
  /\ picked \in Models /\ ref \in [on: 0..MaxLives, current: Models]
  /\ call \in [Calls -> Thread!CallState]

\* While a snapshot is parked nothing was said, and its agent lives.
Unsaid ==
  /\ ~made => live = 0 /\ threadLog = << >> /\ Thread!InFlight = {}
  /\ parked => threadLog = << >> /\ step = << >> /\ turn = << >> /\ live # 0 /\ ~dying

\* A closed thread has no call under way.
Quiet ==
  /\ closed => made /\ Thread!InFlight = {} /\ ref.on = 0
  /\ dying => closed

\* An agent that lives is kept by an open thread, or is going.
Kept ==
  /\ live # 0 /\ ~dying => ~closed
  /\ live # 0 /\ ~closed => disposer = live /\ ref.on = live /\ ref.current = picked
  /\ live = 0 => ref.on = 0

ThreadInv == ThreadTyped /\ Unsaid /\ (~Overlaps => Quiet /\ Kept)

-----------------------------------------------------------------------------
(* The helpers of the routes. *)

\* The states a call can be in.
LEMMA CallStates ==
  /\ [at |-> "new"] \in Thread!CallState /\ [at |-> "done"] \in Thread!CallState
  /\ [at |-> "resuming", does |-> "prompt"] \in Thread!CallState
  /\ \A m \in Models :
       /\ [at |-> "checking", does |-> "model", route |-> m] \in Thread!CallState
       /\ [at |-> "resuming", does |-> "model", route |-> m] \in Thread!CallState
BY DEF Thread!CallState

\* A call that is checked has a route to commit, and one that resumes does if it
\* is a switch.
LEMMA CallRoutes ==
  ASSUME NEW p \in Thread!CallState
  PROVE  /\ p.at = "checking" =>
              /\ p.route \in Models /\ [p EXCEPT !.at = "resuming"] \in Thread!CallState
              /\ [p EXCEPT !.at = "resuming"].at = "resuming"
         /\ p.at = "resuming" /\ p.does # "prompt" => p.route \in Models
<1>1. CASE p \in [at: {"checking", "resuming"}, does: {"model"}, route: Models]
  BY <1>1 DEF Thread!CallState
<1>2. CASE p \in {[at |-> "new"], [at |-> "done"], [at |-> "resuming", does |-> "prompt"]}
  BY <1>2
<1> QED BY <1>1, <1>2 DEF Thread!CallState

\* What is done is not under way.
LEMMA DoneFacts ==
  ASSUME ThreadTyped, NEW c \in Calls, call' = Thread!Done(c)
  PROVE  /\ call' \in [Calls -> Thread!CallState]
         /\ Thread!InFlight' \subseteq Thread!InFlight
BY CallStates DEF ThreadTyped, Thread!Done, Thread!InFlight

\* The ref a route works with: the one there is, or a new one of this agent.
LEMMA EnsuredFacts ==
  ASSUME ThreadTyped, NEW a \in 0..MaxLives
  PROVE  /\ Thread!EnsuredRef(a) \in [on: 0..MaxLives, current: Models]
         /\ ref.on # 0 => Thread!EnsuredRef(a) = ref
         /\ ref.on = 0 => Thread!EnsuredRef(a).on = a /\ Thread!EnsuredRef(a).current = picked
BY DEF ThreadTyped, Thread!EnsuredRef

\* A selection is what the ref says next.
LEMMA SelectionFacts ==
  ASSUME ThreadTyped, NEW r \in [on: 0..MaxLives, current: Models], NEW m \in Models,
         Thread!Selection(r, m)
  PROVE  /\ picked' \in Models /\ ref' \in [on: 0..MaxLives, current: Models]
         /\ ref'.on = r.on /\ ref'.current = picked'
BY DEF Thread!Selection

\* An agent of its own number is live.
LEMMA RegisteredFacts ==
  ASSUME ThreadAssumption, ThreadTyped, Thread!Registered
  PROVE  /\ lives + 1 \in 1..MaxLives /\ live' = lives + 1 /\ lives' = lives + 1
         /\ disposer' = live' /\ live' # 0 /\ ~dying' /\ dying' \in BOOLEAN
         /\ live' \in 0..MaxLives
<1>1. lives < MaxLives /\ live' = lives + 1 /\ lives' = lives + 1 /\ disposer' = lives + 1
      /\ dying' = FALSE /\ lives \in 0..MaxLives /\ MaxLives \in Nat
  BY DEF ThreadAssumption, Thread!BoundsAssumption, ThreadTyped, Thread!Registered
<1>2. ~dying' /\ dying' \in BOOLEAN
  BY <1>1
<1> QED BY <1>1, <1>2

-----------------------------------------------------------------------------
(* Each step keeps the invariant. *)

LEMMA ThreadInit == ASSUME ThreadAssumption, Thread!Init PROVE ThreadInv
<1>1. ref \in [on: 0..MaxLives, current: Models] /\ ref.on = 0
  BY DEF Thread!Init, Thread!NoRef, ThreadAssumption, Thread!DefaultAssumption,
         Thread!BoundsAssumption
<1>2. call \in [Calls -> Thread!CallState]
  BY CallStates DEF Thread!Init
<1>3. ThreadTyped
  BY <1>1, <1>2 DEF ThreadTyped, Thread!Init, ThreadAssumption, Thread!BoundsAssumption
<1>4. Unsaid
  BY DEF Unsaid, Thread!Init, Thread!InFlight
<1>5. Quiet /\ Kept
  BY <1>1 DEF Quiet, Kept, Thread!Init
<1> QED BY <1>3, <1>4, <1>5 DEF ThreadInv

\* The thread is created, with its first question or a snapshot waiting for it.
LEMMA StartInv == ASSUME ThreadAssumption, ThreadInv, Thread!Start PROVE ThreadInv'
<1>1. ThreadTyped /\ Unsaid /\ (~Overlaps => Quiet /\ Kept) /\ ~made /\ made'
      /\ ref' = Thread!EnsuredRef(lives + 1)
      /\ UNCHANGED <<threadLog, picked, call, closed, clears>>
  BY DEF ThreadInv, Thread!Start
<1>2. /\ lives + 1 \in 1..MaxLives /\ live' = lives + 1 /\ lives' = lives + 1
      /\ disposer' = live' /\ live' # 0 /\ ~dying' /\ dying' \in BOOLEAN /\ live' \in 0..MaxLives
  BY RegisteredFacts DEF ThreadInv, Thread!Start
<1>21. PICK asked, snapshot \in BOOLEAN :
         /\ turn' = << >> \o (IF asked THEN <<"question">> ELSE << >>)
         /\ step' = IF asked THEN <<"boundary">> ELSE << >>
         /\ parked' = (snapshot /\ ~asked)
  BY DEF Thread!Start, Thread!Fenced
<1>22. parked' \in BOOLEAN /\ (parked' => ~asked)
  BY <1>21
<1>23. ~asked => turn' = << >> /\ step' = << >>
  BY <1>21
<1>3. /\ ref' \in [on: 0..MaxLives, current: Models]
      /\ ref.on = 0 => ref'.on = live' /\ ref'.current = picked
  BY <1>1, <1>2, EnsuredFacts
<1>4. ThreadTyped'
  BY <1>1, <1>2, <1>22, <1>3 DEF ThreadTyped
<1>5. Unsaid'
  BY <1>1, <1>2, <1>22, <1>23 DEF Unsaid
<1>6. ~Overlaps => Quiet' /\ Kept'
  BY <1>1, <1>2, <1>3 DEF Quiet, Kept, Unsaid
<1> QED BY <1>4, <1>5, <1>6 DEF ThreadInv

\* What a delivery does to the snapshot: the first contact takes it.
LEMMA DeliveryFacts ==
  ASSUME ThreadTyped, Unsaid, NEW s, NEW t, (s = step /\ t = turn) \/ live = 0,
         Thread!Delivery(s, t)
  PROVE  ~parked' /\ parked' \in BOOLEAN
<1>1. CASE ~parked
  BY <1>1 DEF Thread!Delivery, ThreadTyped
<1>2. CASE parked
  <2>1. threadLog = << >> /\ s = << >> /\ t = << >>
    BY <1>2 DEF Unsaid
  <2>2. << >> \o << >> = << >>
    OBVIOUS
  <2>3. ~Thread!BoundaryDelivered /\ ~Thread!BoundaryPending(s, t)
    BY <2>1, <2>2 DEF Thread!BoundaryDelivered, Thread!BoundaryPending, Thread!Contains
  <2> QED BY <2>3 DEF Thread!Delivery
<1> QED BY <1>1, <1>2

\* A prompt opens the thread, and is delivered or resumes it.
LEMMA PromptInv ==
  ASSUME ThreadAssumption, ThreadInv, NEW c \in Calls, Thread!Prompt(c) PROVE ThreadInv'
<1>1. /\ ThreadTyped /\ Unsaid /\ (~Overlaps => Quiet /\ Kept) /\ made /\ closed' = FALSE
      /\ UNCHANGED <<made, live, lives, dying, threadLog, picked, ref, disposer, clears>>
      /\ ~Overlaps => ~dying
  BY DEF ThreadInv, ThreadTyped, Thread!Prompt, Thread!Admitted, Thread!runtime
<1>2. ~closed' /\ closed' \in BOOLEAN
  BY <1>1
<1>3. /\ parked' \in BOOLEAN /\ call' \in [Calls -> Thread!CallState]
      /\ parked' => parked /\ live = 0
  <2>1. CASE live # 0
    <3>1. Thread!Delivery(step, turn) /\ call' = Thread!Done(c)
      BY <2>1 DEF Thread!Prompt
    <3> QED BY <1>1, <3>1, DeliveryFacts, DoneFacts
  <2>2. CASE live = 0
    <3>1. call' = [call EXCEPT ![c] = [at |-> "resuming", does |-> "prompt"]] /\ parked' = parked
      BY <2>2 DEF Thread!Prompt
    <3>2. call' \in [Calls -> Thread!CallState]
      BY <1>1, <3>1, CallStates DEF ThreadTyped
    <3> QED BY <1>1, <2>2, <3>1, <3>2 DEF ThreadTyped
  <2> QED BY <2>1, <2>2
<1>4. ThreadTyped'
  BY <1>1, <1>2, <1>3 DEF ThreadTyped
<1>5. Unsaid'
  BY <1>1, <1>3 DEF Unsaid
<1>6. ~Overlaps => Quiet' /\ Kept'
  BY <1>1, <1>2 DEF Quiet, Kept
<1> QED BY <1>4, <1>5, <1>6 DEF ThreadInv

\* A switch of the model opens it too.
LEMMA ModelInv ==
  ASSUME ThreadAssumption, ThreadInv, NEW c \in Calls, NEW m \in Models, Thread!Model(c, m)
  PROVE  ThreadInv'
<1>1. /\ ThreadTyped /\ Unsaid /\ (~Overlaps => Quiet /\ Kept) /\ made /\ closed' = FALSE
      /\ UNCHANGED <<made, live, lives, dying, threadLog, picked, step, turn, parked, ref,
                     disposer, clears>>
      /\ ~Overlaps => ~dying
      /\ call' = [call EXCEPT ![c] = [at |-> "checking", does |-> "model", route |-> m]]
  BY DEF ThreadInv, ThreadTyped, Thread!Model, Thread!Admitted, Thread!runtime, Thread!inbox,
         Thread!maps
<1>2. ~closed' /\ closed' \in BOOLEAN
  BY <1>1
<1>3. call' \in [Calls -> Thread!CallState]
  BY <1>1, CallStates DEF ThreadTyped
<1>4. ThreadTyped'
  BY <1>1, <1>2, <1>3 DEF ThreadTyped
<1>5. Unsaid'
  BY <1>1 DEF Unsaid
<1>6. ~Overlaps => Quiet' /\ Kept'
  BY <1>1, <1>2 DEF Quiet, Kept
<1> QED BY <1>4, <1>5, <1>6 DEF ThreadInv

\* The switch is committed on a live agent, or resumes the thread.
LEMMA NormalizedInv ==
  ASSUME ThreadAssumption, ThreadInv, NEW c \in Calls, Thread!Normalized(c) PROVE ThreadInv'
<1>1. /\ ThreadTyped /\ Unsaid /\ (~Overlaps => Quiet /\ Kept) /\ call[c].at = "checking"
      /\ UNCHANGED <<made, live, lives, dying, threadLog, step, turn, parked, disposer, closed,
                     clears>>
  BY DEF ThreadInv, Thread!Normalized, Thread!runtime, Thread!inbox
<1>2. c \in Thread!InFlight /\ call[c].route \in Models
      /\ call \in [Calls -> Thread!CallState]
  BY <1>1, CallRoutes DEF Thread!InFlight, ThreadTyped
<1>3. CASE live # 0
  <2>1. Thread!Selection(Thread!EnsuredRef(live), call[c].route) /\ call' = Thread!Done(c)
    BY <1>3 DEF Thread!Normalized
  <2>2. live \in 0..MaxLives
    BY <1>1 DEF ThreadTyped
  <2>3. /\ picked' \in Models /\ ref' \in [on: 0..MaxLives, current: Models]
        /\ ref'.on = Thread!EnsuredRef(live).on /\ ref'.current = picked'
    BY <1>1, <1>2, <2>1, <2>2, EnsuredFacts, SelectionFacts
  <2>4. call' \in [Calls -> Thread!CallState] /\ Thread!InFlight' \subseteq Thread!InFlight
    BY <1>1, <2>1, DoneFacts
  <2>5. ThreadTyped'
    BY <1>1, <2>3, <2>4 DEF ThreadTyped
  <2>6. Unsaid'
    BY <1>1, <2>4 DEF Unsaid
  <2>7. ~Overlaps => Quiet' /\ Kept'
    <3> SUFFICES ASSUME ~Overlaps PROVE Quiet' /\ Kept'
      OBVIOUS
    <3>1. ~closed /\ ~dying
      BY <1>1, <1>2 DEF Quiet
    <3>2. ref.on = live /\ Thread!EnsuredRef(live) = ref
      BY <1>1, <1>3, <2>2, <3>1, EnsuredFacts DEF Kept
    <3> QED BY <1>1, <1>3, <2>3, <3>1, <3>2 DEF Quiet, Kept
  <2> QED BY <2>5, <2>6, <2>7 DEF ThreadInv
<1>4. CASE live = 0
  <2>1. call' = [call EXCEPT ![c].at = "resuming"] /\ UNCHANGED <<picked, ref>>
    BY <1>4 DEF Thread!Normalized
  <2>2. PICK p \in Thread!CallState : p = [call[c] EXCEPT !.at = "resuming"] /\ p.at = "resuming"
    BY <1>1, <1>2, CallRoutes
  <2>3. call' = [call EXCEPT ![c] = p]
    BY <2>1, <2>2
  <2>4. call' \in [Calls -> Thread!CallState] /\ Thread!InFlight' \subseteq Thread!InFlight
    BY <1>2, <2>2, <2>3 DEF Thread!InFlight
  <2>5. ThreadTyped'
    BY <1>1, <2>1, <2>4 DEF ThreadTyped
  <2>6. Unsaid'
    BY <1>1, <2>4 DEF Unsaid
  <2>7. ~Overlaps => Quiet' /\ Kept'
    BY <1>1, <2>1, <2>4 DEF Quiet, Kept
  <2> QED BY <2>5, <2>6, <2>7 DEF ThreadInv
<1> QED BY <1>3, <1>4

\* The thread is resumed, with the ref of its log, and the call goes on.
LEMMA ResumedInv ==
  ASSUME ThreadAssumption, ThreadInv, NEW c \in Calls, Thread!Resumed(c) PROVE ThreadInv'
<1>1. /\ ThreadTyped /\ Unsaid /\ (~Overlaps => Quiet /\ Kept) /\ call[c].at = "resuming"
      /\ live = 0 /\ Thread!Registered /\ call' = Thread!Done(c)
      /\ UNCHANGED <<made, threadLog, closed, clears>>
  BY DEF ThreadInv, Thread!Resumed
<1>2. /\ lives + 1 \in 1..MaxLives /\ live' = lives + 1 /\ lives' = lives + 1
      /\ disposer' = live' /\ live' # 0 /\ ~dying' /\ dying' \in BOOLEAN /\ live' \in 0..MaxLives
  BY <1>1, RegisteredFacts
<1>3. c \in Thread!InFlight /\ (call[c].does # "prompt" => call[c].route \in Models)
  BY <1>1, CallRoutes DEF Thread!InFlight, ThreadTyped
<1>4. call' \in [Calls -> Thread!CallState] /\ Thread!InFlight' \subseteq Thread!InFlight
  BY <1>1, DoneFacts
<1>5. lives + 1 \in 0..MaxLives
  BY <1>2
<1>6. /\ ~parked' /\ parked' \in BOOLEAN
      /\ picked' \in Models /\ ref' \in [on: 0..MaxLives, current: Models]
      /\ ref.on = 0 => ref'.on = live' /\ ref'.current = picked'
  <2>1. CASE call[c].does = "prompt"
    <3>1. /\ Thread!Delivery(Thread!Swept(step), Thread!Swept(turn))
          /\ ref' = Thread!EnsuredRef(lives + 1) /\ picked' = picked
      BY <2>1 DEF Thread!Resumed
    <3>2. ~parked' /\ parked' \in BOOLEAN
      BY <1>1, <3>1, DeliveryFacts
    <3> QED BY <1>1, <1>2, <1>5, <3>1, <3>2, EnsuredFacts DEF ThreadTyped
  <2>2. CASE call[c].does # "prompt"
    <3>1. /\ Thread!Selection(Thread!EnsuredRef(lives + 1), call[c].route)
          /\ parked' = parked
      BY <2>2 DEF Thread!Resumed
    <3>2. ~parked' /\ parked' \in BOOLEAN
      BY <1>1, <3>1 DEF ThreadTyped, Unsaid
    <3>3. /\ picked' \in Models /\ ref' \in [on: 0..MaxLives, current: Models]
          /\ ref'.on = Thread!EnsuredRef(lives + 1).on /\ ref'.current = picked'
      BY <1>1, <1>3, <1>5, <2>2, <3>1, EnsuredFacts, SelectionFacts
    <3> QED BY <1>1, <1>2, <1>5, <3>2, <3>3, EnsuredFacts
  <2> QED BY <2>1, <2>2
<1>7. ThreadTyped'
  BY <1>1, <1>2, <1>4, <1>6 DEF ThreadTyped
<1>8. Unsaid'
  <2>1. made
    BY <1>1, <1>3 DEF Unsaid
  <2> QED BY <1>1, <1>6, <2>1 DEF Unsaid
<1>9. ~Overlaps => Quiet' /\ Kept'
  BY <1>1, <1>2, <1>3, <1>6 DEF Quiet, Kept
<1> QED BY <1>7, <1>8, <1>9 DEF ThreadInv

\* A call is refused.
LEMMA RefusedInv ==
  ASSUME ThreadAssumption, ThreadInv, NEW c \in Calls, Thread!Refused(c) PROVE ThreadInv'
<1>1. /\ ThreadTyped /\ Unsaid /\ (~Overlaps => Quiet /\ Kept) /\ call' = Thread!Done(c)
      /\ UNCHANGED <<made, live, lives, dying, threadLog, picked, step, turn, parked, ref,
                     disposer, closed, clears>>
  BY DEF ThreadInv, Thread!Refused, Thread!runtime, Thread!inbox, Thread!maps
<1>2. call' \in [Calls -> Thread!CallState] /\ Thread!InFlight' \subseteq Thread!InFlight
  BY <1>1, DoneFacts
<1>3. ThreadTyped'
  BY <1>1, <1>2 DEF ThreadTyped
<1>4. Unsaid'
  BY <1>1, <1>2 DEF Unsaid
<1>5. ~Overlaps => Quiet' /\ Kept'
  BY <1>1, <1>2 DEF Quiet, Kept
<1> QED BY <1>3, <1>4, <1>5 DEF ThreadInv

\* The tab closes: the maps forget the thread, and its disposer is called.
LEMMA DisposeInv == ASSUME ThreadAssumption, ThreadInv, Thread!Dispose PROVE ThreadInv'
<1>1. /\ ThreadTyped /\ Unsaid /\ (~Overlaps => Quiet /\ Kept) /\ made /\ ~closed
      /\ Thread!InFlight # {} => Overlaps
      /\ closed' = TRUE /\ parked' = FALSE /\ ref' = Thread!NoRef /\ disposer' = 0
      /\ dying' = (dying \/ (disposer # 0 /\ disposer = live))
      /\ UNCHANGED <<made, live, lives, threadLog, picked, step, turn, call, clears>>
  BY DEF ThreadInv, Thread!Dispose, Thread!inbox
<1>2. closed' /\ closed' \in BOOLEAN /\ ~parked' /\ parked' \in BOOLEAN /\ dying' \in BOOLEAN
  BY <1>1 DEF ThreadTyped
<1>3. ref' \in [on: 0..MaxLives, current: Models] /\ ref'.on = 0 /\ disposer' \in 0..MaxLives
  BY <1>1 DEF Thread!NoRef, ThreadAssumption, Thread!DefaultAssumption, Thread!BoundsAssumption
<1>4. ThreadTyped'
  BY <1>1, <1>2, <1>3 DEF ThreadTyped
<1>5. Unsaid'
  BY <1>1, <1>2 DEF Unsaid, Thread!InFlight
<1>6. ~Overlaps => Quiet' /\ Kept'
  <2> SUFFICES ASSUME ~Overlaps PROVE Quiet' /\ Kept'
    OBVIOUS
  <2>1. Thread!InFlight' = {}
    BY <1>1 DEF Thread!InFlight
  <2>2. Quiet'
    BY <1>1, <1>2, <1>3, <2>1 DEF Quiet
  <2>3. live # 0 => dying'
    BY <1>1 DEF Kept
  <2> QED BY <1>1, <1>2, <1>3, <2>2, <2>3 DEF Kept
<1> QED BY <1>4, <1>5, <1>6 DEF ThreadInv

\* The agent that was disposed of is gone, or all of them with the host.
LEMMA EndsInv ==
  ASSUME ThreadAssumption, ThreadInv, Thread!Gone \/ Thread!Restart PROVE ThreadInv'
<1>1. /\ ThreadTyped /\ Unsaid /\ (~Overlaps => Quiet /\ Kept)
      /\ live' = 0 /\ dying' = FALSE
      /\ UNCHANGED <<made, lives, threadLog, picked, step, turn, closed, clears>>
  BY DEF ThreadInv, Thread!Gone, Thread!Restart, Thread!inbox
<1>2. 0 \in 0..MaxLives /\ ~dying' /\ dying' \in BOOLEAN
  <2>1. 0 \in 0..MaxLives
    BY DEF ThreadAssumption, Thread!BoundsAssumption
  <2>2. ~dying' /\ dying' \in BOOLEAN
    BY <1>1
  <2> QED BY <2>1, <2>2
<1>3. /\ ~parked' /\ parked' \in BOOLEAN /\ disposer' \in 0..MaxLives
      /\ ref' \in [on: 0..MaxLives, current: Models] /\ (~Overlaps => ref'.on = 0)
      /\ call' \in [Calls -> Thread!CallState] /\ Thread!InFlight' \subseteq Thread!InFlight
  <2>1. CASE Thread!Gone
    <3>1. dying /\ UNCHANGED <<parked, ref, disposer, call>>
      BY <2>1 DEF Thread!Gone, Thread!maps
    <3>2. ~parked
      BY <1>1, <3>1 DEF Unsaid
    <3>3. ~Overlaps => ref.on = 0
      BY <1>1, <3>1 DEF Quiet
    <3> QED BY <1>1, <3>1, <3>2, <3>3 DEF ThreadTyped, Thread!InFlight
  <2>2. CASE Thread!Restart
    <3>1. /\ parked' = FALSE /\ ref' = Thread!NoRef /\ disposer' = 0
          /\ call' = [c \in Calls |-> IF c \in Thread!InFlight THEN [at |-> "done"] ELSE call[c]]
      BY <2>2 DEF Thread!Restart
    <3>2. ~parked' /\ parked' \in BOOLEAN
      BY <3>1
    <3>3. ref' \in [on: 0..MaxLives, current: Models] /\ ref'.on = 0
      BY <1>2, <3>1 DEF Thread!NoRef, ThreadAssumption, Thread!DefaultAssumption
    <3>4. call' \in [Calls -> Thread!CallState] /\ Thread!InFlight' \subseteq Thread!InFlight
      BY <1>1, <3>1, CallStates DEF ThreadTyped, Thread!InFlight
    <3> QED BY <1>2, <3>1, <3>2, <3>3, <3>4
  <2> QED BY <2>1, <2>2
<1>4. ThreadTyped'
  BY <1>1, <1>2, <1>3 DEF ThreadTyped
<1>5. Unsaid'
  BY <1>1, <1>3 DEF Unsaid
<1>6. ~Overlaps => Quiet' /\ Kept'
  BY <1>1, <1>2, <1>3 DEF Quiet, Kept
<1> QED BY <1>4, <1>5, <1>6 DEF ThreadInv

\* The inbox is read or cleared: while a snapshot is parked there is nothing in it.
LEMMA InboxInv ==
  ASSUME ThreadAssumption, ThreadInv, Thread!Dequeue \/ Thread!Claim PROVE ThreadInv'
<1>1. /\ ThreadTyped /\ Unsaid /\ (~Overlaps => Quiet /\ Kept) /\ live # 0
      /\ UNCHANGED <<made, live, lives, dying, picked, parked, ref, disposer, call, closed>>
  BY DEF ThreadInv, Thread!Dequeue, Thread!Claim, Thread!runtime, Thread!maps
<1>2. parked => threadLog' = << >> /\ step' = << >> /\ turn' = << >>
  <2> SUFFICES ASSUME parked PROVE threadLog' = << >> /\ step' = << >> /\ turn' = << >>
    OBVIOUS
  <2>1. threadLog = << >> /\ step = << >> /\ turn = << >>
    BY <1>1 DEF Unsaid
  <2>2. CASE Thread!Dequeue
    BY <2>1, <2>2 DEF Thread!Dequeue
  <2>3. CASE Thread!Claim
    BY <2>1, <2>3 DEF Thread!Claim
  <2> QED BY <2>2, <2>3
<1>3. ThreadTyped'
  BY <1>1 DEF ThreadTyped
<1>4. Unsaid'
  BY <1>1, <1>2 DEF Unsaid, Thread!InFlight
<1>5. ~Overlaps => Quiet' /\ Kept'
  BY <1>1 DEF Quiet, Kept, Thread!InFlight
<1> QED BY <1>3, <1>4, <1>5 DEF ThreadInv

-----------------------------------------------------------------------------
(* The theorems. *)

LEMMA ThreadStep ==
  ASSUME ThreadAssumption, ThreadInv, [Thread!Next]_(Thread!vars) PROVE ThreadInv'
<1>1. CASE Thread!Next
  BY <1>1, StartInv, PromptInv, ModelInv, NormalizedInv, ResumedInv, RefusedInv, DisposeInv,
     EndsInv, InboxInv DEF Thread!Next
<1>2. CASE UNCHANGED Thread!vars
  BY <1>2 DEF Thread!vars, Thread!runtime, Thread!inbox, Thread!maps, ThreadInv, ThreadTyped,
     Unsaid, Quiet, Kept, Thread!InFlight
<1> QED BY <1>1, <1>2

\* The invariant of a thread and of the maps the routes keep about it
\* (sidechat-routes.ts).
THEOREM ThreadInvHolds == ASSUME ThreadAssumption PROVE Thread!Spec => []ThreadInv
<1>1. Thread!Init => ThreadInv
  BY ThreadInit
<1>2. ThreadInv /\ [Thread!Next]_(Thread!vars) => ThreadInv'
  BY ThreadStep
<1> QED BY <1>1, <1>2, PTL DEF Thread!Spec

\* Whatever calls, closes and restarts overlap: a parked snapshot waits for the
\* first contact and goes with it (pendingSnapshots).
THEOREM SnapshotGoesHolds ==
  ASSUME ThreadAssumption PROVE Thread!Spec => []Thread!SnapshotGoesWithBoundary
<1>1. ThreadInv => Thread!SnapshotGoesWithBoundary
  <2> SUFFICES ASSUME ThreadInv, parked PROVE ~ Thread!Contains(threadLog \o step, "boundary")
    BY DEF Thread!SnapshotGoesWithBoundary
  <2>1. threadLog \o step = << >>
    BY DEF ThreadInv, Unsaid
  <2> QED BY <2>1 DEF Thread!Contains
<1> QED BY <1>1, ThreadInvHolds, PTL

\* While no close overlaps a call, a closed thread leaves no agent, and a live one
\* requests with the model the log records, also after a resume (threadDisposers,
\* threadModelRefs).
THEOREM ThreadsHoldHolds ==
  ASSUME ThreadAssumption, ~Overlaps PROVE Thread!Spec => []Thread!ThreadsHold
<1>1. ThreadInv => Thread!ThreadsHold
  BY DEF ThreadInv, Quiet, Kept, Thread!ThreadsHold, Thread!ClosedIsReleased,
         Thread!SelectionHonoured
<1> QED BY <1>1, ThreadInvHolds, PTL
=============================================================================
