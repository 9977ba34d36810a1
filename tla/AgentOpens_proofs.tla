------------------------- MODULE AgentOpens_proofs -------------------------
(***************************************************************************)
(* Proofs about AgentOpens, for any number of sessions, calls, sockets,    *)
(* cuts and changes of the setting, and queues of any length: the pages    *)
(* the model asks for open once each and in the order of its calls, nothing *)
(* waits beside an attached view, what waits is the newest, and what was    *)
(* reported delivered was sent where a closed socket is known at once.      *)
(*                                                                         *)
(* An open goes from the queue of its session over the browser's one       *)
(* socket to the page.  The invariant says that each of the three holds     *)
(* calls of one session in the order of their enqueues, and only calls      *)
(* later than those in the one after it (Ordered); that the browser has one *)
(* socket, so that no two wires to the page carry one session's opens       *)
(* (OneSocket); and that every call is enqueued once (EnqueuedOnce), which  *)
(* makes the order of the enqueues an order of calls.                       *)
(*                                                                         *)
(* The last part is about the terminals the model owns (AgentPty).         *)
(***************************************************************************)
EXTENDS AgentOpens, SequenceTheorems, TLAPS

-----------------------------------------------------------------------------
(* The inductive invariant. *)

\* Types: of the gate and the browser's loop; of the calls, their queues and the
\* history; and of both ends of the sockets.
LoopTypes ==
  /\ saved \in BOOLEAN /\ prefs \in BOOLEAN /\ registered \in BOOLEAN /\ down \in BOOLEAN
  /\ mounted \in Sessions \cup {None} /\ socket \in Views \cup {None}
  /\ failures \in Nat /\ retrying \in BOOLEAN
CallTypes ==
  /\ call \in [Calls -> [phase : Phases, session : Sessions]]
  /\ pending \in [Sessions -> Seq(Calls)] /\ wire \in [Views -> Seq(Calls)]
  /\ enqueued \in Seq(Calls) /\ applied \in Seq(Calls) /\ unsent \subseteq Calls
LinkTypes ==
  /\ subscribers \in [Sessions -> SUBSET Views]
  /\ browser \in [Views -> {"unused", "connecting", "open", "closed"}]
  /\ host \in [Views -> {"none", "open", "closing", "gone"}]
  /\ session \in [Views -> Sessions]
  /\ \A s \in Sessions, v \in Views :
       v \in subscribers[s] => session[v] = s /\ host[v] \in {"open", "closing"}
Types == LoopTypes /\ CallTypes /\ LinkTypes

\* The browser has one socket, of the session on screen; one it has not used is
\* unknown to the host, and carries nothing before the host accepted it.
OneSocket ==
  /\ \A v \in Views : browser[v] \in {"connecting", "open"} => v = socket
  /\ retrying => socket = None
  /\ retrying \/ socket # None => mounted # None
  /\ \A v \in Views :
       /\ browser[v] \in {"unused", "connecting"} => host[v] = "none"
       /\ host[v] = "none" => wire[v] = << >>

\* In the order e of enqueues, call k is before l.
Before(e, k, l) == \E a, b \in DOMAIN e : a < b /\ e[a] = k /\ e[b] = l

\* Every call is enqueued once, after its session's folder was known.
EnqueuedOnce ==
  /\ \A a, b \in DOMAIN enqueued : enqueued[a] = enqueued[b] => a = b
  /\ \A k \in Calls :
       call[k].phase \in {"idle", "asking", "refused"} =>
         (\A a \in DOMAIN enqueued : enqueued[a] # k) /\ k \notin unsent

\* The elements of q are elements of e.
Within(q, e) == \A i \in DOMAIN q : \E a \in DOMAIN e : e[a] = q[i]

\* q holds calls of session s (as c has it), in the order e of their enqueues.
InOrder(q, s, c, e) ==
  /\ Within(q, e)
  /\ \A i \in DOMAIN q : c[q[i]].session = s
  /\ \A i, j \in DOMAIN q : i < j => Before(e, q[i], q[j])

\* What q holds comes after the calls of session s in p.
After(p, q, s, c, e) ==
  \A i \in DOMAIN p, j \in DOMAIN q : c[p[i]].session = s => Before(e, p[i], q[j])

\* An open goes from the queue of its session over the socket of the browser to the
\* page: each of these holds later calls than the one after it.
AppliedOrdered ==
  /\ Within(applied, enqueued)
  /\ \A i, j \in DOMAIN applied :
       i < j /\ call[applied[i]].session = call[applied[j]].session
         => Before(enqueued, applied[i], applied[j])
QueueOrdered(s) ==
  /\ InOrder(pending[s], s, call, enqueued)
  /\ After(applied, pending[s], s, call, enqueued)
WireOrdered(v) ==
  /\ InOrder(wire[v], session[v], call, enqueued)
  /\ After(applied, wire[v], session[v], call, enqueued)
  /\ After(wire[v], pending[session[v]], session[v], call, enqueued)
Ordered ==
  /\ AppliedOrdered
  /\ \A s \in Sessions : QueueOrdered(s)
  /\ \A v \in Views : browser[v] = "open" => WireOrdered(v)

\* An attached view's socket is open, if its close is known at once.
AttachedIsOpen ==
  ~Window => \A s \in Sessions : \A v \in subscribers[s] : host[v] = "open"

Inv ==
  /\ Types /\ OneSocket /\ EnqueuedOnce /\ Ordered
  /\ NothingWaitsWhileAttached /\ NewestWait
  /\ AttachedIsOpen /\ (~Window => DeliveredWasSent)

-----------------------------------------------------------------------------
(* The operators. *)

\* The queue keeps its newest opens, in their order.
LEMMA KeptNewest ==
  ASSUME NEW q \in Seq(Calls)
  PROVE  /\ Kept(q) \in Seq(Calls) /\ Len(Kept(q)) <= QueueMax
         /\ \E n \in 0..Len(q) :
              /\ n > 0 => n = Len(q) - QueueMax
              /\ Len(Kept(q)) = Len(q) - n
              /\ \A i \in 1..Len(q) - n : Kept(q)[i] = q[i + n]
<1>1. Len(q) \in Nat /\ QueueMax \in Nat \ {0}
  BY ConstantsAssumption DEF ConstantsAssumption
<1>2. CASE Len(q) > QueueMax
  <2>1. PICK n \in 0..Len(q) : n = Len(q) - QueueMax
    BY SMTT(40), <1>1, <1>2
  <2>2. Kept(q) = SubSeq(q, n + 1, Len(q)) /\ n + 1 <= Len(q) /\ Len(q) - n = QueueMax
    BY <1>1, <1>2, <2>1 DEF Kept
  <2>3. \A i \in n + 1 .. Len(q) : q[i] \in Calls
    BY <1>1
  <2>4. /\ Kept(q) \in Seq(Calls) /\ Len(Kept(q)) = QueueMax
        /\ \A i \in 1 .. Len(q) - n : Kept(q)[i] = q[i + n]
    BY <1>1, <2>1, <2>2, <2>3, SubSeqProperties
  <2>5. /\ n > 0 => n = Len(q) - QueueMax
        /\ Len(Kept(q)) = Len(q) - n /\ Len(Kept(q)) <= QueueMax
    BY <1>1, <2>1, <2>2, <2>4
  <2> QED
    BY <2>4, <2>5
<1>3. CASE ~(Len(q) > QueueMax)
  <2>1. Kept(q) = q
    BY <1>3 DEF Kept
  <2> QED
    BY <1>1, <1>3, <2>1
<1> QED
  BY <1>2, <1>3

\* f is e with k at its end.
Grown(e, k, f) == f = Append(e, k)

\* A sequence grows at its end.
LEMMA Appends ==
  ASSUME NEW e \in Seq(Calls), NEW k \in Calls, NEW f, Grown(e, k, f)
  PROVE  /\ f \in Seq(Calls) /\ f # e /\ Len(f) = Len(e) + 1 /\ Len(e) \in Nat
         /\ DOMAIN e = 1..Len(e) /\ DOMAIN f = 1..Len(e) + 1 /\ f[Len(e) + 1] = k
         /\ \A i \in DOMAIN e : i \in DOMAIN f /\ f[i] = e[i]
         /\ \A i \in DOMAIN f : i \in DOMAIN e \/ (i = Len(e) + 1 /\ f[i] = k)
<1>1. /\ Len(f) = Len(e) + 1 /\ Len(e) \in Nat /\ f \in Seq(Calls)
      /\ DOMAIN e = 1..Len(e) /\ DOMAIN f = 1..Len(e) + 1 /\ f[Len(e) + 1] = k
      /\ \A i \in DOMAIN e : f[i] = e[i]
  BY DEF Grown
<1>2. f # e
  <2>1. SUFFICES ASSUME f = e PROVE FALSE
    OBVIOUS
  <2>2. Len(f) = Len(e)
    BY <2>1
  <2> QED
    BY <1>1, <2>2
<1>3. \A i \in DOMAIN e : i \in DOMAIN f
  BY <1>1
<1>4. \A i \in DOMAIN f : i \in DOMAIN e \/ i = Len(e) + 1
  BY <1>1
<1> QED
  BY <1>1, <1>2, <1>3, <1>4

\* The call that is enqueued is the last of all.
LEMMA EnqueuedLast ==
  ASSUME NEW e \in Seq(Calls), NEW k \in Calls, NEW f, Grown(e, k, f)
  PROVE  /\ f \in Seq(Calls)
         /\ \A x, y : Before(e, x, y) => Before(f, x, y)
         /\ \A a \in DOMAIN e : Before(f, e[a], k)
         /\ DOMAIN e \subseteq DOMAIN f
         /\ \A a \in DOMAIN e : f[a] = e[a]
         /\ \A a \in DOMAIN f : a \in DOMAIN e \/ (a = Len(e) + 1 /\ f[a] = k)
         /\ \E a \in DOMAIN f : f[a] = k
         /\ \A a \in DOMAIN e : a < Len(e) + 1
<1>1. /\ DOMAIN e = 1..Len(e) /\ DOMAIN f = 1..Len(e) + 1
      /\ Len(e) \in Nat /\ f[Len(e) + 1] = k /\ f \in Seq(Calls)
      /\ \A a \in DOMAIN e : f[a] = e[a]
  BY Appends
<1>2. ASSUME NEW x, NEW y, Before(e, x, y) PROVE Before(f, x, y)
  BY <1>1, <1>2 DEF Before
<1>3. ASSUME NEW a \in DOMAIN e PROVE Before(f, e[a], k)
  <2>1. a \in DOMAIN f /\ Len(e) + 1 \in DOMAIN f /\ a < Len(e) + 1 /\ f[a] = e[a]
    BY <1>1
  <2> QED
    BY <1>1, <2>1 DEF Before
<1> QED
  BY <1>1, <1>2, <1>3

\* Before is the order of the enqueues, each call once.
LEMMA BeforeOrders ==
  ASSUME enqueued \in Seq(Calls), EnqueuedOnce, NEW a \in DOMAIN enqueued, NEW b \in DOMAIN enqueued,
         Before(enqueued, enqueued[a], enqueued[b])
  PROVE  a < b
  BY DEF EnqueuedOnce, Before

-----------------------------------------------------------------------------
(* Steps that enqueue nothing. *)

\* The phases of calls that an action other than Enqueue leaves.
CallsStay ==
  /\ UNCHANGED <<enqueued, unsent>>
  /\ call' \in [Calls -> [phase : Phases, session : Sessions]]
  /\ \A k \in Calls :
       /\ call'[k].session = call[k].session
       /\ call'[k].phase \in {"idle", "asking", "refused"} =>
            call[k].phase \in {"idle", "asking", "refused"}
       /\ call'[k].phase = "delivered" => call[k].phase = "delivered"

\* No queue grows.
QueuesStay == \A s \in Sessions : pending'[s] = pending[s] \/ pending'[s] = << >>

\* Nothing is sent or applied, and no socket opens.
StreamsStay ==
  /\ UNCHANGED applied
  /\ \A v \in Views : browser'[v] = "open" =>
       browser[v] = "open" /\ session'[v] = session[v] /\ wire'[v] = wire[v]

\* Then what is said of the calls' order and of their queues stays true.
LEMMA CallsKept ==
  ASSUME Inv, CallsStay, QueuesStay
  PROVE  EnqueuedOnce' /\ NewestWait' /\ (~Window => DeliveredWasSent)'
<1>1. EnqueuedOnce'
  BY DEF Inv, CallsStay, EnqueuedOnce
<1>2. (~Window => DeliveredWasSent)'
  BY DEF Inv, CallsStay, DeliveredWasSent
<1>3. NewestWait'
  <2> SUFFICES ASSUME NEW s \in Sessions
               PROVE  /\ Len(pending'[s]) <= QueueMax
                      /\ \A i, j \in DOMAIN enqueued' :
                           /\ i < j /\ call'[enqueued'[i]].session = s /\ call'[enqueued'[j]].session = s
                           /\ enqueued'[i] \in ToSet(pending'[s])
                           => enqueued'[j] \in ToSet(pending'[s])
    BY DEF NewestWait
  <2>1. CASE pending'[s] = pending[s]
    <3>1. /\ Len(pending[s]) <= QueueMax
          /\ \A i, j \in DOMAIN enqueued :
               /\ i < j /\ call[enqueued[i]].session = s /\ call[enqueued[j]].session = s
               /\ enqueued[i] \in ToSet(pending[s])
               => enqueued[j] \in ToSet(pending[s])
      BY DEF Inv, NewestWait
    <3>2. enqueued' = enqueued /\ \A i \in DOMAIN enqueued : call'[enqueued[i]].session = call[enqueued[i]].session
      BY DEF Inv, Types, CallTypes, CallsStay
    <3> QED
      BY <2>1, <3>1, <3>2
  <2>2. CASE pending'[s] = << >>
    <3>1. ToSet(pending'[s]) = {} /\ Len(pending'[s]) <= QueueMax
      BY <2>2, ConstantsAssumption DEF ToSet, ConstantsAssumption
    <3> QED
      BY <3>1
  <2> QED
    BY <2>1, <2>2 DEF QueuesStay
<1> QED
  BY <1>1, <1>2, <1>3

LEMMA OrderKept ==
  ASSUME Inv, CallsStay, QueuesStay, StreamsStay
  PROVE  Ordered'
<1>1. /\ applied' = applied /\ applied \in Seq(Calls) /\ enqueued' = enqueued
      /\ \A k \in Calls : call'[k].session = call[k].session
      /\ \A s \in Sessions : pending[s] \in Seq(Calls)
      /\ \A v \in Views : wire[v] \in Seq(Calls)
  BY DEF Inv, Types, CallTypes, CallsStay, StreamsStay
<1>2. \A q \in Seq(Calls), s \in Sessions :
        InOrder(q, s, call, enqueued) => InOrder(q, s, call', enqueued')
  BY <1>1 DEF InOrder
<1>3. \A p \in Seq(Calls) : \A q, s :
        After(p, q, s, call, enqueued) => After(p, q, s, call', enqueued')
  BY <1>1 DEF After
<1>4. ASSUME NEW s, NEW p PROVE InOrder(<< >>, s, call', enqueued') /\ After(p, << >>, s, call', enqueued')
  BY DEF InOrder, After, Within
<1>5. ASSUME NEW s \in Sessions PROVE QueueOrdered(s)'
  <2>1. QueueOrdered(s)
    BY DEF Inv, Ordered
  <2> QED
    BY <1>1, <1>2, <1>3, <1>4, <2>1 DEF QueueOrdered, QueuesStay
<1>6. ASSUME NEW v \in Views, browser'[v] = "open" PROVE WireOrdered(v)'
  <2>1. browser[v] = "open" /\ session'[v] = session[v] /\ wire'[v] = wire[v] /\ session[v] \in Sessions
    BY <1>6 DEF StreamsStay, Inv, Types, LinkTypes
  <2>2. WireOrdered(v)
    BY <2>1 DEF Inv, Ordered
  <2> QED
    BY <1>1, <1>2, <1>3, <1>4, <2>1, <2>2 DEF WireOrdered, QueuesStay
<1>7. AppliedOrdered'
  BY <1>1 DEF AppliedOrdered, Inv, Ordered
<1> QED
  BY <1>5, <1>6, <1>7 DEF Ordered
-----------------------------------------------------------------------------
(* The steps. *)

LEMMA InvInit == ASSUME Init PROVE Inv
<1>1. (CHOOSE s \in Sessions : TRUE) \in Sessions
  BY ConstantsAssumption DEF ConstantsAssumption
<1>2. call \in [Calls -> [phase : Phases, session : Sessions]]
  <2>1. [phase : {"idle"}, session : Sessions] \subseteq [phase : Phases, session : Sessions]
    BY DEF Phases
  <2> QED
    BY <2>1 DEF Init
<1>3. LoopTypes
  BY DEF LoopTypes, Init
<1>4. CallTypes
  BY <1>2 DEF CallTypes, Init
<1>5. LinkTypes
  BY <1>1 DEF LinkTypes, Init
<1>6. OneSocket /\ AttachedIsOpen /\ EnqueuedOnce /\ NothingWaitsWhileAttached
  BY DEF OneSocket, AttachedIsOpen, EnqueuedOnce, NothingWaitsWhileAttached, Init
<1>7. Ordered
  BY DEF Ordered, AppliedOrdered, QueueOrdered, InOrder, After, Within, Init
<1>8. NewestWait /\ DeliveredWasSent
  BY ConstantsAssumption DEF NewestWait, DeliveredWasSent, Init, ConstantsAssumption
<1> QED
  BY <1>3, <1>4, <1>5, <1>6, <1>7, <1>8 DEF Inv, Types

\* A call goes on to another phase, and stays with its session.
LEMMA GoesOn ==
  ASSUME call \in [Calls -> [phase : Phases, session : Sessions]],
         NEW k \in Calls, NEW ph \in Phases, call' = [call EXCEPT ![k].phase = ph]
  PROVE  /\ call' \in [Calls -> [phase : Phases, session : Sessions]]
         /\ \A l \in Calls : /\ call'[l].session = call[l].session
                            /\ call'[l].phase = IF l = k THEN ph ELSE call[l].phase
  OBVIOUS

\* The setting, the tool's checks and the teardown touch no socket of the browser.
LEMMA InvSettings ==
  ASSUME Inv,
         \/ Save \/ ReadSettings \/ Teardown
         \/ \E k \in Calls : Ask(k) \/ Refuse(k)
         \/ UNCHANGED vars
  PROVE  Inv'
<1> USE DEF loop, links, registry, gate, history, vars
<1> DEFINE Aside ==
      /\ UNCHANGED <<enqueued, applied, unsent, mounted, socket, failures, retrying, browser,
                     session, wire>>
      /\ saved' \in BOOLEAN /\ prefs' \in BOOLEAN /\ registered' \in BOOLEAN /\ down' \in BOOLEAN
      /\ pending' \in [Sessions -> Seq(Calls)] /\ QueuesStay
      /\ subscribers' \in [Sessions -> SUBSET Views]
      /\ host' \in [Views -> {"none", "open", "closing", "gone"}]
      /\ \A v \in Views : host'[v] = host[v] \/ (host[v] = "open" /\ host'[v] = "closing")
      /\ \A s \in Sessions : subscribers'[s] = {} \/ (subscribers'[s] = subscribers[s] /\ host' = host)
<1>t. LoopTypes /\ CallTypes /\ LinkTypes
  BY DEF Inv, Types
<1>1. Aside /\ CallsStay
  <2>1. CASE Save \/ UNCHANGED vars
    <3>1. Aside
      BY <1>t, <2>1 DEF Save, LoopTypes, CallTypes, LinkTypes, QueuesStay
    <3>2. UNCHANGED <<call, enqueued, unsent>>
      BY <2>1 DEF Save
    <3> QED
      BY <1>t, <3>1, <3>2 DEF CallsStay, CallTypes
  <2>2. CASE ReadSettings
    <3>1. Aside
      BY <1>t, <2>2 DEF ReadSettings, LoopTypes, CallTypes, LinkTypes, QueuesStay
    <3>2. UNCHANGED <<call, enqueued, unsent>>
      BY <2>2 DEF ReadSettings
    <3> QED
      BY <1>t, <3>1, <3>2 DEF CallsStay, CallTypes
  <2>3. CASE Teardown
    <3>3. /\ host' \in [Views -> {"none", "open", "closing", "gone"}]
          /\ \A v \in Views : host'[v] = host[v] \/ (host[v] = "open" /\ host'[v] = "closing")
      BY <1>t, <2>3 DEF Teardown, LinkTypes
    <3>4. /\ pending' \in [Sessions -> Seq(Calls)] /\ QueuesStay
          /\ subscribers' \in [Sessions -> SUBSET Views]
          /\ \A s \in Sessions : subscribers'[s] = {}
      BY <1>t, <2>3 DEF Teardown, CallTypes, QueuesStay
    <3>1. Aside
      BY <1>t, <2>3, <3>3, <3>4 DEF Teardown, LoopTypes
    <3>2. UNCHANGED <<call, enqueued, unsent>>
      BY <2>3 DEF Teardown
    <3> QED
      BY <1>t, <3>1, <3>2 DEF CallsStay, CallTypes
  <2>4. ASSUME NEW k \in Calls, Ask(k) \/ Refuse(k) PROVE Aside /\ CallsStay
    <3>1. Aside
      BY <1>t, <2>4 DEF Ask, Refuse, LoopTypes, CallTypes, LinkTypes, QueuesStay
    <3>2. PICK ph \in Phases : /\ call' = [call EXCEPT ![k].phase = ph] /\ ph # "delivered"
                                     /\ call[k].phase \in {"idle", "asking"}
      BY <2>4 DEF Ask, Refuse, Phases
    <3>3. /\ call' \in [Calls -> [phase : Phases, session : Sessions]]
          /\ \A l \in Calls : /\ call'[l].session = call[l].session
                             /\ call'[l].phase = IF l = k THEN ph ELSE call[l].phase
      BY <1>t, <3>2, GoesOn DEF CallTypes
    <3>4. UNCHANGED <<enqueued, unsent>>
      BY <2>4 DEF Ask, Refuse
    <3> QED
      BY <3>1, <3>2, <3>3, <3>4 DEF CallsStay
  <2> QED
    BY <2>1, <2>2, <2>3, <2>4
<1>2. Types'
  <2>1. LoopTypes' /\ CallTypes'
    BY <1>t, <1>1 DEF LoopTypes, CallTypes, CallsStay
  <2>2. LinkTypes'
    BY <1>t, <1>1 DEF LinkTypes
  <2> QED
    BY <2>1, <2>2 DEF Types
<1>3. OneSocket'
  BY <1>1 DEF Inv, OneSocket
<1>4. AttachedIsOpen'
  BY <1>1 DEF Inv, AttachedIsOpen
<1>5. NothingWaitsWhileAttached'
  BY <1>1 DEF Inv, NothingWaitsWhileAttached, QueuesStay
<1>6. StreamsStay
  BY <1>1 DEF StreamsStay
<1> QED
  BY <1>1, <1>2, <1>3, <1>4, <1>5, <1>6, CallsKept, OrderKept DEF Inv

\* The browser's loop and the connection: the one socket moves on.
LEMMA InvLoop ==
  ASSUME Inv, NEW v \in Views,
         \/ \E s \in Sessions : Switch(s, v)
         \/ Retry(v) \/ Cut(v) \/ Refused(v)
         \/ Closing(v) \/ HostClosed(v)
  PROVE  Inv'
<1> USE DEF loop, links, registry, gate, history
<1>t. LoopTypes /\ CallTypes /\ LinkTypes /\ OneSocket
  BY DEF Inv, Types
<1> DEFINE
  Still == UNCHANGED <<saved, prefs, registered, down, call, enqueued, applied, unsent, pending>>
  Wires == /\ wire' \in [Views -> Seq(Calls)]
           /\ \A u \in Views : browser'[u] = "open" =>
                browser[u] = "open" /\ session'[u] = session[u] /\ wire'[u] = wire[u]
  Joined ==
      /\ \A s \in Sessions : subscribers'[s] \subseteq subscribers[s]
      /\ ~Window => \A s \in Sessions : \A u \in subscribers'[s] : host'[u] = host[u]
  Goal == Still /\ Wires /\ Joined /\ LoopTypes' /\ LinkTypes' /\ OneSocket'
<1>1. ASSUME NEW s \in Sessions, Switch(s, v) PROVE Goal
  <2>1. /\ \A u \in Views \ {v} : browser'[u] \in {browser[u], "closed"} /\ browser'[u] \in {"unused", "closed"}
        /\ browser[v] = "unused" /\ browser'[v] = "connecting"
        /\ browser' \in [Views -> {"unused", "connecting", "open", "closed"}]
    BY <1>t, <1>1 DEF Switch, Left, LoopTypes, LinkTypes, OneSocket
  <2>2. /\ UNCHANGED <<host, wire, subscribers>> /\ session' = [session EXCEPT ![v] = s]
        /\ mounted' = s /\ socket' = v /\ failures' = 0 /\ retrying' = FALSE
    BY <1>1 DEF Switch
  <2>3. Still
    BY <1>1 DEF Switch
  <2>4. LoopTypes'
    BY <1>t, <2>2, <2>3 DEF LoopTypes
  <2>5. LinkTypes' /\ Wires
    BY <1>t, <2>1, <2>2 DEF LinkTypes, OneSocket, CallTypes
  <2>6. OneSocket'
    BY <1>t, <2>1, <2>2, ConstantsAssumption DEF OneSocket, LinkTypes, ConstantsAssumption
  <2>7. Joined
    BY <2>2
  <2> QED
    BY <2>3, <2>4, <2>5, <2>6, <2>7
<1>2. ASSUME Retry(v) PROVE Goal
  <2>1. /\ UNCHANGED <<host, wire, subscribers, mounted, failures>>
        /\ session' = [session EXCEPT ![v] = mounted] /\ browser' = [browser EXCEPT ![v] = "connecting"]
        /\ socket' = v /\ retrying' = FALSE /\ retrying /\ browser[v] = "unused"
    BY <1>2 DEF Retry
  <2>2. Still
    BY <1>2 DEF Retry
  <2>3. LoopTypes' /\ Joined
    BY <1>t, <2>1, <2>2 DEF LoopTypes
  <2>4. LinkTypes' /\ Wires
    BY SMTT(40), <1>t, <2>1 DEF LinkTypes, OneSocket, CallTypes, LoopTypes
  <2>5. OneSocket'
    BY <1>t, <2>1, ConstantsAssumption DEF OneSocket, LinkTypes, LoopTypes, ConstantsAssumption
  <2> QED
    BY <2>2, <2>3, <2>4, <2>5
<1>3. ASSUME Cut(v) \/ Refused(v) PROVE Goal
  <2>1. /\ UNCHANGED <<subscribers, mounted, session>>
        /\ browser' = [browser EXCEPT ![v] = "closed"] /\ browser[v] \in {"connecting", "open"}
        /\ \/ host' = host /\ wire' = [wire EXCEPT ![v] = << >>]
           \/ wire' = wire /\ host' = [host EXCEPT ![v] = "gone"] /\ browser[v] = "connecting"
    BY <1>3 DEF Cut, Refused
  <2>2. v = socket /\ socket' = None /\ failures' = failures + 1 /\ retrying' \in BOOLEAN
    <3>1. OnClose(v)
      BY <1>3 DEF Cut, Refused
    <3>2. v = socket
      BY <1>t, <2>1 DEF OneSocket
    <3>3. socket' = None /\ failures' = failures + 1 /\ retrying' = MayRetry(failures + 1)
      BY <3>1, <3>2 DEF OnClose
    <3>4. MayRetry(failures + 1) \in BOOLEAN
      BY DEF MayRetry
    <3> QED
      BY <3>2, <3>3, <3>4
  <2>3. Still
    BY <1>3 DEF Cut, Refused
  <2>4. LoopTypes'
    BY <1>t, <2>1, <2>2, <2>3 DEF LoopTypes
  <2>5. Wires
    <3>1. wire' \in [Views -> Seq(Calls)] /\ \A u \in Views \ {v} : wire'[u] = wire[u]
      <4>1. << >> \in Seq(Calls)
        OBVIOUS
      <4>2. CASE wire' = wire
        BY <1>t, <4>2 DEF CallTypes
      <4>3. CASE wire' = [wire EXCEPT ![v] = << >>]
        BY <1>t, <4>1, <4>3 DEF CallTypes
      <4> QED
        BY <2>1, <4>2, <4>3
    <3>2. browser'[v] = "closed" /\ \A u \in Views \ {v} : browser'[u] = browser[u]
      BY <1>t, <2>1 DEF LinkTypes
    <3> QED
      BY <2>1, <3>1, <3>2
  <2>6. host[v] = "none" \/ host' = host
    BY <1>t, <2>1 DEF OneSocket
  <2>7. LinkTypes' /\ Joined
    BY <1>t, <2>1, <2>6 DEF LinkTypes
  <2>8. OneSocket'
    BY <1>t, <2>1, <2>2, ConstantsAssumption DEF OneSocket, LinkTypes, LoopTypes, ConstantsAssumption, CallTypes
  <2> QED
    BY <2>3, <2>4, <2>5, <2>7, <2>8
<1>4. ASSUME Closing(v) \/ HostClosed(v) PROVE Goal
  <2>1. /\ UNCHANGED <<mounted, socket, failures, retrying, browser, session, wire>>
        /\ host[v] \in {"open", "closing"}
        /\ \/ Window /\ subscribers' = subscribers /\ host' = [host EXCEPT ![v] = "closing"]
           \/ /\ subscribers' = [subscribers EXCEPT ![session[v]] = @ \ {v}]
              /\ host' = [host EXCEPT ![v] = "gone"]
    BY <1>4 DEF Closing, HostClosed, Detached
  <2>2. Still
    BY <1>4 DEF Closing, HostClosed
  <2>3. LoopTypes' /\ Wires
    BY <1>t, <2>1, <2>2 DEF LoopTypes, CallTypes
  <2>4. LinkTypes' /\ Joined
    BY <1>t, <2>1 DEF LinkTypes
  <2>5. OneSocket'
    BY <1>t, <2>1 DEF OneSocket, LinkTypes
  <2> QED
    BY <2>2, <2>3, <2>4, <2>5
<1>5. Goal
  BY <1>1, <1>2, <1>3, <1>4
<1>6. CallsStay /\ QueuesStay /\ StreamsStay /\ CallTypes'
  BY <1>t, <1>5 DEF CallsStay, QueuesStay, StreamsStay, CallTypes
<1>7. AttachedIsOpen' /\ NothingWaitsWhileAttached'
  BY <1>5 DEF Inv, AttachedIsOpen, NothingWaitsWhileAttached
<1> QED
  BY <1>5, <1>6, <1>7, CallsKept, OrderKept DEF Inv, Types
\* A view that attaches gets what waits.
LEMMA InvAccept ==
  ASSUME Inv, NEW v \in Views, Accept(v)
  PROVE  Inv'
<1> USE DEF loop, links, registry, gate, history
<1> DEFINE s == session[v]
<1>t. LoopTypes /\ CallTypes /\ LinkTypes /\ OneSocket /\ s \in Sessions /\ pending[s] \in Seq(Calls)
  BY DEF Inv, Types, LinkTypes, CallTypes
<1>1. /\ UNCHANGED <<saved, prefs, registered, call, mounted, socket, failures, retrying, session,
                     down, enqueued, applied, unsent>>
      /\ host[v] = "none" /\ host' = [host EXCEPT ![v] = "open"]
      /\ subscribers' = [subscribers EXCEPT ![s] = @ \cup {v}]
      /\ browser' = [browser EXCEPT ![v] = IF @ = "connecting" THEN "open" ELSE @]
      /\ browser[v] \in {"connecting", "closed"}
  BY DEF Accept
<1>2. pending' = [pending EXCEPT ![s] = << >>]
  BY <1>t DEF Accept, Replayed, Consumed, CallTypes
<1>3. wire' = IF browser[v] = "connecting" THEN [wire EXCEPT ![v] = pending[s]] ELSE wire
  <2>1. wire[v] = << >> /\ << >> \o pending[s] = pending[s]
    BY <1>t, <1>1 DEF OneSocket
  <2> QED
    BY <1>t, <2>1 DEF Accept, Replayed, CallTypes
<1>4. LoopTypes' /\ CallTypes'
  BY <1>t, <1>1, <1>2, <1>3 DEF LoopTypes, CallTypes
<1>5. LinkTypes'
  BY <1>t, <1>1 DEF LinkTypes
<1>6. OneSocket'
  BY <1>t, <1>1, <1>3 DEF OneSocket, LinkTypes, CallTypes
<1>7. CallsStay /\ QueuesStay
  BY <1>t, <1>1, <1>2 DEF CallsStay, CallTypes, QueuesStay
<1>8. AttachedIsOpen' /\ NothingWaitsWhileAttached'
  <2>1. ASSUME ~Window, NEW r \in Sessions, NEW u \in subscribers'[r] PROVE host'[u] = "open"
    BY <1>t, <1>1, <2>1 DEF Inv, AttachedIsOpen, LinkTypes
  <2>2. ASSUME NEW r \in Sessions, subscribers'[r] # {} PROVE pending'[r] = << >>
    BY <1>t, <1>1, <1>2, <2>2 DEF Inv, NothingWaitsWhileAttached, LinkTypes, CallTypes
  <2> QED
    BY <2>1, <2>2 DEF AttachedIsOpen, NothingWaitsWhileAttached
<1>9. Ordered'
  <2>1. AppliedOrdered' /\ QueueOrdered(s)
    BY <1>t, <1>1 DEF Inv, Ordered, AppliedOrdered
  <2>2. ASSUME NEW r \in Sessions PROVE QueueOrdered(r)'
    <3>1. QueueOrdered(r) /\ pending'[r] \in {pending[r], << >>}
      BY <1>t, <1>2 DEF Inv, Ordered, CallTypes
    <3>2. InOrder(<< >>, r, call, enqueued) /\ After(applied, << >>, r, call, enqueued)
      BY DEF InOrder, After, Within
    <3> QED
      BY <1>1, <3>1, <3>2 DEF QueueOrdered
  <2>3. ASSUME NEW u \in Views, browser'[u] = "open" PROVE WireOrdered(u)'
    <3>1. CASE u = v
      <4>1. wire'[v] = pending[s] /\ session'[v] = s /\ pending'[s] = << >>
        BY <1>t, <1>1, <1>2, <1>3, <2>3, <3>1 DEF LinkTypes, CallTypes
      <4> QED
        BY <1>1, <2>1, <3>1, <4>1 DEF WireOrdered, QueueOrdered, After
    <3>2. CASE u # v
      <4>1. /\ browser[u] = "open" /\ wire'[u] = wire[u] /\ session'[u] = session[u]
            /\ pending'[session[u]] \in {pending[session[u]], << >>}
        BY <1>t, <1>1, <1>2, <1>3, <2>3, <3>2 DEF LinkTypes, CallTypes
      <4>2. WireOrdered(u)
        BY <4>1 DEF Inv, Ordered
      <4> QED
        BY <1>1, <4>1, <4>2 DEF WireOrdered, After
    <3> QED
      BY <3>1, <3>2
  <2> QED
    BY <2>1, <2>2, <2>3 DEF Ordered
<1> QED
  BY <1>4, <1>5, <1>6, <1>7, <1>8, <1>9, CallsKept DEF Inv, Types

\* The page opens what came first.
LEMMA InvReceive ==
  ASSUME Inv, NEW v \in Views, Receive(v)
  PROVE  Inv'
<1> USE DEF loop, links, registry, gate, history
<1> DEFINE q == Tail(wire[v])
           s == session[v]
<1>t. /\ LoopTypes /\ CallTypes /\ LinkTypes /\ OneSocket /\ wire[v] \in Seq(Calls) /\ s \in Sessions
      /\ pending[s] \in Seq(Calls)
  BY DEF Inv, Types, CallTypes, LinkTypes
<1>0. PICK k \in Calls : k = Head(wire[v])
  BY <1>t DEF Receive
<1>1. /\ UNCHANGED <<saved, prefs, registered, pending, subscribers, call, mounted, socket, failures,
                     retrying, browser, host, session, down, enqueued, unsent>>
      /\ wire[v] # << >> /\ browser[v] = "open" /\ wire' = [wire EXCEPT ![v] = q]
      /\ applied' = applied \/ applied' = Append(applied, k)
  BY <1>0 DEF Receive
<1>2. /\ k \in Calls /\ q \in Seq(Calls) /\ k = wire[v][1] /\ Len(q) = Len(wire[v]) - 1
      /\ \A i \in DOMAIN q : i + 1 \in DOMAIN wire[v] /\ q[i] = wire[v][i + 1] /\ 1 < i + 1
      /\ 1 \in DOMAIN wire[v]
  BY <1>t, <1>0, <1>1
<1>3. LoopTypes' /\ CallTypes' /\ LinkTypes' /\ OneSocket'
  <2>0. LoopTypes'
    BY <1>t, <1>1 DEF LoopTypes
  <2>1. CallTypes'
    <3>0. applied \in Seq(Calls)
      BY <1>t DEF CallTypes
    <3>1. applied' \in Seq(Calls)
      <4>1. CASE applied' = Append(applied, k)
        BY <3>0, <4>1, Appends DEF Grown
      <4> QED
        BY <1>1, <3>0, <4>1
    <3>2. wire' \in [Views -> Seq(Calls)]
      BY <1>t, <1>1, <1>2 DEF CallTypes
    <3> QED
      BY <1>t, <1>1, <3>1, <3>2 DEF CallTypes
  <2>2. LinkTypes'
    BY <1>t, <1>1 DEF LinkTypes
  <2>3. OneSocket'
    BY <1>t, <1>1 DEF OneSocket, CallTypes
  <2> QED
    BY <2>0, <2>1, <2>2, <2>3
<1>4. CallsStay /\ QueuesStay /\ AttachedIsOpen' /\ NothingWaitsWhileAttached'
  BY <1>t, <1>1 DEF CallsStay, CallTypes, QueuesStay, Inv, AttachedIsOpen,
                    NothingWaitsWhileAttached
<1>5. WireOrdered(v) /\ AppliedOrdered
  BY <1>1 DEF Inv, Ordered
<1>6. /\ call[k].session = s /\ \E a \in DOMAIN enqueued : enqueued[a] = k
      /\ \A i \in DOMAIN q : Before(enqueued, k, q[i])
      /\ \A j \in DOMAIN pending[s] : Before(enqueued, k, pending[s][j])
      /\ \A i \in DOMAIN applied : call[applied[i]].session = s => Before(enqueued, applied[i], k)
      /\ InOrder(q, s, call, enqueued)
  <2>1. /\ InOrder(wire[v], s, call, enqueued) /\ After(applied, wire[v], s, call, enqueued)
        /\ After(wire[v], pending[s], s, call, enqueued)
    BY <1>5 DEF WireOrdered
  <2>2. InOrder(q, s, call, enqueued)
    BY SMTT(40), <1>t, <1>2, <2>1 DEF InOrder, Within
  <2> QED
    BY <1>2, <2>1, <2>2 DEF InOrder, Within, After
<1>7. \A i \in DOMAIN applied' :
        \/ i \in DOMAIN applied /\ applied'[i] = applied[i]
        \/ applied' # applied /\ i = Len(applied) + 1 /\ applied'[i] = k
  <2>0. applied \in Seq(Calls)
    BY <1>t DEF CallTypes
  <2>1. CASE applied' = applied
    BY <2>0, <2>1
  <2>2. CASE applied' = Append(applied, k)
    <3>1. Grown(applied, k, applied')
      BY <2>2 DEF Grown
    <3> QED
      BY <2>0, <3>1, Appends
  <2> QED
    BY <1>1, <2>1, <2>2
<1>8. AppliedOrdered'
  <2>1. applied \in Seq(Calls) /\ Len(applied) \in Nat /\ DOMAIN applied = 1..Len(applied)
    BY <1>t DEF CallTypes
  <2>2. Within(applied', enqueued)
    BY <1>5, <1>6, <1>7 DEF AppliedOrdered, Within
  <2>3. ASSUME NEW i \in DOMAIN applied', NEW j \in DOMAIN applied', i < j,
               call[applied'[i]].session = call[applied'[j]].session
        PROVE  Before(enqueued, applied'[i], applied'[j])
    <3>1. i \in DOMAIN applied /\ applied'[i] = applied[i]
      BY <1>1, <1>2, <1>7, <2>1, <2>3
    <3> QED
      BY <1>5, <1>6, <1>7, <2>3, <3>1 DEF AppliedOrdered
  <2> QED
    BY <1>1, <2>2, <2>3 DEF AppliedOrdered
<1>9. ASSUME NEW r \in Sessions PROVE QueueOrdered(r)'
  <2>1. QueueOrdered(r)
    BY DEF Inv, Ordered
  <2>2. After(applied', pending[r], r, call, enqueued)
    BY <1>6, <1>7, <2>1 DEF QueueOrdered, After
  <2> QED
    BY <1>1, <2>1, <2>2 DEF QueueOrdered
<1>10. ASSUME NEW u \in Views, browser'[u] = "open" PROVE WireOrdered(u)'
  <2>1. u = v
    BY <1>t, <1>1, <1>10 DEF OneSocket
  <2>2. wire'[v] = q
    BY <1>t, <1>1 DEF CallTypes
  <2>3. After(applied', q, s, call, enqueued)
    BY <1>2, <1>5, <1>6, <1>7 DEF WireOrdered, After
  <2>4. After(q, pending[s], s, call, enqueued)
    BY <1>2, <1>5 DEF WireOrdered, After
  <2> QED
    BY <1>1, <1>6, <2>1, <2>2, <2>3, <2>4 DEF WireOrdered
<1>11. Ordered'
  BY <1>8, <1>9, <1>10 DEF Ordered
<1> QED
  BY <1>3, <1>4, <1>11, CallsKept DEF Inv, Types
\* The model asks for a page: every attached view gets it, or it waits as the newest.
LEMMA InvEnqueue ==
  ASSUME Inv, NEW k \in Calls, Enqueue(k)
  PROVE  Inv'
<1> USE DEF loop, links, registry, gate, history
<1> DEFINE s == call[k].session
           views == subscribers[s]
           queue == Kept(Append(pending[s], k))
           ph == IF views # {} THEN "delivered" ELSE "queued"
<1>t. LoopTypes /\ CallTypes /\ LinkTypes /\ OneSocket /\ s \in Sessions /\ pending[s] \in Seq(Calls)
  BY DEF Inv, Types, CallTypes
<1>1. /\ UNCHANGED <<saved, prefs, registered, subscribers, mounted, socket, failures, retrying,
                     browser, host, session, down, applied>>
      /\ call[k].phase = "asking" /\ enqueued' = Append(enqueued, k)
      /\ call' = [call EXCEPT ![k].phase = ph]
      /\ pending' = [pending EXCEPT ![s] = IF views # {} THEN << >> ELSE queue]
      /\ wire' = [v \in Views |-> IF v \in views /\ host[v] = "open" THEN wire[v] \o <<k>> ELSE wire[v]]
      /\ unsent' = IF \E v \in views : host[v] = "open" THEN unsent ELSE unsent \cup {k}
  BY DEF Enqueue, Attached, AfterSend, Sent
<1>2. /\ call' \in [Calls -> [phase : Phases, session : Sessions]]
      /\ \A l \in Calls : /\ call'[l].session = call[l].session
                         /\ call'[l].phase = IF l = k THEN ph ELSE call[l].phase
  <2>1. ph \in Phases
    BY DEF Phases
  <2> HIDE DEF ph
  <2> QED
    BY <1>t, <1>1, <2>1, GoesOn DEF CallTypes
<1>p. PICK old \in Seq(Calls), f \in Seq(Calls) :
        /\ old = pending[s] /\ Grown(old, k, f) /\ queue = Kept(f) /\ Len(f) = Len(old) + 1
  <2>1. PICK old \in Seq(Calls) : old = pending[s]
    BY <1>t
  <2>2. PICK f : f = Append(old, k) /\ Grown(old, k, f)
    BY DEF Grown
  <2>3. f \in Seq(Calls) /\ Len(f) = Len(old) + 1
    BY <2>2, Appends
  <2> QED
    BY <2>1, <2>2, <2>3
<1> HIDE DEF queue
<1>3. /\ queue \in Seq(Calls) /\ Len(queue) <= QueueMax
      /\ \E n \in 0..Len(f) :
           /\ n > 0 => n = Len(f) - QueueMax
           /\ Len(queue) = Len(f) - n
           /\ \A i \in 1..Len(f) - n : queue[i] = f[i + n]
  BY <1>p, KeptNewest
<1>n. << >> \in Seq(Calls)
  OBVIOUS
<1>4. /\ pending' \in [Sessions -> Seq(Calls)] /\ \A r \in Sessions \ {s} : pending'[r] = pending[r]
      /\ pending'[s] = IF views # {} THEN << >> ELSE queue
  BY <1>t, <1>1, <1>3, <1>n DEF CallTypes
<1>5. \A v \in Views : wire[v] \o <<k>> = Append(wire[v], k) /\ Append(wire[v], k) \in Seq(Calls)
  BY <1>t DEF CallTypes
<1>6. wire' \in [Views -> Seq(Calls)]
  BY <1>t, <1>1, <1>5 DEF CallTypes
<1>7. LoopTypes' /\ CallTypes' /\ LinkTypes'
  <2>1. LoopTypes'
    BY <1>t, <1>1 DEF LoopTypes
  <2>2. CallTypes'
    <3>0. enqueued \in Seq(Calls)
      BY <1>t DEF CallTypes
    <3>1. enqueued' \in Seq(Calls)
      BY <1>1, <3>0, Appends DEF Grown
    <3>2. unsent' \subseteq Calls
      BY <1>t, <1>1 DEF CallTypes
    <3> QED
      BY <1>t, <1>1, <1>2, <1>4, <1>6, <3>1, <3>2 DEF CallTypes
  <2>3. LinkTypes'
    BY <1>t, <1>1 DEF LinkTypes
  <2> QED
    BY <2>1, <2>2, <2>3
<1>8. OneSocket'
  BY <1>t, <1>1, <1>7 DEF OneSocket, LinkTypes
<1>9. AttachedIsOpen' /\ NothingWaitsWhileAttached'
  BY <1>1, <1>4 DEF Inv, AttachedIsOpen, NothingWaitsWhileAttached
<1>e. /\ enqueued \in Seq(Calls) /\ \A a \in DOMAIN enqueued : enqueued[a] # k
      /\ k \notin unsent
  BY <1>t, <1>1 DEF Inv, EnqueuedOnce, CallTypes
<1>f. /\ \A x, y : Before(enqueued, x, y) => Before(enqueued', x, y)
      /\ \A a \in DOMAIN enqueued : Before(enqueued', enqueued[a], k)
      /\ DOMAIN enqueued \subseteq DOMAIN enqueued'
      /\ \A a \in DOMAIN enqueued : enqueued'[a] = enqueued[a]
      /\ \A a \in DOMAIN enqueued' : a \in DOMAIN enqueued \/ (a = Len(enqueued) + 1 /\ enqueued'[a] = k)
      /\ \E a \in DOMAIN enqueued' : enqueued'[a] = k
      /\ \A a \in DOMAIN enqueued : a < Len(enqueued) + 1
  <2>1. Grown(enqueued, k, enqueued')
    BY <1>1 DEF Grown
  <2> QED
    BY <1>e, <2>1, EnqueuedLast
<1>10. EnqueuedOnce'
  <2>1. ASSUME NEW a \in DOMAIN enqueued', NEW b \in DOMAIN enqueued', enqueued'[a] = enqueued'[b]
        PROVE  a = b
    BY <1>e, <1>f, <2>1 DEF Inv, EnqueuedOnce
  <2>2. ASSUME NEW l \in Calls, call'[l].phase \in {"idle", "asking", "refused"}
        PROVE  (\A a \in DOMAIN enqueued' : enqueued'[a] # l) /\ l \notin unsent'
    <3>1. l # k /\ call[l].phase \in {"idle", "asking", "refused"}
      BY <1>2, <2>2
    <3> QED
      BY <1>1, <1>f, <3>1 DEF Inv, EnqueuedOnce
  <2> QED
    BY <2>1, <2>2 DEF EnqueuedOnce
<1>11. (~Window => DeliveredWasSent)'
  <2> SUFFICES ASSUME ~Window, NEW l \in Calls, call'[l].phase = "delivered" PROVE l \notin unsent'
    BY DEF DeliveredWasSent
  <2>1. CASE l = k
    <3>1. views # {}
      BY <1>2, <2>1
    <3>2. \E v \in views : host[v] = "open"
      BY <1>t, <3>1 DEF Inv, AttachedIsOpen
    <3> QED
      BY <1>1, <1>e, <2>1, <3>2
  <2>2. CASE l # k
    BY <1>1, <1>2, <2>2 DEF Inv, DeliveredWasSent
  <2> QED
    BY <2>1, <2>2
<1>12. NewestWait'
  <2> SUFFICES ASSUME NEW r \in Sessions
               PROVE  /\ Len(pending'[r]) <= QueueMax
                      /\ \A i, j \in DOMAIN enqueued' :
                           /\ i < j /\ call'[enqueued'[i]].session = r /\ call'[enqueued'[j]].session = r
                           /\ enqueued'[i] \in ToSet(pending'[r])
                           => enqueued'[j] \in ToSet(pending'[r])
    BY DEF NewestWait
  <2>1. /\ Len(pending[r]) <= QueueMax
        /\ \A i, j \in DOMAIN enqueued :
             /\ i < j /\ call[enqueued[i]].session = r /\ call[enqueued[j]].session = r
             /\ enqueued[i] \in ToSet(pending[r])
             => enqueued[j] \in ToSet(pending[r])
    BY DEF Inv, NewestWait
  <2>2. \A a \in DOMAIN enqueued : enqueued[a] \in Calls
    BY <1>e
  <2>3. CASE r # s
    <3>1. pending'[r] = pending[r]
      BY <1>4, <2>3
    <3>2. ASSUME NEW i \in DOMAIN enqueued', NEW j \in DOMAIN enqueued', i < j,
                 call'[enqueued'[i]].session = r, call'[enqueued'[j]].session = r,
                 enqueued'[i] \in ToSet(pending'[r])
          PROVE  enqueued'[j] \in ToSet(pending'[r])
      <4>1. i \in DOMAIN enqueued /\ j \in DOMAIN enqueued
        BY <1>2, <1>f, <2>3, <3>2
      <4> QED
        BY SMTT(40), <1>2, <1>f, <2>1, <2>2, <3>1, <3>2, <4>1
    <3> QED
      BY <2>1, <3>1, <3>2
  <2>4. CASE r = s /\ views # {}
    <3>1. pending'[r] = << >>
      BY <1>4, <2>4
    <3>2. ToSet(pending'[r]) = {} /\ Len(pending'[r]) <= QueueMax
      BY <3>1, ConstantsAssumption DEF ToSet, ConstantsAssumption
    <3> QED
      BY <3>2
  <2>5. CASE r = s /\ views = {}
    <3>1. pending'[s] = queue
      BY <1>4, <2>5
    <3>2. PICK n \in 0..Len(f) :
            /\ n > 0 => n = Len(f) - QueueMax
            /\ Len(queue) = Len(f) - n
            /\ \A i \in 1..Len(f) - n : queue[i] = f[i + n]
      BY <1>3
    <3>3. /\ Len(old) \in Nat /\ QueueMax \in Nat /\ Len(old) <= QueueMax
          /\ DOMAIN queue = 1..Len(old) + 1 - n
      BY <1>p, <1>3, <2>1, <2>5, <3>2, ConstantsAssumption DEF ConstantsAssumption
    <3>4. /\ DOMAIN old = 1..Len(old) /\ f[Len(old) + 1] = k
          /\ \A i \in DOMAIN old : f[i] = old[i]
      BY <1>p, Appends
    <3>5. n \in {0, 1}
      BY <1>p, <3>2, <3>3
    <3>6. ASSUME NEW i \in DOMAIN enqueued', NEW j \in DOMAIN enqueued', i < j,
                 call'[enqueued'[i]].session = s, call'[enqueued'[j]].session = s,
                 enqueued'[i] \in ToSet(queue)
          PROVE  enqueued'[j] \in ToSet(queue)
      <4>1. CASE j \notin DOMAIN enqueued
        <5>1. enqueued'[j] = k /\ Len(old) + 1 - n \in DOMAIN queue
          <6>1. DOMAIN queue # {}
            BY <3>6 DEF ToSet
          <6> QED
            BY <1>f, <3>3, <3>5, <4>1, <3>6, <6>1
        <5>2. queue[Len(old) + 1 - n] = k
          BY SMTT(40), <1>p, <3>2, <3>3, <3>4, <5>1
        <5> QED
          BY <5>1, <5>2 DEF ToSet
      <4>2. CASE j \in DOMAIN enqueued
        <5>1. i \in DOMAIN enqueued /\ enqueued'[i] = enqueued[i] /\ enqueued'[j] = enqueued[j]
          BY <1>e, <1>f, <3>6, <4>2
        <5>2. enqueued[i] # k /\ enqueued[j] # k
          BY <1>e, <4>2, <5>1
        <5>3. PICK x \in DOMAIN queue : queue[x] = enqueued[i]
          BY <3>6, <5>1 DEF ToSet
        <5>4. x + n \in DOMAIN old /\ old[x + n] = enqueued[i]
          <6>1. queue[x] = f[x + n] /\ x + n \in 1..Len(old) + 1
            BY SMTT(40), <1>p, <3>2, <3>3, <3>5, <5>3
          <6>2. x + n # Len(old) + 1
            BY <3>4, <5>2, <5>3, <6>1
          <6> QED
            BY <3>3, <3>4, <5>3, <6>1, <6>2
        <5>5. enqueued[i] \in ToSet(old)
          BY <5>4 DEF ToSet
        <5>6. call[enqueued[i]].session = s /\ call[enqueued[j]].session = s
          BY <1>2, <2>2, <3>6, <4>2, <5>1
        <5>7. enqueued[j] \in ToSet(old)
          BY <1>p, <2>1, <2>5, <3>6, <4>2, <5>1, <5>5, <5>6
        <5>8. PICK y \in DOMAIN old : old[y] = enqueued[j]
          BY <5>7 DEF ToSet
        <5>9. y >= x + n
          <6> SUFFICES ASSUME y < x + n PROVE FALSE
            BY <3>4, <3>3, <3>5, <5>3, <5>4, <5>8
          <6>1. Before(enqueued, enqueued[j], enqueued[i])
            <7>1. InOrder(old, s, call, enqueued)
              BY <1>p, <1>t DEF Inv, Ordered, QueueOrdered
            <7> QED
              BY <5>4, <5>8, <7>1 DEF InOrder
          <6>2. j < i
            BY <1>e, <4>2, <5>1, <6>1, BeforeOrders DEF Inv
          <6> QED
            BY <1>e, <4>2, <5>1, <3>6, <6>2
        <5>10. y - n \in DOMAIN queue /\ queue[y - n] = f[y]
          <6>1. y - n \in 1..Len(old) + 1 - n /\ (y - n) + n = y
            BY <3>3, <3>4, <3>5, <5>3, <5>8, <5>9
          <6> QED
            BY <1>p, <3>2, <3>3, <6>1
        <5> QED
          BY <3>4, <5>1, <5>8, <5>10 DEF ToSet
      <4> QED
        BY <4>1, <4>2
    <3> QED
      BY <1>3, <2>5, <3>1, <3>6
  <2> QED
    BY <2>3, <2>4, <2>5
<1>o. /\ \A x, y : Before(enqueued, x, y) => Before(enqueued', x, y)
      /\ \A q : Within(q, enqueued) => Within(q, enqueued')
      /\ \A q : Within(q, enqueued) => \A i \in DOMAIN q : Before(enqueued', q[i], k)
      /\ \A q \in Seq(Calls) : \A r : InOrder(q, r, call, enqueued) => InOrder(q, r, call', enqueued')
      /\ \A p \in Seq(Calls) : \A q, r : After(p, q, r, call, enqueued) => After(p, q, r, call', enqueued')
  <2>1. \A x, y : Before(enqueued, x, y) => Before(enqueued', x, y)
    BY <1>f
  <2>2. \A q : Within(q, enqueued) => Within(q, enqueued')
    BY <1>f DEF Within
  <2>3. \A q : Within(q, enqueued) => \A i \in DOMAIN q : Before(enqueued', q[i], k)
    BY <1>f DEF Within
  <2>4. \A q \in Seq(Calls) : \A r : InOrder(q, r, call, enqueued) => InOrder(q, r, call', enqueued')
    <3> SUFFICES ASSUME NEW q \in Seq(Calls), NEW r, InOrder(q, r, call, enqueued)
                 PROVE  InOrder(q, r, call', enqueued')
      OBVIOUS
    <3>1. \A i \in DOMAIN q : q[i] \in Calls
      OBVIOUS
    <3>2. Within(q, enqueued')
      BY <2>2 DEF InOrder
    <3>3. \A i \in DOMAIN q : call'[q[i]].session = r
      BY <1>2, <3>1 DEF InOrder
    <3> QED
      BY <2>1, <3>2, <3>3 DEF InOrder
  <2>5. \A p \in Seq(Calls) : \A q, r : After(p, q, r, call, enqueued) => After(p, q, r, call', enqueued')
    <3> SUFFICES ASSUME NEW p \in Seq(Calls), NEW q, NEW r, After(p, q, r, call, enqueued),
                        NEW i \in DOMAIN p, NEW j \in DOMAIN q, call'[p[i]].session = r
                 PROVE  Before(enqueued', p[i], q[j])
      BY DEF After
    <3>1. p[i] \in Calls
      OBVIOUS
    <3> QED
      BY <1>2, <2>1, <3>1 DEF After
  <2> QED
    BY <2>1, <2>2, <2>3, <2>4, <2>5
<1>g. \* A queue that gets k at its end stays in order.
      \A q \in Seq(Calls) : \A h, r :
        InOrder(q, r, call, enqueued) /\ Grown(q, k, h) /\ r = s => InOrder(h, r, call', enqueued')
  <2> SUFFICES ASSUME NEW q \in Seq(Calls), NEW h, InOrder(q, s, call, enqueued), Grown(q, k, h)
               PROVE  InOrder(h, s, call', enqueued')
    OBVIOUS
  <2>1. /\ DOMAIN q = 1..Len(q) /\ DOMAIN h = 1..Len(q) + 1 /\ h[Len(q) + 1] = k /\ Len(q) \in Nat
        /\ \A i \in DOMAIN q : h[i] = q[i] /\ i \in DOMAIN h
        /\ \A i \in DOMAIN h : i \in DOMAIN q \/ (i = Len(q) + 1 /\ h[i] = k)
    BY Appends
  <2>2. InOrder(q, s, call', enqueued') /\ \A i \in DOMAIN q : Before(enqueued', q[i], k)
    BY <1>o DEF InOrder
  <2>3. Within(h, enqueued')
    BY <1>f, <2>1, <2>2 DEF InOrder, Within
  <2>4. \A i \in DOMAIN h : call'[h[i]].session = s
    BY <1>2, <2>1, <2>2 DEF InOrder
  <2>5. ASSUME NEW i \in DOMAIN h, NEW j \in DOMAIN h, i < j PROVE Before(enqueued', h[i], h[j])
    <3>1. i \in DOMAIN q /\ h[i] = q[i]
      BY <2>1, <2>5
    <3>2. CASE j \in DOMAIN q
      BY <2>1, <2>2, <2>5, <3>1, <3>2 DEF InOrder
    <3>3. CASE j \notin DOMAIN q
      BY <2>1, <2>2, <2>5, <3>1, <3>3
    <3> QED
      BY <3>2, <3>3
  <2> QED
    BY <2>3, <2>4, <2>5 DEF InOrder
<1>a. \* What came before the others comes before k too.
      \A p \in Seq(Calls), q \in Seq(Calls) : \A h, r :
        After(p, q, r, call, enqueued) /\ Within(p, enqueued) /\ Grown(q, k, h)
          => After(p, h, r, call', enqueued')
  <2> SUFFICES ASSUME NEW p \in Seq(Calls), NEW q \in Seq(Calls), NEW h, NEW r,
                      After(p, q, r, call, enqueued), Within(p, enqueued), Grown(q, k, h)
               PROVE  After(p, h, r, call', enqueued')
    OBVIOUS
  <2>1. /\ \A i \in DOMAIN q : h[i] = q[i]
        /\ \A i \in DOMAIN h : i \in DOMAIN q \/ h[i] = k
    BY Appends
  <2>2. After(p, q, r, call', enqueued') /\ \A i \in DOMAIN p : Before(enqueued', p[i], k)
    BY <1>o
  <2> QED
    BY <2>1, <2>2 DEF After
<1>h. /\ AppliedOrdered /\ applied \in Seq(Calls) /\ Within(applied, enqueued)
      /\ \A r \in Sessions : QueueOrdered(r) /\ pending[r] \in Seq(Calls)
      /\ \A v \in Views : wire[v] \in Seq(Calls) /\ session[v] \in Sessions
      /\ \A v \in Views : browser[v] = "open" => WireOrdered(v)
  BY <1>t DEF Inv, Ordered, AppliedOrdered, CallTypes, LinkTypes
<1>13. AppliedOrdered'
  <2>1. \A i \in DOMAIN applied : call'[applied[i]].session = call[applied[i]].session
    BY <1>2, <1>h
  <2> QED
    BY <1>1, <1>h, <1>o, <2>1 DEF AppliedOrdered
<1>14. ASSUME NEW r \in Sessions PROVE QueueOrdered(r)'
  <2>1. /\ InOrder(pending[r], r, call', enqueued') /\ After(applied, pending[r], r, call', enqueued')
    BY <1>h, <1>o DEF QueueOrdered
  <2>2. CASE r # s
    BY <1>1, <1>4, <2>1, <2>2 DEF QueueOrdered
  <2>3. CASE r = s /\ views # {}
    <3>1. pending'[r] = << >>
      BY <1>4, <2>3
    <3> QED
      BY <1>1, <3>1 DEF QueueOrdered, InOrder, After, Within
  <2>4. CASE r = s /\ views = {}
    <3>1. InOrder(f, r, call', enqueued') /\ After(applied, f, r, call', enqueued')
      BY <1>p, <1>h, <1>a, <1>g, <2>4 DEF QueueOrdered
    <3>2. pending'[r] = queue
      BY <1>4, <2>4
    <3>3. PICK n \in 0..Len(f) :
            /\ Len(queue) = Len(f) - n
            /\ \A i \in 1..Len(f) - n : queue[i] = f[i + n]
      BY <1>3
    <3>4. \A i \in DOMAIN queue : i + n \in DOMAIN f /\ queue[i] = f[i + n]
      BY SMTT(40), <1>p, <1>3, <3>3
    <3>5. \A i, j \in DOMAIN queue : i < j => i + n < j + n
      BY <1>3, <3>3
    <3>6. InOrder(queue, r, call', enqueued')
      BY <3>1, <3>4, <3>5 DEF InOrder, Within
    <3>7. After(applied, queue, r, call', enqueued')
      BY <3>1, <3>4 DEF After
    <3> QED
      BY <1>1, <3>2, <3>6, <3>7 DEF QueueOrdered
  <2> QED
    BY <2>2, <2>3, <2>4
<1>15. ASSUME NEW v \in Views, browser'[v] = "open" PROVE WireOrdered(v)'
  <2>1. WireOrdered(v) /\ session'[v] = session[v] /\ applied' = applied
    BY <1>1, <1>15, <1>h
  <2>2. /\ InOrder(wire[v], session[v], call', enqueued')
        /\ After(applied, wire[v], session[v], call', enqueued')
        /\ After(wire[v], pending[session[v]], session[v], call', enqueued')
        /\ Within(wire[v], enqueued)
    BY <1>h, <1>o, <2>1 DEF WireOrdered, InOrder
  <2>3. CASE v \in views /\ host[v] = "open"
    <3>1. session[v] = s
      BY <1>t, <2>3 DEF LinkTypes
    <3>2. PICK g : Grown(wire[v], k, g) /\ wire'[v] = g
      BY <1>1, <1>5, <2>3 DEF Grown
    <3>3. InOrder(g, s, call', enqueued') /\ After(applied, g, s, call', enqueued')
      BY <1>h, <1>a, <1>g, <2>1, <3>1, <3>2 DEF WireOrdered
    <3>4. After(g, << >>, s, call', enqueued')
      BY DEF After
    <3>5. pending'[s] = << >>
      BY <1>4, <2>3
    <3> QED
      BY <2>1, <3>1, <3>2, <3>3, <3>4, <3>5 DEF WireOrdered
  <2>4. CASE ~(v \in views /\ host[v] = "open")
    <3>1. wire'[v] = wire[v]
      BY <1>1, <2>4
    <3>2. After(wire[v], pending'[session[v]], session[v], call', enqueued')
      <4>1. CASE session[v] # s
        BY <1>4, <1>h, <2>2, <4>1
      <4>2. CASE session[v] = s /\ views # {}
        BY <1>4, <4>2 DEF After
      <4>3. CASE session[v] = s /\ views = {}
        <5>1. After(wire[v], f, s, call', enqueued')
          BY <1>p, <1>h, <1>a, <2>1, <2>2, <4>3 DEF WireOrdered
        <5>2. pending'[s] = queue
          BY <1>4, <4>3
        <5>3. PICK n \in 0..Len(f) :
                /\ Len(queue) = Len(f) - n
                /\ \A i \in 1..Len(f) - n : queue[i] = f[i + n]
          BY <1>3
        <5>4. \A i \in DOMAIN queue : i + n \in DOMAIN f /\ queue[i] = f[i + n]
          BY SMTT(40), <1>p, <1>3, <5>3
        <5> QED
          BY <4>3, <5>1, <5>2, <5>4 DEF After
      <4> QED
        BY <4>1, <4>2, <4>3
    <3> QED
      BY <2>1, <2>2, <3>1, <3>2 DEF WireOrdered
  <2> QED
    BY <2>3, <2>4
<1>16. Ordered'
  BY <1>13, <1>14, <1>15 DEF Ordered
<1> QED
  BY <1>7, <1>8, <1>9, <1>10, <1>11, <1>12, <1>16 DEF Inv, Types

-----------------------------------------------------------------------------
(* The theorems. *)

\* Every step keeps the invariant.
LEMMA InvNext ==
  ASSUME Inv, [Next]_vars
  PROVE  Inv'
  BY InvSettings, InvLoop, InvAccept, InvReceive, InvEnqueue DEF Next

\* The invariant holds, however the views come and go.
LEMMA Invariant == Spec => []Inv
<1>1. Init => Inv
  BY InvInit
<1>2. Inv /\ [Next]_vars => Inv'
  BY InvNext
<1> QED
  BY <1>1, <1>2, PTL DEF Spec

\* The state is well typed, and only a view whose socket is not known to be gone
\* is attached, to the session it was opened for (attach() and its disposer).
THEOREM TypeCorrect == Spec => []TypeOK
<1>1. Inv => TypeOK
  <2> SUFFICES ASSUME Inv PROVE TypeOK
    OBVIOUS
  <2>1. LoopTypes /\ CallTypes /\ LinkTypes
    BY DEF Inv, Types
  <2>2. \A s \in Sessions : pending[s] \in Seq(Calls)
    BY <2>1 DEF CallTypes
  <2>3. \A v \in Views : wire[v] \in Seq(Calls)
    BY <2>1 DEF CallTypes
  <2> QED
    BY <2>1, <2>2, <2>3 DEF LoopTypes, CallTypes, LinkTypes, TypeOK
<1> QED
  BY <1>1, Invariant, PTL

\* "A reconnect must never replay an open the client already applied": the page of a
\* call opens once at most, and the pages of a session open in the order in which the
\* model asked for them, for any number of sockets, cuts and sessions.  Nothing waits
\* while a view is attached, so a delivery loses nothing; what waits is the newest.
THEOREM OpensArriveHolds == Spec => []OpensArrive
<1>1. Inv => OpensArrive
  <2> SUFFICES ASSUME Inv PROVE OpensArrive
    OBVIOUS
  <2>1. AppliedOrdered /\ EnqueuedOnce /\ applied \in Seq(Calls)
    BY DEF Inv, Ordered, Types, CallTypes
  <2>2. AppliedInOrder
    BY <2>1 DEF AppliedOrdered, Before, AppliedInOrder
  <2>3. ASSUME NEW i \in DOMAIN applied, NEW j \in DOMAIN applied, i < j PROVE applied[i] # applied[j]
    <3> SUFFICES ASSUME applied[i] = applied[j] PROVE FALSE
      OBVIOUS
    <3>1. Before(enqueued, applied[i], applied[j])
      BY <2>1, <2>3 DEF AppliedOrdered
    <3>2. PICK a \in DOMAIN enqueued, b \in DOMAIN enqueued :
            a < b /\ enqueued[a] = applied[i] /\ enqueued[b] = applied[j]
      BY <3>1 DEF Before
    <3>3. enqueued \in Seq(Calls)
      BY DEF Inv, Types, CallTypes
    <3> QED
      BY <2>1, <3>2, <3>3 DEF EnqueuedOnce
  <2>4. \A i, j \in DOMAIN applied : i # j => i < j \/ j < i
    BY <2>1
  <2>5. AppliedOnce
    BY <2>3, <2>4 DEF AppliedOnce, IsInjective
  <2> QED
    BY <2>2, <2>5 DEF Inv, OpensArrive
<1> QED
  BY <1>1, Invariant, PTL

\* delivered: true is the truth as long as a socket's closing and its close event are one.
THEOREM DeliveredWasSentHolds == ASSUME ~Window PROVE Spec => []DeliveredWasSent
<1>1. Inv => DeliveredWasSent
  BY DEF Inv
<1> QED
  BY <1>1, Invariant, PTL
-----------------------------------------------------------------------------
(***************************************************************************)
(* The terminals the model owns (AgentPty).  The registry kills what it    *)
(* drops.  A wait is recorded with its terminal exactly as long as it      *)
(* waits (PtyWaits), which is what a push is read from; and the last push, *)
(* on its way or arrived, says what is (LastWord), because whatever        *)
(* changes the registry or a record sends one in the same step.            *)
(***************************************************************************)
CONSTANTS Terminals, Waits, MaxPush, LateCreates, ClosesDetached
VARIABLES allowed, making, sessions, process, killed, said, active, wait, queue, tabs, banners,
          attached, frames, closed

Pty == INSTANCE AgentPty WITH socket <- attached, gate <- allowed

\* What is registered, what waits, and what the sidebar holds.
PtyHost ==
  /\ allowed \in BOOLEAN
  /\ making \subseteq Terminals /\ sessions \subseteq Terminals
  /\ process \in [Terminals -> {"none", "running", "exited"}]
  /\ killed \subseteq Terminals /\ said \subseteq Terminals
PtyWaits ==
  /\ active \in [Terminals -> Seq(Waits)]
  /\ wait \in [Waits -> Pty!Wait]
  /\ \A t \in Terminals : Pty!IsInjective(active[t])
  /\ \A t \in Terminals, w \in Waits :
       w \in Pty!ToSet(active[t]) <=> wait[w].terminal = t /\ wait[w].outcome = "pending"
  /\ \A w \in Waits : wait[w].outcome = "pending" => wait[w].terminal \in Terminals
PtySidebar ==
  /\ queue \in Seq(Pty!Lists) /\ Len(queue) <= MaxPush
  /\ tabs \subseteq Terminals /\ banners \in [Terminals -> Waits \union {None}]
  /\ attached \subseteq Terminals /\ frames \subseteq Terminals /\ closed \subseteq Terminals
PtyTypes == PtyHost /\ PtyWaits /\ PtySidebar

\* The last word of the registry to the sidebar, on its way or arrived, is true.
LastWord ==
  LET told == IF queue = <<>> THEN banners ELSE queue[Len(queue)].waiting
  IN  told = Pty!ListOf(sessions, active).waiting

\* One record less: the others stay, in their order, each once.
LEMMA Spliced ==
  ASSUME NEW S, NEW s \in Seq(S), NEW e, Pty!IsInjective(s)
  PROVE  /\ Pty!RemoveFirst(s, e) \in Seq(S)
         /\ Pty!IsInjective(Pty!RemoveFirst(s, e))
         /\ \A x : x \in Pty!ToSet(Pty!RemoveFirst(s, e)) <=> x \in Pty!ToSet(s) /\ x # e
<1>1. CASE ~\E i \in 1..Len(s) : s[i] = e
  BY <1>1 DEF Pty!RemoveFirst, Pty!ToSet, Pty!IsInjective
<1>2. CASE \E i \in 1..Len(s) : s[i] = e
  <2>1. PICK k \in 1..Len(s) : s[k] = e
    BY <1>2
  <2>2. {i \in 1..Len(s) : s[i] = e} = {k}
    BY <2>1 DEF Pty!IsInjective
  <2>3. Pty!Min({k}) = k
    BY DEF Pty!Min
  <2>4. Pty!SelectInSeq(s, LAMBDA v : v = e) = k
    BY <2>2, <2>3 DEF Pty!SelectInSeq
  <2>5. Pty!RemoveFirst(s, e) = SubSeq(s, 1, k-1) \o SubSeq(s, k+1, Len(s))
    BY <1>2, <2>4 DEF Pty!RemoveFirst, Pty!RemoveAt
  <2>6. PICK r : r = SubSeq(s, 1, k-1) \o SubSeq(s, k+1, Len(s))
    OBVIOUS
  <2>7. /\ r \in Seq(S) /\ Len(r) = Len(s) - 1
        /\ \A j \in 1..Len(s)-1 : r[j] = IF j < k THEN s[j] ELSE s[j+1]
    <3>1. PICK p : p = SubSeq(s, 1, k-1)
      OBVIOUS
    <3>2. PICK q : q = SubSeq(s, k+1, Len(s))
      OBVIOUS
    <3>3. p \in Seq(S) /\ Len(p) = k-1 /\ \A j \in 1..k-1 : p[j] = s[j]
      BY <3>1
    <3>4. q \in Seq(S) /\ Len(q) = Len(s) - k /\ \A j \in 1..Len(s)-k : q[j] = s[k+j]
      BY <3>2
    <3>5. r = p \o q
      BY <2>6, <3>1, <3>2
    <3>6. r \in Seq(S) /\ Len(r) = Len(s) - 1
      BY <3>3, <3>4, <3>5
    <3>7. ASSUME NEW j \in 1..Len(s)-1
          PROVE  r[j] = IF j < k THEN s[j] ELSE s[j+1]
      <4>1. CASE j < k
        BY <3>3, <3>4, <3>5, <4>1
      <4>2. CASE j >= k
        <5>1. r[j] = q[j-k+1] /\ j-k+1 \in 1..Len(s)-k
          BY <3>3, <3>4, <3>5, <4>2
        <5> QED BY <5>1, <3>4, <4>2
      <4> QED BY <4>1, <4>2
    <3> QED BY <3>6, <3>7
  <2>8. Pty!IsInjective(r)
    <3> SUFFICES ASSUME NEW i \in 1..Len(s)-1, NEW j \in 1..Len(s)-1, r[i] = r[j]
                 PROVE  i = j
      BY <2>7 DEF Pty!IsInjective
    <3>1. PICK a \in 1..Len(s) : a = (IF i < k THEN i ELSE i+1) /\ s[a] = r[i]
      BY SMTT(40), <2>7
    <3>2. PICK b \in 1..Len(s) : b = (IF j < k THEN j ELSE j+1) /\ s[b] = r[j]
      BY <2>7
    <3>3. a = b
      BY <3>1, <3>2 DEF Pty!IsInjective
    <3> QED BY <3>1, <3>2, <3>3
  <2>9. ASSUME NEW x
        PROVE  x \in Pty!ToSet(r) <=> x \in Pty!ToSet(s) /\ x # e
    <3>1. ASSUME x \in Pty!ToSet(r)
          PROVE  x \in Pty!ToSet(s) /\ x # e
      <4>1. PICK j \in 1..Len(s)-1 : r[j] = x
        BY <3>1, <2>7 DEF Pty!ToSet
      <4>2. PICK a \in 1..Len(s) : a # k /\ s[a] = x
        BY <4>1, <2>7
      <4>3. s[a] # e
        BY <4>2, <2>1 DEF Pty!IsInjective
      <4> QED BY <4>2, <4>3 DEF Pty!ToSet
    <3>2. ASSUME x \in Pty!ToSet(s), x # e
          PROVE  x \in Pty!ToSet(r)
      <4>1. PICK i \in 1..Len(s) : s[i] = x
        BY <3>2 DEF Pty!ToSet
      <4>2. i # k
        BY <4>1, <3>2, <2>1
      <4>3. PICK j \in 1..Len(s)-1 : r[j] = x
        <5>1. CASE i < k
          BY <4>1, <5>1, <2>7
        <5>2. CASE i > k
          <6>1. i - 1 \in 1..Len(s)-1 /\ r[i-1] = s[i]
            BY <5>2, <2>7
          <6> QED BY <6>1, <4>1
        <5> QED BY <4>2, <5>1, <5>2
      <4> QED BY <4>3, <2>7 DEF Pty!ToSet
    <3> QED BY <3>1, <3>2
  <2> QED BY <2>5, <2>6, <2>7, <2>8, <2>9
<1> QED BY <1>1, <1>2

\* One record more.
LEMMA OneMore ==
  ASSUME NEW S, NEW s \in Seq(S), NEW e \in S, Pty!IsInjective(s), e \notin Pty!ToSet(s)
  PROVE  /\ Pty!IsInjective(Append(s, e))
         /\ \A x : x \in Pty!ToSet(Append(s, e)) <=> x \in Pty!ToSet(s) \/ x = e
<1>1. PICK r : r = Append(s, e)
  OBVIOUS
<1>2. r \in Seq(S) /\ Len(r) = Len(s) + 1 /\ r[Len(s)+1] = e /\ \A i \in 1..Len(s) : r[i] = s[i]
  BY <1>1
<1>3. \A i \in 1..Len(s) : s[i] # e
  BY DEF Pty!ToSet
<1>4. Pty!IsInjective(r)
  BY <1>2, <1>3 DEF Pty!IsInjective
<1>5. \A x : x \in Pty!ToSet(r) <=> x \in Pty!ToSet(s) \/ x = e
  <2>1. ASSUME NEW x, x \in Pty!ToSet(r) PROVE x \in Pty!ToSet(s) \/ x = e
    BY <2>1, <1>2 DEF Pty!ToSet
  <2>2. ASSUME NEW x, x \in Pty!ToSet(s) PROVE x \in Pty!ToSet(r)
    <3>1. PICK i \in 1..Len(s) : x = s[i]
      BY <2>2 DEF Pty!ToSet
    <3> QED BY <3>1, <1>2 DEF Pty!ToSet
  <2>3. e \in Pty!ToSet(r)
    BY <1>2 DEF Pty!ToSet
  <2> QED BY <2>1, <2>2, <2>3
<1> QED BY <1>1, <1>4, <1>5

PtyInv == PtyTypes /\ Pty!NoLostProcess /\ LastWord

\* What a push says is a list.
LEMMA Listed ==
  ASSUME NEW live \in SUBSET Terminals, NEW records \in [Terminals -> Seq(Waits)]
  PROVE  Pty!ListOf(live, records) \in Pty!Lists
<1>1. ASSUME NEW t \in Terminals, records[t] # << >>
      PROVE  Pty!Last(records[t]) \in Waits
  BY <1>1 DEF Pty!Last
<1> QED BY <1>1 DEF Pty!ListOf, Pty!Lists

\* A push is the last word, and true.
LEMMA Announced ==
  ASSUME Pty!ConstantsAssumption, queue \in Seq(Pty!Lists), Len(queue) <= MaxPush,
         sessions' \subseteq Terminals, active' \in [Terminals -> Seq(Waits)], Pty!Notify
  PROVE  queue' \in Seq(Pty!Lists) /\ Len(queue') <= MaxPush /\ LastWord'
<1>1. PICK list \in Pty!Lists : list = Pty!ListOf(sessions', active')
  BY Listed
<1>2. Len(queue) < MaxPush /\ queue' = Append(queue, list)
  BY <1>1 DEF Pty!Notify
<1>3. queue' \in Seq(Pty!Lists) /\ Len(queue') <= MaxPush
  BY <1>1, <1>2 DEF Pty!ConstantsAssumption
<1>4. queue' # << >> /\ queue'[Len(queue')] = list
  BY <1>2
<1> QED BY <1>1, <1>3, <1>4 DEF LastWord

LEMMA PtyInit == ASSUME Pty!ConstantsAssumption, Pty!Init PROVE PtyInv
<1> USE DEF Pty!Init
<1>1. PtyHost
  BY DEF PtyHost
<1>2. PtyWaits
  <2>1. active \in [Terminals -> Seq(Waits)]
    OBVIOUS
  <2>2. wait \in [Waits -> Pty!Wait]
    BY DEF Pty!Wait, Pty!Idle, Pty!Outcomes
  <2>3. \A t \in Terminals : Pty!IsInjective(active[t]) /\ Pty!ToSet(active[t]) = {}
    BY DEF Pty!IsInjective, Pty!ToSet
  <2>4. \A w \in Waits : wait[w].outcome = "idle"
    BY DEF Pty!Idle
  <2> QED BY <2>1, <2>2, <2>3, <2>4 DEF PtyWaits
<1>3. PtySidebar
  BY DEF PtySidebar, Pty!ConstantsAssumption
<1>4. Pty!NoLostProcess
  BY DEF Pty!NoLostProcess
<1>5. LastWord
  BY DEF LastWord, Pty!ListOf
<1> QED BY <1>1, <1>2, <1>3, <1>4, <1>5 DEF PtyInv, PtyTypes

\* A step of a wait leaves the registry alone.  No other touches what waits.
LEMMA PtyHostKept ==
  ASSUME PtyHost, Pty!NoLostProcess, [Pty!Next]_(Pty!vars)
  PROVE  PtyHost' /\ Pty!NoLostProcess'
<1> USE DEF PtyHost, Pty!NoLostProcess
<1>1. ASSUME UNCHANGED Pty!host PROVE PtyHost' /\ Pty!NoLostProcess'
  BY <1>1 DEF Pty!host
<1>2. ASSUME NEW t \in Terminals, Pty!CreateCall(t) PROVE PtyHost' /\ Pty!NoLostProcess'
  BY <1>2 DEF Pty!CreateCall
<1>3. ASSUME NEW t \in Terminals, Pty!Create(t) PROVE PtyHost' /\ Pty!NoLostProcess'
  BY <1>3 DEF Pty!Create
<1>4. ASSUME NEW t \in Terminals, Pty!Output(t) PROVE PtyHost' /\ Pty!NoLostProcess'
  BY <1>4 DEF Pty!Output
<1>5. ASSUME NEW t \in Terminals, Pty!Exit(t) PROVE PtyHost' /\ Pty!NoLostProcess'
  BY <1>5 DEF Pty!Exit
<1>6. ASSUME NEW t \in Terminals, Pty!ToolClose(t) PROVE PtyHost' /\ Pty!NoLostProcess'
  BY <1>6 DEF Pty!ToolClose, Pty!Closing
<1>7. ASSUME NEW t \in Terminals, Pty!Frame(t) PROVE PtyHost' /\ Pty!NoLostProcess'
  BY <1>7 DEF Pty!Frame, Pty!Closing
<1>8. ASSUME Pty!GateOn PROVE PtyHost' /\ Pty!NoLostProcess'
  <2>1. allowed' = TRUE
    BY <1>8 DEF Pty!GateOn
  <2>2. UNCHANGED <<making, sessions, process, killed, said>>
    BY <1>8 DEF Pty!GateOn
  <2> QED BY <2>1, <2>2
<1>9. ASSUME Pty!GateOff PROVE PtyHost' /\ Pty!NoLostProcess'
  <2>1. allowed' = FALSE
    BY <1>9 DEF Pty!GateOff
  <2>2. sessions' = {} /\ killed' = killed \union sessions /\ UNCHANGED <<making, process, said>>
    BY <1>9 DEF Pty!GateOff, Pty!Closing
  <2> QED BY <2>1, <2>2
<1>10. ASSUME NEW t \in Terminals,
              Pty!SkipWait(t) \/ Pty!Attach(t) \/ Pty!Drop(t) \/ Pty!CloseTab(t)
       PROVE  UNCHANGED Pty!host
  BY <1>10 DEF Pty!SkipWait, Pty!Attach, Pty!Drop, Pty!CloseTab
<1>11. ASSUME NEW w \in Waits,
              (\E t \in Terminals : Pty!WaitFor(w, t)) \/ Pty!Poll(w) \/ Pty!Elapse(w) \/ Pty!Abort(w)
       PROVE  UNCHANGED Pty!host
  BY <1>11 DEF Pty!WaitFor, Pty!Poll, Pty!Elapse, Pty!Abort
<1>12. ASSUME Pty!Receive \/ UNCHANGED Pty!vars PROVE UNCHANGED Pty!host
  BY <1>12 DEF Pty!Receive, Pty!vars
<1> QED BY <1>1, <1>2, <1>3, <1>4, <1>5, <1>6, <1>7, <1>8, <1>9, <1>10, <1>11, <1>12 DEF Pty!Next

\* What a wait becomes as it ends, is skipped, runs out or is cancelled.
LEMMA Ended ==
  ASSUME NEW r \in Pty!Wait, NEW o \in Pty!Outcomes, NEW e, e = [r EXCEPT !.outcome = o]
  PROVE  e \in Pty!Wait /\ e.outcome = o
BY DEF Pty!Wait

LEMMA Flagged ==
  ASSUME NEW r \in Pty!Wait, NEW e,
         \/ e = [r EXCEPT !.due = TRUE]
         \/ e = [r EXCEPT !.aborted = TRUE]
         \/ e = [r EXCEPT !.skipped = TRUE]
  PROVE  e \in Pty!Wait /\ e.terminal = r.terminal /\ e.outcome = r.outcome
BY DEF Pty!Wait

\* A wait is recorded with the terminal it is of, and the record goes as it ends.
LEMMA PtyWaitsKept ==
  ASSUME PtyTypes, [Pty!Next]_(Pty!vars)
  PROVE  PtyWaits'
<1> USE DEF PtyTypes
<1>1. ASSUME UNCHANGED Pty!waiting PROVE PtyWaits'
  BY <1>1 DEF PtyWaits, Pty!waiting
<1>2. ASSUME NEW w \in Waits, NEW t \in Terminals, Pty!WaitFor(w, t) PROVE PtyWaits'
  <2>1. wait[w].outcome = "idle"
    BY <1>2 DEF Pty!WaitFor
  <2>2. ASSUME NEW o \in {"exited", "found"}, UNCHANGED active,
               wait' = [wait EXCEPT ![w].terminal = t, ![w].outcome = o]
        PROVE  PtyWaits'
    <3>0. wait \in [Waits -> Pty!Wait] /\ wait[w] \in Pty!Wait /\ o \in Pty!Outcomes
      BY <2>2 DEF PtyWaits, Pty!Outcomes
    <3>r. PICK r \in Pty!Wait : r = wait[w]
      BY <3>0
    <3>d. PICK d : d = [r EXCEPT !.terminal = t]
      OBVIOUS
    <3>a. PICK e : e = [d EXCEPT !.outcome = o]
      OBVIOUS
    <3>b. wait' = [wait EXCEPT ![w] = e]
      BY <2>2, <3>0, <3>a, <3>d, <3>r
    <3>c. e \in Pty!Wait /\ e.outcome = o
      BY <3>0, <3>a, <3>d DEF Pty!Wait
    <3>1. wait' \in [Waits -> Pty!Wait]
      BY <3>0, <3>b, <3>c
    <3>2. \A v \in Waits : IF v = w THEN wait'[v].outcome = o ELSE wait'[v] = wait[v]
      BY <3>0, <3>b, <3>c
    <3>3. active' = active /\ o # "pending"
      BY <2>2
    <3>4. \A u \in Terminals : Pty!IsInjective(active'[u])
      BY <3>3 DEF PtyWaits
    <3>5. ASSUME NEW u \in Terminals, NEW v \in Waits
          PROVE  v \in Pty!ToSet(active'[u]) <=> wait'[v].terminal = u /\ wait'[v].outcome = "pending"
      <4>1. CASE v = w
        BY <4>1, <2>1, <3>2, <3>3 DEF PtyWaits
      <4>2. CASE v # w
        BY <4>2, <3>2, <3>3 DEF PtyWaits
      <4> QED BY <4>1, <4>2
    <3>6. \A v \in Waits : wait'[v].outcome = "pending" => wait'[v].terminal \in Terminals
      BY <3>2, <3>3 DEF PtyWaits
    <3>7. active' \in [Terminals -> Seq(Waits)]
      BY <3>3 DEF PtyWaits
    <3> QED BY <3>1, <3>4, <3>5, <3>6, <3>7 DEF PtyWaits
  <2>3. ASSUME wait' = [wait EXCEPT ![w].terminal = t, ![w].outcome = "pending"],
               active' = [active EXCEPT ![t] = Append(@, w)]
        PROVE  PtyWaits'
    <3>0. wait \in [Waits -> Pty!Wait] /\ wait[w] \in Pty!Wait
      BY DEF PtyWaits
    <3>r. PICK r \in Pty!Wait : r = wait[w]
      BY <3>0
    <3>d. PICK d : d = [r EXCEPT !.terminal = t]
      OBVIOUS
    <3>a. PICK e : e = [d EXCEPT !.outcome = "pending"]
      OBVIOUS
    <3>b. wait' = [wait EXCEPT ![w] = e]
      BY <2>3, <3>0, <3>a, <3>d, <3>r
    <3>c. e \in Pty!Wait /\ e.outcome = "pending" /\ e.terminal = t
      BY <3>0, <3>a, <3>d DEF Pty!Wait
    <3>1. wait' \in [Waits -> Pty!Wait]
      BY <3>0, <3>b, <3>c
    <3>2. \A v \in Waits : IF v = w THEN wait'[v].outcome = "pending" /\ wait'[v].terminal = t
                           ELSE wait'[v] = wait[v]
      BY <3>0, <3>b, <3>c
    <3>3. active' \in [Terminals -> Seq(Waits)] /\ active'[t] = Append(active[t], w)
          /\ \A u \in Terminals \ {t} : active'[u] = active[u]
      BY <2>3 DEF PtyWaits
    <3>4. w \notin Pty!ToSet(active[t]) /\ active[t] \in Seq(Waits) /\ Pty!IsInjective(active[t])
      BY <2>1 DEF PtyWaits
    <3>5. /\ Pty!IsInjective(active'[t])
          /\ \A v : v \in Pty!ToSet(active'[t]) <=> v \in Pty!ToSet(active[t]) \/ v = w
      BY <3>3, <3>4, OneMore
    <3>6. ASSUME NEW u \in Terminals, NEW v \in Waits
          PROVE  v \in Pty!ToSet(active'[u]) <=> wait'[v].terminal = u /\ wait'[v].outcome = "pending"
      <4>1. CASE v = w /\ u = t
        BY <4>1, <3>2, <3>5
      <4>2. CASE v = w /\ u # t
        BY <4>2, <2>1, <3>2, <3>3 DEF PtyWaits
      <4>3. CASE v # w /\ u = t
        BY <4>3, <3>2, <3>5 DEF PtyWaits
      <4>4. CASE v # w /\ u # t
        BY <4>4, <3>2, <3>3 DEF PtyWaits
      <4> QED BY <4>1, <4>2, <4>3, <4>4
    <3>7. \A u \in Terminals : Pty!IsInjective(active'[u])
      BY <3>3, <3>5 DEF PtyWaits
    <3> QED BY <3>1, <3>2, <3>3, <3>6, <3>7 DEF PtyWaits
  <2> QED BY <1>2, <2>2, <2>3 DEF Pty!WaitFor
<1>3. ASSUME NEW w \in Waits, Pty!Poll(w) PROVE PtyWaits'
  <2>1. PICK t \in Terminals : t = wait[w].terminal /\ wait[w].outcome = "pending"
    BY <1>3 DEF Pty!Poll, PtyWaits
  <2>2. PICK o \in Pty!Outcomes : o # "pending" /\ wait' = [wait EXCEPT ![w].outcome = o]
    BY <1>3 DEF Pty!Poll, Pty!Verdict, Pty!Outcomes
  <2>a. wait \in [Waits -> Pty!Wait] /\ wait[w] \in Pty!Wait
    BY DEF PtyWaits
  <2>b. PICK e : e = [wait[w] EXCEPT !.outcome = o]
    OBVIOUS
  <2>c. wait' = [wait EXCEPT ![w] = e]
    BY <2>2, <2>b
  <2>d. e \in Pty!Wait /\ e.outcome = o
    BY <2>a, <2>b, Ended
  <2>3. wait' \in [Waits -> Pty!Wait]
    BY <2>a, <2>c, <2>d
  <2>4. \A v \in Waits : IF v = w THEN wait'[v].outcome = o ELSE wait'[v] = wait[v]
    BY <2>a, <2>c, <2>d
  <2>5. active' = [active EXCEPT ![t] = Pty!RemoveFirst(@, w)]
    BY <1>3, <2>1 DEF Pty!Poll
  <2>6. /\ Pty!RemoveFirst(active[t], w) \in Seq(Waits)
        /\ Pty!IsInjective(Pty!RemoveFirst(active[t], w))
        /\ \A v : v \in Pty!ToSet(Pty!RemoveFirst(active[t], w)) <=> v \in Pty!ToSet(active[t]) /\ v # w
    BY Spliced DEF PtyWaits
  <2>7. active' \in [Terminals -> Seq(Waits)] /\ active'[t] = Pty!RemoveFirst(active[t], w)
        /\ \A u \in Terminals \ {t} : active'[u] = active[u]
    BY <2>5, <2>6 DEF PtyWaits
  <2>8. ASSUME NEW u \in Terminals, NEW v \in Waits
        PROVE  v \in Pty!ToSet(active'[u]) <=> wait'[v].terminal = u /\ wait'[v].outcome = "pending"
    <3>1. CASE v = w /\ u = t
      BY <3>1, <2>2, <2>4, <2>6, <2>7
    <3>2. CASE v = w /\ u # t
      BY <3>2, <2>1, <2>2, <2>4, <2>7 DEF PtyWaits
    <3>3. CASE v # w /\ u = t
      BY <3>3, <2>4, <2>6, <2>7 DEF PtyWaits
    <3>4. CASE v # w /\ u # t
      BY <3>4, <2>4, <2>7 DEF PtyWaits
    <3> QED BY <3>1, <3>2, <3>3, <3>4
  <2>9. \A u \in Terminals : Pty!IsInjective(active'[u])
    BY <2>6, <2>7 DEF PtyWaits
  <2> QED BY <2>2, <2>3, <2>4, <2>7, <2>8, <2>9 DEF PtyWaits
<1>4. ASSUME UNCHANGED active, wait' \in [Waits -> Pty!Wait],
             \A v \in Waits : wait'[v].terminal = wait[v].terminal /\ wait'[v].outcome = wait[v].outcome
      PROVE  PtyWaits'
  BY <1>4 DEF PtyWaits
<1>5. ASSUME NEW w \in Waits, Pty!Elapse(w) PROVE PtyWaits'
  <2>1. wait \in [Waits -> Pty!Wait] /\ wait[w] \in Pty!Wait
    BY DEF PtyWaits
  <2>2. PICK e : e = [wait[w] EXCEPT !.due = TRUE]
    OBVIOUS
  <2>3. e \in Pty!Wait /\ e.terminal = wait[w].terminal /\ e.outcome = wait[w].outcome
    BY <2>1, <2>2, Flagged
  <2>4. UNCHANGED active /\ wait' = [wait EXCEPT ![w] = e]
    BY <1>5, <2>2 DEF Pty!Elapse
  <2> QED BY <1>4, <2>1, <2>3, <2>4
<1>6. ASSUME NEW w \in Waits, Pty!Abort(w) PROVE PtyWaits'
  <2>1. wait \in [Waits -> Pty!Wait] /\ wait[w] \in Pty!Wait
    BY DEF PtyWaits
  <2>2. PICK e : e = [wait[w] EXCEPT !.aborted = TRUE]
    OBVIOUS
  <2>3. e \in Pty!Wait /\ e.terminal = wait[w].terminal /\ e.outcome = wait[w].outcome
    BY <2>1, <2>2, Flagged
  <2>4. UNCHANGED active /\ wait' = [wait EXCEPT ![w] = e]
    BY <1>6, <2>2 DEF Pty!Abort
  <2> QED BY <1>4, <2>1, <2>3, <2>4
<1>7. ASSUME NEW t \in Terminals, Pty!SkipWait(t) PROVE PtyWaits'
  <2>1. wait \in [Waits -> Pty!Wait]
    BY DEF PtyWaits
  <2>2. PICK e : e = [v \in Waits |-> [wait[v] EXCEPT !.skipped = TRUE]]
    OBVIOUS
  <2>3. ASSUME NEW v \in Waits
        PROVE  e[v] \in Pty!Wait /\ e[v].terminal = wait[v].terminal /\ e[v].outcome = wait[v].outcome
    <3>1. wait[v] \in Pty!Wait /\ e[v] = [wait[v] EXCEPT !.skipped = TRUE]
      BY <2>1, <2>2
    <3> QED BY <3>1, Flagged
  <2>4. UNCHANGED active
        /\ wait' = [w \in Waits |-> IF w \in Pty!ToSet(active[t]) THEN e[w] ELSE wait[w]]
    BY <1>7, <2>2 DEF Pty!SkipWait
  <2>5. wait' \in [Waits -> Pty!Wait]
    BY <2>1, <2>3, <2>4
  <2>6. \A v \in Waits : wait'[v].terminal = wait[v].terminal /\ wait'[v].outcome = wait[v].outcome
    BY <2>3, <2>4
  <2> QED BY <1>4, <2>4, <2>5, <2>6
<1>8. ASSUME NEW t \in Terminals,
             \/ Pty!CreateCall(t) \/ Pty!Create(t) \/ Pty!Output(t) \/ Pty!Exit(t) \/ Pty!ToolClose(t)
             \/ Pty!Attach(t) \/ Pty!Drop(t) \/ Pty!CloseTab(t) \/ Pty!Frame(t)
      PROVE  UNCHANGED Pty!waiting
  BY <1>8 DEF Pty!CreateCall, Pty!Create, Pty!Output, Pty!Exit, Pty!ToolClose, Pty!Closing,
              Pty!Attach, Pty!Drop, Pty!CloseTab, Pty!Frame
<1>9. ASSUME Pty!GateOn \/ Pty!GateOff \/ Pty!Receive \/ UNCHANGED Pty!vars PROVE UNCHANGED Pty!waiting
  BY <1>9 DEF Pty!GateOn, Pty!GateOff, Pty!Closing, Pty!Receive, Pty!vars
<1> QED BY <1>1, <1>2, <1>3, <1>5, <1>6, <1>7, <1>8, <1>9 DEF Pty!Next

\* A push says what is; and one that arrives is what the sidebar shows.
LEMMA PtySidebarKept ==
  ASSUME Pty!ConstantsAssumption, PtyInv, PtyHost', PtyWaits', [Pty!Next]_(Pty!vars)
  PROVE  PtySidebar' /\ LastWord'
<1>1. PtySidebar /\ LastWord /\ queue \in Seq(Pty!Lists) /\ Len(queue) <= MaxPush
  BY DEF PtyInv, PtyTypes, PtySidebar
<1>2. sessions' \subseteq Terminals /\ active' \in [Terminals -> Seq(Waits)]
  BY DEF PtyHost, PtyWaits
<1>3. ASSUME Pty!Notify, UNCHANGED <<tabs, banners, attached, closed>>, frames' \subseteq Terminals
      PROVE  PtySidebar' /\ LastWord'
  BY <1>1, <1>2, <1>3, Announced DEF PtySidebar
<1>4. ASSUME UNCHANGED <<sessions, active, queue, banners>>, tabs' \subseteq Terminals,
             attached' \subseteq Terminals, frames' \subseteq Terminals, closed' \subseteq Terminals
      PROVE  PtySidebar' /\ LastWord'
  BY <1>1, <1>4 DEF PtySidebar, LastWord
<1>5. ASSUME UNCHANGED <<sessions, active, queue, Pty!sidebar>>
      PROVE  PtySidebar' /\ LastWord'
  BY <1>1, <1>4, <1>5 DEF Pty!sidebar, PtySidebar
<1>6. ASSUME UNCHANGED Pty!sidebar, Pty!Notify
      PROVE  PtySidebar' /\ LastWord'
  BY <1>1, <1>3, <1>6 DEF Pty!sidebar, PtySidebar
<1>7. ASSUME NEW t \in Terminals,
             Pty!CreateCall(t) \/ Pty!Output(t) \/ Pty!SkipWait(t)
      PROVE  PtySidebar' /\ LastWord'
  BY <1>5, <1>7 DEF Pty!CreateCall, Pty!Output, Pty!SkipWait, Pty!host, Pty!waiting
<1>8. ASSUME NEW t \in Terminals, Pty!Create(t) \/ Pty!Exit(t) \/ Pty!ToolClose(t)
      PROVE  PtySidebar' /\ LastWord'
  BY <1>6, <1>8 DEF Pty!Create, Pty!Exit, Pty!ToolClose
<1>9. ASSUME NEW t \in Terminals, Pty!Attach(t) \/ Pty!Drop(t) \/ Pty!CloseTab(t)
      PROVE  PtySidebar' /\ LastWord'
  BY <1>1, <1>4, <1>9 DEF Pty!Attach, Pty!Drop, Pty!CloseTab, Pty!host, Pty!waiting, PtySidebar
<1>10. ASSUME NEW t \in Terminals, Pty!Frame(t)
       PROVE  PtySidebar' /\ LastWord'
  <2>1. frames' \subseteq Terminals /\ UNCHANGED <<tabs, banners, attached, closed>>
    BY <1>1, <1>10 DEF Pty!Frame, PtySidebar
  <2>2. CASE process[t] = "running" /\ t \in sessions
    BY <1>3, <1>10, <2>1, <2>2 DEF Pty!Frame
  <2>3. CASE ~(process[t] = "running" /\ t \in sessions)
    BY <1>1, <1>4, <1>10, <2>1, <2>3 DEF Pty!Frame, Pty!waiting, PtySidebar
  <2> QED BY <2>2, <2>3
<1>11. ASSUME NEW w \in Waits, (\E t \in Terminals : Pty!WaitFor(w, t)) \/ Pty!Poll(w)
       PROVE  PtySidebar' /\ LastWord'
  BY <1>5, <1>6, <1>11 DEF Pty!WaitFor, Pty!Poll, Pty!host
<1>12. ASSUME NEW w \in Waits, Pty!Elapse(w) \/ Pty!Abort(w)
       PROVE  PtySidebar' /\ LastWord'
  BY <1>5, <1>12 DEF Pty!Elapse, Pty!Abort, Pty!host
<1>13. ASSUME Pty!GateOn \/ UNCHANGED Pty!vars
       PROVE  PtySidebar' /\ LastWord'
  BY <1>5, <1>13 DEF Pty!GateOn, Pty!host, Pty!waiting, Pty!vars
<1>14. ASSUME Pty!GateOff
       PROVE  PtySidebar' /\ LastWord'
  <2>1. UNCHANGED Pty!sidebar /\ sessions' = sessions \ sessions /\ UNCHANGED active
    BY <1>14 DEF Pty!GateOff, Pty!Closing, Pty!waiting
  <2>2. CASE sessions = {}
    BY <1>5, <1>14, <2>1, <2>2 DEF Pty!GateOff
  <2>3. CASE sessions # {}
    BY <1>6, <1>14, <2>1, <2>3 DEF Pty!GateOff
  <2> QED BY <2>2, <2>3
<1>15. ASSUME Pty!Receive
       PROVE  PtySidebar' /\ LastWord'
  <2>1. PICK list \in Pty!Lists : list = Head(queue) /\ list = queue[1]
    BY <1>1, <1>15 DEF Pty!Receive
  <2>2. /\ queue # << >> /\ queue' = Tail(queue) /\ tabs' = list.uuids /\ banners' = list.waiting
        /\ attached' \subseteq attached /\ frames' = frames \union (attached \ tabs')
        /\ UNCHANGED <<sessions, active, closed>>
    BY <1>15, <2>1 DEF Pty!Receive, Pty!host, Pty!waiting
  <2>3. list.uuids \subseteq Terminals /\ list.waiting \in [Terminals -> Waits \union {None}]
    BY <2>1 DEF Pty!Lists
  <2>4. queue' \in Seq(Pty!Lists) /\ Len(queue') = Len(queue) - 1
    BY <1>1, <2>2
  <2>5. PtySidebar'
    BY <1>1, <2>2, <2>3, <2>4 DEF PtySidebar, Pty!ConstantsAssumption
  <2>6. (IF queue' = << >> THEN banners' ELSE queue'[Len(queue')].waiting) = queue[Len(queue)].waiting
    <3>1. Len(queue) \in Nat \ {0}
      BY <1>1, <2>2
    <3>2. CASE Len(queue) = 1
      BY <1>1, <2>1, <2>2, <2>4, <3>2
    <3>3. CASE Len(queue) # 1
      <4>1. \A i \in 1..Len(queue)-1 : Tail(queue)[i] = queue[i+1]
        BY <1>1, <2>2
      <4>2. Len(queue)-1 \in 1..Len(queue)-1 /\ Len(queue)-1+1 = Len(queue)
        BY <3>1, <3>3
      <4>3. queue'[Len(queue')] = queue[Len(queue)]
        BY <2>2, <2>4, <4>1, <4>2
      <4>4. queue' # << >>
        BY <2>4, <4>2
      <4> QED BY <4>3, <4>4
    <3> QED BY <3>2, <3>3
  <2> QED BY <1>1, <2>2, <2>5, <2>6 DEF LastWord
<1> QED BY <1>7, <1>8, <1>9, <1>10, <1>11, <1>12, <1>13, <1>14, <1>15 DEF PtyInv, Pty!Next

\* Whatever tools, users, processes, sockets and the setting do in whatever order,
\* a running shell is in the registry or was killed by it, and the banners of a
\* sidebar to which no push is under way show the waits that are open.
THEOREM ShellsInvHolds ==
  ASSUME Pty!ConstantsAssumption
  PROVE  Pty!Spec => []PtyInv
<1>1. Pty!Init => PtyInv
  BY PtyInit
<1>2. PtyInv /\ [Pty!Next]_(Pty!vars) => PtyInv'
  <2> SUFFICES ASSUME PtyInv, [Pty!Next]_(Pty!vars) PROVE PtyInv'
    OBVIOUS
  <2>1. PtyHost' /\ Pty!NoLostProcess'
    BY PtyHostKept DEF PtyInv, PtyTypes
  <2>2. PtyWaits'
    BY PtyWaitsKept DEF PtyInv
  <2>3. PtySidebar' /\ LastWord'
    BY <2>1, <2>2, PtySidebarKept
  <2> QED BY <2>1, <2>2, <2>3 DEF PtyInv, PtyTypes
<1> QED BY <1>1, <1>2, PTL DEF Pty!Spec

\* The registry, the waits and the sidebar have their types, and what a terminal
\* records is what waits on it.
THEOREM ShellsTypeCorrect ==
  ASSUME Pty!ConstantsAssumption
  PROVE  Pty!Spec => []Pty!TypeOK
<1>1. PtyInv => Pty!TypeOK
  <2> SUFFICES ASSUME PtyInv PROVE Pty!TypeOK
    OBVIOUS
  <2>1. ASSUME NEW t \in Terminals
        PROVE  Pty!ToSet(active[t]) = {w \in Waits : wait[w].terminal = t /\ wait[w].outcome = "pending"}
    <3>1. active[t] \in Seq(Waits)
      BY DEF PtyInv, PtyTypes, PtyWaits
    <3>2. Pty!ToSet(active[t]) \subseteq Waits
      BY <3>1 DEF Pty!ToSet
    <3> QED BY <3>2 DEF PtyInv, PtyTypes, PtyWaits
  <2>2. \A t \in Terminals : active[t] \in Seq(Waits)
    BY DEF PtyInv, PtyTypes, PtyWaits
  <2> QED BY <2>1, <2>2 DEF PtyInv, PtyTypes, PtyHost, PtyWaits, PtySidebar, Pty!TypeOK
<1> QED BY <1>1, ShellsInvHolds, PTL

\* A running shell no uuid reaches any more has been killed.
THEOREM NoLostProcessHolds ==
  ASSUME Pty!ConstantsAssumption
  PROVE  Pty!Spec => []Pty!NoLostProcess
<1>1. PtyInv => Pty!NoLostProcess
  BY DEF PtyInv
<1> QED BY <1>1, ShellsInvHolds, PTL

\* Once no push is under way the banners show the waits that are really open,
\* whatever skips, exits, closes and overlapping waits came in between.
THEOREM BannersConvergeHolds ==
  ASSUME Pty!ConstantsAssumption
  PROVE  Pty!Spec => []Pty!BannersConverge
<1>1. PtyInv => Pty!BannersConverge
  BY DEF PtyInv, LastWord, Pty!BannersConverge
<1> QED BY <1>1, ShellsInvHolds, PTL

\* While the feature is off no terminal is left and none is being made, if the
\* setting does not change while a create awaits its folder.
THEOREM OffHasNoneHolds ==
  ASSUME Pty!ConstantsAssumption, ~LateCreates
  PROVE  Pty!Spec => []Pty!OffHasNone
<1> DEFINE Off == allowed \in BOOLEAN /\ (~allowed => sessions = {} /\ making = {})
<1>1. Pty!Init => Off
  BY DEF Pty!Init
<1>2. Off /\ [Pty!Next]_(Pty!vars) => Off'
  <2> SUFFICES ASSUME Off, [Pty!Next]_(Pty!vars) PROVE Off'
    OBVIOUS
  <2>1. CASE UNCHANGED <<allowed, sessions, making>>
    BY <2>1
  <2>2. ASSUME NEW t \in Terminals, Pty!CreateCall(t) \/ Pty!Create(t) PROVE Off'
    BY <2>2 DEF Pty!CreateCall, Pty!Create
  <2>3. ASSUME NEW t \in Terminals, Pty!ToolClose(t) \/ Pty!Frame(t) PROVE Off'
    BY <2>3 DEF Pty!ToolClose, Pty!Frame, Pty!Closing
  <2>4. CASE Pty!GateOn
    BY <2>4 DEF Pty!GateOn
  <2>5. CASE Pty!GateOff
    BY <2>5 DEF Pty!GateOff, Pty!Closing
  <2>6. ASSUME NEW t \in Terminals,
               \/ Pty!Output(t) \/ Pty!Exit(t) \/ Pty!SkipWait(t)
               \/ Pty!Attach(t) \/ Pty!Drop(t) \/ Pty!CloseTab(t)
        PROVE  UNCHANGED <<allowed, sessions, making>>
    BY <2>6 DEF Pty!Output, Pty!Exit, Pty!SkipWait, Pty!Attach, Pty!Drop, Pty!CloseTab, Pty!host
  <2>7. ASSUME NEW w \in Waits,
               (\E t \in Terminals : Pty!WaitFor(w, t)) \/ Pty!Poll(w) \/ Pty!Elapse(w) \/ Pty!Abort(w)
        PROVE  UNCHANGED <<allowed, sessions, making>>
    BY <2>7 DEF Pty!WaitFor, Pty!Poll, Pty!Elapse, Pty!Abort, Pty!host
  <2>8. CASE Pty!Receive \/ UNCHANGED Pty!vars
    BY <2>1, <2>8 DEF Pty!Receive, Pty!vars, Pty!host
  <2> QED BY <2>1, <2>2, <2>3, <2>4, <2>5, <2>6, <2>7, <2>8 DEF Pty!Next
<1>3. Off => Pty!OffHasNone
  BY DEF Pty!OffHasNone
<1> QED BY <1>1, <1>2, <1>3, PTL DEF Pty!Spec

\* A skip that reached a wait ends it: only an exit or a cancelled turn speaks
\* first, and never what the terminal wrote or the deadline.
THEOREM SkipSpeaksHolds ==
  ASSUME Pty!ConstantsAssumption
  PROVE  Pty!Spec => Pty!SkipSpeaks
<1> DEFINE Ends(w) ==
      (wait[w].outcome = "pending" /\ wait[w].skipped /\ wait'[w].outcome # "pending") =>
        \/ wait'[w].outcome = "skipped"
        \/ wait'[w].outcome = "exited" /\ process[wait[w].terminal] = "exited"
        \/ wait'[w].outcome = "aborted" /\ wait[w].aborted
<1>1. PtyInv /\ [Pty!Next]_(Pty!vars) => \A w \in Waits : Ends(w)
  <2> SUFFICES ASSUME PtyInv, [Pty!Next]_(Pty!vars), NEW w \in Waits PROVE Ends(w)
    OBVIOUS
  <2>1. wait \in [Waits -> Pty!Wait]
    BY DEF PtyInv, PtyTypes, PtyWaits
  <2>2. CASE wait'[w].outcome = wait[w].outcome
    BY <2>2
  <2>3. ASSUME NEW v \in Waits, NEW t \in Terminals, Pty!WaitFor(v, t) PROVE Ends(w)
    <3>1. v # w => wait'[w] = wait[w]
      BY <2>1, <2>3 DEF Pty!WaitFor
    <3> QED BY <2>2, <2>3, <3>1 DEF Pty!WaitFor
  <2>4. ASSUME NEW v \in Waits, Pty!Poll(v), v # w PROVE wait'[w].outcome = wait[w].outcome
    BY <2>1, <2>4 DEF Pty!Poll
  <2>5. ASSUME Pty!Poll(w), wait[w].skipped PROVE Ends(w)
    <3>1. wait'[w].outcome = Pty!Verdict(w)
      BY <2>1, <2>5 DEF Pty!Poll, Pty!Wait
    <3> QED BY <2>5, <3>1 DEF Pty!Verdict
  <2>6. ASSUME NEW v \in Waits, Pty!Elapse(v) PROVE wait'[w].outcome = wait[w].outcome
    BY <2>1, <2>6 DEF Pty!Elapse, Pty!Wait
  <2>7. ASSUME NEW v \in Waits, Pty!Abort(v) PROVE wait'[w].outcome = wait[w].outcome
    BY <2>1, <2>7 DEF Pty!Abort, Pty!Wait
  <2>8. ASSUME NEW t \in Terminals, Pty!SkipWait(t) PROVE wait'[w].outcome = wait[w].outcome
    BY <2>1, <2>8 DEF Pty!SkipWait, Pty!Wait
  <2>9. ASSUME NEW t \in Terminals,
               \/ Pty!CreateCall(t) \/ Pty!Create(t) \/ Pty!Output(t) \/ Pty!Exit(t) \/ Pty!ToolClose(t)
               \/ Pty!Attach(t) \/ Pty!Drop(t) \/ Pty!CloseTab(t) \/ Pty!Frame(t)
        PROVE  wait' = wait
    BY <2>9 DEF Pty!CreateCall, Pty!Create, Pty!Output, Pty!Exit, Pty!ToolClose, Pty!Closing,
                Pty!Attach, Pty!Drop, Pty!CloseTab, Pty!Frame, Pty!waiting
  <2>10. CASE Pty!GateOn \/ Pty!GateOff \/ Pty!Receive \/ UNCHANGED Pty!vars
    BY <2>2, <2>10 DEF Pty!GateOn, Pty!GateOff, Pty!Closing, Pty!Receive, Pty!vars, Pty!waiting
  <2> QED BY <2>2, <2>3, <2>4, <2>5, <2>6, <2>7, <2>8, <2>9, <2>10 DEF Pty!Next
<1>2. (\A w \in Waits : Ends(w)) => [\A w \in Waits : Ends(w)]_(Pty!vars)
  OBVIOUS
<1> QED BY <1>1, <1>2, ShellsInvHolds, PTL DEF Pty!Spec, Pty!SkipSpeaks
=============================================================================
