--------------------------- MODULE ChunkLoader ---------------------------
(***************************************************************************)
(* One lazy chunk of the client (chunk-loader.ts): the memoized load that  *)
(* its openers share, the ETag asked for after a load, and the             *)
(* revalidation that a re-activation of the plugin runs, which holds new   *)
(* openers back while it compares the ETag with the script on disk.        *)
(*                                                                         *)
(* The script on disk is a number, one more with each edit.  An opener     *)
(* calls loadChunk once; a load has the number of the opener that began it.*)
(* A HEAD answers with the script of the moment it is answered.            *)
(* Left out: resetChunks and the test registry (tests only), a script that *)
(* registers no factory (a failed load), the table of externals.           *)
(***************************************************************************)
EXTENDS Naturals, FiniteSets

CONSTANTS
  Openers,
  Races,       \* whether the script changes while a load or its ETag is under way,
               \* and sweeps overlap
  LateFails,   \* whether a load fails that the cache no longer holds
  MaxEdits, MaxSweeps, MaxFailures,  \* bounds
  None

ConstantsAssumption ==
  /\ Races \in BOOLEAN /\ LateFails \in BOOLEAN /\ None \notin Openers \cup Nat
  /\ MaxEdits \in Nat /\ MaxSweeps \in Nat /\ MaxFailures \in Nat

VARIABLES
  script,      \* the script on disk
  cached,      \* cache: the load it holds, or None
  tracked,     \* loadedChunks holds the chunk
  etag,        \* chunkEtags: the script it was recorded of, or None
  load,        \* opener -> the load it began
  opener,      \* opener -> where its call is
  barrier,     \* revalidation: the sweep new openers wait for, or 0
  sweep,       \* sweep -> its stage
  compared,    \* ghost: the script when the last sweep began, or 0
  failures

vars == <<script, cached, tracked, etag, load, opener, barrier, sweep, compared, failures>>

NoLoad == [stage |-> "none", of |-> 0, head |-> FALSE]
NoCall == [stage |-> "idle", waits |-> 0, shares |-> None, floor |-> 0, turn |-> 0]
Sweeps == 1 .. MaxSweeps

TypeOK ==
  /\ script \in 1 .. MaxEdits + 1
  /\ cached \in Openers \cup {None} /\ tracked \in BOOLEAN
  /\ etag \in 1 .. MaxEdits + 1 \cup {None}
  /\ \A o \in Openers :
       /\ load[o].stage \in {"none", "fetching", "making", "done", "failed"}
       /\ load[o].of \in 0 .. script /\ load[o].head \in BOOLEAN
       /\ opener[o].stage \in {"idle", "waiting", "sharing"}
       /\ (opener[o].stage = "waiting") = (opener[o].waits # 0)
       /\ (opener[o].stage = "sharing") = (opener[o].shares # None)
       /\ load[o].stage # "none" => opener[o].shares = o
  /\ cached # None => load[cached].stage \notin {"none", "failed"}
  /\ barrier \in Sweeps \cup {0} /\ (barrier # 0 => sweep[barrier] = "asking")
  /\ sweep \in [Sweeps -> {"none", "asking", "done"}] /\ compared \in 0 .. script
  /\ failures \in 0 .. MaxFailures

Init ==
  /\ script = 1 /\ cached = None /\ tracked = FALSE /\ etag = None
  /\ load = [o \in Openers |-> NoLoad] /\ opener = [o \in Openers |-> NoCall]
  /\ barrier = 0 /\ sweep = [s \in Sweeps |-> "none"] /\ compared = 0
  /\ failures = 0

-----------------------------------------------------------------------------
(* loadChunk                                                                *)

\* Sweeps begun and ended so far: what the cache held before may be gone.
Turns == Cardinality({s \in Sweeps : sweep[s] # "none"})
           + Cardinality({s \in Sweeps : sweep[s] = "done"})

\* The openers in S take what the cache holds; if it holds nothing, one of them
\* begins a load, which the cache holds from then on.  floor is a ghost: the
\* script that the last sweep before the call compared with.
Take(S, kept, turns) ==
  IF S = {} THEN cached' = kept /\ UNCHANGED <<load, opener>>
  ELSE \E first \in (IF kept = None THEN S ELSE {kept}) :
    /\ opener' = [o \in Openers |->
         IF o \in S
         THEN [stage |-> "sharing", waits |-> 0, shares |-> first, turn |-> turns,
               floor |-> IF opener[o] = NoCall THEN compared ELSE opener[o].floor]
         ELSE opener[o]]
    /\ load' = IF kept = None THEN [load EXCEPT ![first].stage = "fetching"] ELSE load
    /\ cached' = first

\* Mutant: a pending revalidation is not waited for.
Open_NoBarrier(o) ==
  /\ opener[o] = NoCall /\ Take({o}, cached, Turns)
  /\ UNCHANGED <<script, tracked, etag, barrier, sweep, compared, failures>>

\* Mutant: a load is shared only once it has ended.
Open_Alone(o) ==
  /\ opener[o] = NoCall /\ barrier = 0
  /\ Take({o}, IF cached # None /\ load[cached].stage = "done" THEN cached ELSE None, Turns)
  /\ UNCHANGED <<script, tracked, etag, barrier, sweep, compared, failures>>

Open(o) ==
  /\ opener[o] = NoCall
  /\ IF barrier = 0 THEN Take({o}, cached, Turns)
     ELSE /\ opener' = [opener EXCEPT ![o] = [NoCall EXCEPT
                 !.stage = "waiting", !.waits = barrier, !.floor = compared]]
          /\ UNCHANGED <<cached, load>>
  /\ UNCHANGED <<script, tracked, etag, barrier, sweep, compared, failures>>

\* The script tag fetches and runs the script.
Execute(o) ==
  /\ load[o].stage = "fetching"
  /\ load' = [load EXCEPT ![o].stage = "making", ![o].of = script]
  /\ UNCHANGED <<script, cached, tracked, etag, opener, barrier, sweep, compared, failures>>

\* The factory runs.  Whatever load the cache holds now, the chunk is tracked.
Materialize(o) ==
  /\ load[o].stage = "making"
  /\ load' = [load EXCEPT ![o].stage = "done", ![o].head = (cached # None)]
  /\ tracked' = (tracked \/ cached # None)
  /\ UNCHANGED <<script, cached, etag, opener, barrier, sweep, compared, failures>>

\* A load that fails clears what the cache holds, whichever load that is.
Fail(o) ==
  /\ load[o].stage \in {"fetching", "making"} /\ failures < MaxFailures
  /\ LateFails \/ cached \in {o, None}
  /\ load' = [load EXCEPT ![o].stage = "failed"]
  /\ cached' = None /\ tracked' = FALSE /\ etag' = None
  /\ failures' = failures + 1
  /\ UNCHANGED <<script, opener, barrier, sweep, compared>>

\* recordEtag: the HEAD of a load is answered, or fails.
RecordEtag(o) ==
  /\ load[o].head
  /\ load' = [load EXCEPT ![o].head = FALSE]
  /\ \/ etag' = script /\ UNCHANGED failures
     \/ failures < MaxFailures /\ failures' = failures + 1 /\ etag' = None
  /\ UNCHANGED <<script, cached, tracked, opener, barrier, sweep, compared>>

-----------------------------------------------------------------------------
(* revalidateChunksOnReactivate                                             *)

Waiting(s) == {o \in Openers : opener[o].waits = s}

\* What is not tracked (a load in flight) is dropped; then there is nothing to ask.
Sweep(s) ==
  /\ sweep[s] = "none" /\ \A r \in Sweeps : r < s => sweep[r] # "none"
  /\ Races \/ barrier = 0
  /\ IF tracked THEN sweep' = [sweep EXCEPT ![s] = "asking"] /\ barrier' = s /\ UNCHANGED cached
     ELSE sweep' = [sweep EXCEPT ![s] = "done"] /\ barrier' = 0 /\ cached' = None
  /\ compared' = script
  /\ UNCHANGED <<script, tracked, etag, load, opener, failures>>

\* The HEAD of a sweep is answered: the same ETag keeps the exports, another one,
\* none, or a failure drops them.  Who waited for this sweep goes on, even if
\* another one is under way.
EndSweep(s) ==
  /\ sweep[s] = "asking"
  /\ sweep' = [sweep EXCEPT ![s] = "done"]
  /\ barrier' = IF barrier = s THEN 0 ELSE barrier
  /\ \/ /\ etag = script
        /\ Take(Waiting(s), cached, Turns + 1)
        /\ UNCHANGED <<tracked, etag, failures>>
     \/ /\ etag # script \/ failures < MaxFailures
        /\ failures' = IF etag # script THEN failures ELSE failures + 1
        /\ Take(Waiting(s), None, Turns + 1)
        /\ tracked' = FALSE /\ etag' = None
  /\ UNCHANGED <<script, compared>>

-----------------------------------------------------------------------------
(* The disk                                                                 *)

Edit ==
  /\ script <= MaxEdits
  /\ Races \/ \A o \in Openers : load[o].stage \notin {"fetching", "making"} /\ ~load[o].head
  /\ script' = script + 1
  /\ UNCHANGED <<cached, tracked, etag, load, opener, barrier, sweep, compared, failures>>

Next ==
  \/ \E o \in Openers : Open(o) \/ Execute(o) \/ Materialize(o) \/ Fail(o) \/ RecordEtag(o)
  \/ \E s \in Sweeps : Sweep(s) \/ EndSweep(s)
  \/ Edit

Spec == Init /\ [][Next]_vars

-----------------------------------------------------------------------------
(* Properties                                                               *)

\* "A lazy tab opening mid-revalidation can never render stale exports": what an
\* opener renders is not older than what the last sweep before it compared with.
NoneStale ==
  \A o \in Openers :
    opener[o].stage = "sharing" /\ load[opener[o].shares].stage = "done"
      => load[opener[o].shares].of >= opener[o].floor

\* "Load (once)": between two sweeps all openers render the same instance.
OneInstance ==
  \A o, p \in Openers :
    opener[o].stage = "sharing" /\ opener[p].stage = "sharing" /\ opener[o].turn = opener[p].turn
      => \/ opener[o].shares = opener[p].shares
         \/ \E q \in {o, p} : load[opener[q].shares].stage = "failed"

\* What an opener renders is fresh, and one instance is rendered by all.
ChunkIsFresh == NoneStale /\ OneInstance
=============================================================================
