---------------------------- MODULE NativeTypes ----------------------------
(***************************************************************************)
(* The plugin's tab types in the host's registry (native/index.ts): each    *)
(* enabled descriptor is a type there with the slots of its body and its    *)
(* title, and the editor also takes the built-in kind of the files window. *)
(* The host draws a body again when its registration is another one, and   *)
(* refuses an id it has.  `sync` runs at every notification of the service *)
(* and of the store, a change of preferences or of session included.       *)
(* The host is modelled from its use here.  Left out: what a definition    *)
(* carries (titles, icons, patterns).                                      *)
(***************************************************************************)
EXTENDS Naturals, FiniteSets

CONSTANTS Descriptors, Editor, Files, MaxFaults, MaxSyncs

VARIABLES
  seated,    \* whether the host's registry service is provided
  enabled,   \* the descriptors that are registered, enabled and not for the bottom alone
  taken,     \* ids the host's registry has
  stuck,     \* history: ids whose release failed in the host
  live,      \* the plugin's registrations by id: their serial number, or 0
  failed,    \* ids whose registration the last sync reported as failed
  syncs, faults

vars == <<seated, enabled, taken, stuck, live, failed, syncs, faults>>

Ids == Descriptors \cup {Files}
Live == {id \in Ids : live[id] # 0}

TypeOK ==
  /\ seated \in BOOLEAN /\ enabled \subseteq Descriptors
  /\ taken \subseteq Ids /\ stuck \subseteq taken /\ failed \subseteq Ids
  /\ live \in [Ids -> 0 .. MaxSyncs] /\ syncs \in 0 .. MaxSyncs /\ faults \in 0 .. MaxFaults

Init ==
  /\ seated = FALSE /\ enabled \in SUBSET Descriptors
  /\ taken = {} /\ stuck = {} /\ live = [id \in Ids |-> 0] /\ failed = {}
  /\ syncs = 0 /\ faults = 0

\* The types `sync` wants: files follows the editor's switch.
Wanted(on) == on \cup {id \in {Files} : Editor \in on}
\* Mutant: files is no descriptor and is dropped at every notification, to be
\* registered anew.
Dropped_Files(on) == Live \ on
Dropped(on) == Live \ Wanted(on)

\* Mutant: a type whose slots failed is left registered.
RolledBack_Not(unslotted) == {}
\* registerDescriptor, registerFilesKind: the type is released when its slots fail.
RolledBack(unslotted) == unslotted

\* sync: drop what is not wanted, register what is not live.  In `held` the host
\* fails to release an id, in `unslotted` the slots fail after the type is in,
\* in `refused` the registration of the type fails.
Sync(on, held, unslotted, refused) ==
  LET kept == Live \ Dropped(on)
      left == taken \ (Dropped(on) \ held)
      tried == Wanted(on) \ kept
      typed == tried \ (left \cup refused)
      back == RolledBack(typed \cap unslotted)
      new == typed \ unslotted IN
  /\ held \subseteq Dropped(on) \cup (typed \cap unslotted) /\ unslotted \subseteq typed
  /\ refused \subseteq tried \ left
  /\ faults' = faults + Cardinality(held) + Cardinality(unslotted) + Cardinality(refused)
  /\ faults' <= MaxFaults /\ syncs < MaxSyncs
  /\ syncs' = syncs + 1
  /\ enabled' = on
  /\ taken' = (left \cup typed) \ (back \ held)
  /\ stuck' = stuck \cup held
  /\ live' = [id \in Ids |-> IF id \in new THEN syncs' ELSE IF id \in kept THEN live[id] ELSE 0]
  /\ failed' = tried \ new

Few == {ids \in SUBSET Ids : Cardinality(ids) <= MaxFaults - faults}
Faulty(A(_, _, _)) == \E held, unslotted, refused \in Few : A(held, unslotted, refused)

\* The registry service is provided.
Seat ==
  /\ ~seated /\ seated' = TRUE
  /\ Faulty(LAMBDA held, unslotted, refused : Sync(enabled, held, unslotted, refused))
\* A descriptor is registered, removed, switched on or off, or nothing of it changes.
Notify(on) ==
  /\ seated /\ UNCHANGED seated
  /\ Faulty(LAMBDA held, unslotted, refused : Sync(on, held, unslotted, refused))
\* The same while there is no registry to be in step with.
Choose(on) ==
  /\ ~seated /\ enabled' = on
  /\ UNCHANGED <<seated, taken, stuck, live, failed, syncs, faults>>
\* The service goes away or the plugin is stopped: everything is released.
Unseat(held) ==
  /\ seated /\ seated' = FALSE
  /\ held \subseteq Live /\ faults + Cardinality(held) <= MaxFaults
  /\ faults' = faults + Cardinality(held)
  /\ taken' = taken \ (Live \ held) /\ stuck' = stuck \cup held
  /\ live' = [id \in Ids |-> 0] /\ failed' = {}
  /\ UNCHANGED <<enabled, syncs>>

Next ==
  \/ Seat
  \/ \E on \in SUBSET Descriptors : Notify(on) \/ Choose(on)
  \/ \E held \in SUBSET Ids : Unseat(held)

Spec == Init /\ [][Next]_vars

-----------------------------------------------------------------------------
(* Properties. *)

\* index.ts:387-390: an id stays taken "for the rest of the page's life" when nobody
\* holds its disposer.  Only a release the host failed leaves one.
NoneOrphaned == taken \ Live \subseteq stuck

\* "One descriptor must not take the rest of the surface down with it": what is
\* wanted is live or was reported, and what is live is wanted, whatever failed.
InStep == seated => Live = Wanted(enabled) \ failed

\* A body that stays wanted is never drawn anew: "re-mounted the explorer body and
\* lost the tree's own component state" (index.ts:461-462).
StaysDrawn ==
  \A id \in Live : seated /\ seated' /\ id \in Wanted(enabled') => live'[id] = live[id]
BodiesStay == [][StaysDrawn]_vars
=============================================================================
