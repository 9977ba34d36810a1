# Verification of the better-sidebar plugin

TLA+ models of the parts of the plugin that keep state and run concurrently,
TLC runs that check them on small instances, and TLAPS proofs. Paths below are
relative to the root of the repository (`src/index.ts`), `file.ts:12` is a line of it.

1. [The system](#1-the-system) – inventory of its parts
2. [Modules](#2-modules) – which part each models, state and actions
3. [Runs](#3-runs) – what is checked, the bounds, the fairness
4. [Proofs](#4-proofs)
5. [Where the code departs from its documents](#5-where-the-code-departs-from-its-documents)
6. [Not modelled](#6-not-modelled)
7. [Plan](#7-plan)

## 1. The system

A plugin with two halves. The *host* half (`src/*.ts`, Node) owns processes,
files and the log of a conversation; the *client* half (`src/client`, a React
page) shows them. They talk over POST routes (`/sidebar/api/...`) and several
kinds of WebSocket. Each half is single-threaded: what interleaves is the code
between two awaits, timers, socket events and, on the client, callbacks that
call back in. Sockets break, pages reload, the host restarts, and the user
turns features off while calls are under way.

| Part | State it keeps | Operations | Talks to | What makes it correct |
|---|---|---|---|---|
| UI terminals: `pty-manager.ts`, `attachTerminal` (`index.ts`), `TerminalView.tsx` | table of shells by conversation and tab, close timers, parked marks; the view's socket | open (reuse, respawn, spawn, refuse), park, close frame, hangup, timer, exit, teardown; mount, unmount, switch | one WebSocket per mounted view | no shell outside the table, quota, a parked shell survives, an attached one is not counting down, a closed tab gives its place back |
| Workspace terminals: `workspace-terminal.ts` and its routes | terminals with activity, ages, pins, views; a lock per workspace; the sweep under way | create, ensure, list, rename/pin, attach, detach, terminate, sweep, dispose | routes, shell markers, `ps` | limits, one reservation, only the unused is reclaimed, nothing after disposal, every call answered |
| Terminal catalog push: `workspace-terminal.ts` subscribe/notify, both `workspace-terminal-watch.ts` | revision, listeners, coalescing timer; the watch's socket, baseline, retry | change, publish, subscribe, refuse, close, connect, retry, dispose | one WebSocket per watcher | no leaked listener, the browser converges |
| Summary subscriptions: `client/workspace-terminal-subscriptions.ts` | entries by session and folder: owner, generation, source, timer, last word | subscribe, unsubscribe, registry change, snapshot, error, poll, dispose | providers, the catalog push | the owner is pinned, nothing runs unowned, listeners know the latest |
| File tree currency: `fs-tree.ts`, `fs-watch.ts`, `index.ts`, `client/use-dir-watch.ts` | TTL cache of levels; handles and debounce timers per socket; wanted and confirmed folders | list, write, invalidate, evict; fold, unfold, park, announce, resolve, notify | one WebSocket per tree, list routes | bounded and fresh cache, capped and released handles, every folder on screen watched, notices listed |
| File operations: `fs-operations.ts` | none of their own; the disk and the cached levels | create, make, rename, move, copy, upload, remove, save | routes of the tree and the editor | a new name is a free name, only an upload replaces, only a removal loses, every changed level is invalidated |
| The tree on screen: `client/FileTree.tsx`, `client/undo.ts`, `client/tree-mutations.ts` | levels, generations, placeholders; undo and redo stacks; paths of open tabs | expand, refresh, exclude, notice, settle; perform, undo, redo, fail | list and operation routes, the watch, the editor's tabs | no row waits for ever, rows are the disk's; what can be undone can be, tabs follow their files |
| Active worktree: `active-worktree.ts` | one root per session with its base, epoch and expiry; resolutions under way | ask, join, scan, resolve, evict | every route that needs the session's directory; git | no root from before a change of directory, none older than the TTL and a resolution |
| Editor: `client/EditorHost.tsx`, `client/TextEditor.tsx`, `client/editor-dirty.ts`, the save and read routes | a tab's load, document, mode, draft; the draft registry | open, type, save, reload, preview, rename, close | the file, the operation stream, the tree | no draft lost unasked, no save over what was not seen, previews end fresh |
| File-operation stream: `client/ops-stream.ts`, `client/use-polling.ts`, `changes-ops.ts` | a session's cursor, window, marks and leader; parked requests | join, leave, pull, fold, publish, evict | the session's log, the editor and the changes tab | each settled write is told once and after the baseline, somebody always pulls |
| Chunk loader: `client/chunk-loader.ts` | the load, its ETag, the revalidation barrier | open, load, fail, sweep | the bundle route, lazy tabs | one instance between two sweeps, none stale after one |
| Settings writes: `client/SideCardSection.tsx`, `client/plugin-settings.ts` | optimistic copy, revision, two queues | flip, commit, adopt, revert, notice | the host's settings document | no switch is lost |
| Archives: `archive-route.ts`, the poll and download of `client/FileTree.tsx` | table of builds, their children, temp files and download tokens; the probed tool | start, probe, pack, settle, poll, download, sweep, teardown | `tar`/`zip` children, the disk | what is offered is there, nothing is left behind, the cap holds |
| Resource saves: `client/resource-data.ts`, `resource-data-routes.ts` | tickets with baselines; a queue per real path | read, save on a condition, relink, change of providers | plugins that use the service; the disk | no save over what its caller has not read, none under a provider that was replaced |
| Git status: `client/ui/git-status.ts` | one slot per scope: answer, consumers, timer, pass under way | render, retain, release, refresh, poll, slow down, evict | the status route; every view of changes | all consumers show one picture, a refresh is of the state after the action, the slot lives while used |
| Git lens: `client/changes/GitLens.tsx` | checkout in view, lists shown, lock, dialog, gate of refreshes | choose, list, name, mutate, check out, suggest, ask, confirm, poll | git routes, the tab above it | lists and dialogs fit what is in view, no two mutations in one checkout, no refresh dropped, the lens is not yanked away |
| Native right sidebar: `client/native/surface.ts`, `tab-adapter.tsx`, `index.ts` | queued opens, the plugin's records of the host's tabs, registered types | open, navigate, rename, switch, close, prune; sync | the host's controller, sessions and registries | a queued open arrives once, a record follows what was written last, the host has the enabled types |
| Agent opens: `agent-opens.ts`, `index.ts`, `use-host-feeds.ts` | queue and views per session, the gate of the setting; the push loop | `sidebar_open`, attach, detach, drain, toggle; connect, apply, retry | one WebSocket per session on screen | applied once and in order, what is reported delivered was sent, the queue drains |
| Agent terminals: `agent-pty.ts`, `tools.ts`, `index.ts`, `client/state.ts` | terminals by uuid, their wait records; mirrored tabs and banners | create, wait, skip, abort, close, exit, gate, push; close tab | list WebSocket, terminal WebSockets | no lost shell, every wait answered with the right verdict, banners converge |
| Side chat: `sidechat-push.ts`, `sidechat-routes.ts`, `use-sidechat-push.ts`, `SideChatView.tsx` | watch set and notice timers; transcript cache; live agents, model refs, parked snapshots, the agent's inbox | watch, notify, pull; start, prompt, model, dequeue, dispose, resume | one WebSocket per tab, routes, the host's agents | the tab shows its own rows, the newest, and in the end all that one answer carries; one boundary, first; nothing inherited is sent; a closed tab leaves no agent |
| Side chat seed: `sidechat-core.ts`, `assistant-live.ts` | the live buffer of the parent's attempt | frame, commit, end, start | the parent's log and stream | the seed ends between turns, seed and snapshot tell each thing once |
| Layout: `client/state.ts`, `split-pane.tsx`, `Sidebar.tsx` | the tree of panes, tabs, active tab; per-conversation states, eviction order, pending writes, id counter, localStorage | open, close, activate, move, split, diff, reconcile, reload; switch, reduce, write, evict | every tab of the client | a proper tree, no tab lost, eviction and late writes are invisible, ids distinct |

The other parts (routes, git itself, search, tasks page, rendering) are listed with their reasons in `PROJECT.json` and in section 6.

The hard behaviours: an await between accepting a socket and listening to it
(`index.ts:2344`, `workspace-terminal-watch.ts:22`, `index.ts:2167`); a close
event that comes after the successor's open; a sweep that asks `ps` about a
terminal in use; callbacks that re-enter (`workspace-terminal-subscriptions.ts:141`);
notices lost with a socket; a resume that replays an inbox; a reducer that
removes a pane before it has found the target; an undo that moved its entry
before the host refused it; a pass of refreshes that answers for a checkout
the user has left; a save that checks, renames and asks for the time in
three steps; a burst of switches whose answers arrive one by one. `PROJECT.json` lists them as
hazards, each with the properties that would notice.

## 2. Modules

Every action is one run of a handler to its next await or its end. Data is kept
to what the properties tell apart: a level's content is the number of writes it
has seen, a transcript "holds the needle" or not, a catalog is its number.
Lines beginning `Mutant:` in the modules introduce the defective variants with
which each property is shown to be able to fail.

**PtyTerminals.** `sessions`, `pendingCloses`, `parked` are the three maps of
`PtyManager`; `pty` the processes. A connection is `connecting`, `resolving`
(the await of `sessionCwdOf`, when nobody listens), `attached`, `closed`, or
`deaf` if it hung up while resolving. `wire` carries park and close frames and
the hangup. `OpenReuses`, `OpenSpawns`, `OpenThrows` are the three outcomes of
`open()`; `DeliverControl` and `SocketClosed` the two listeners; `Mount`,
`SwitchTo`, `OpenTab`, `CloseTab`, `Drop` the browser. The constants
`HangupWhileConnecting` and `LateHangup` say whether the network may do what
the code does not withstand.

**WorkspaceTerminals.** A route call goes through the stages `locked`, `sweep`,
`sweeping`, `swept`; a sweep takes its candidates one by one, asks `ps`, judges,
asks again. Time is kept as ages that saturate at the delay they are compared
with. Shell markers, bytes, exits, views and pins happen at any time.

**TerminalSnapshots** and **TerminalSubscriptions.** The catalog's push with its
revisions and restarts; and the client's shared subscriptions, where the call
stack is a variable so that a callback can re-enter at every point the code
calls out.

**FsWatch** and **DirectoryCache.** The watch socket with its awaited path
lookups, and the cache of levels with reads in progress.

**WorkspaceFiles** and **NameSpace.** Seven operations of `fs-operations.ts` as
three steps each (`Check`, `Effect`, `Invalidate`; a recursive removal takes one
per entry), with listings and expiry between them. `NameSpace` is the abstract
specification their doc comments promise: `Add`, `Replace`, `Erase`, `Relocate`,
each one step. `KeepsPromise` is the refinement, with `entries <- tree`, and says
besides that a file's content is lost only while an upload or a removal is at
work, which names alone do not tell. Paths have one or two names, so a directory
does not move into a directory (`Deeper`).

**TreeLevels.** `data`, `pending`, `generation` are `dataRef`, `pendingRef`,
`generationRef`; `Loaded` is `loadLevels` up to its request, `Arrive` what
follows it. The exclude list and the content of a directory are numbers. `asked` is
history: the levels asked for since they came into view. `RowsSettle` claims of these
(the root is always one) that they end up as on disk; a level that was loaded before
and comes into view again is shown as it was kept (section 5).

**TreeHistory.** The stacks of `undo.ts` around the executors in `FileTree.tsx`,
against a host that is `NameSpace`; `Followed` is what `tree-mutations.ts` does
to the editor's tabs.

**ActiveWorktree.** One session's log of directory changes and tool calls; the
entry, the resolutions under way with the base and epoch that key them, callers
between `sessionCwdOf` and the answer. Time is ticks.

**EditorDocument.** A file's tabs through load (stat, then read), document,
mode, draft and save (check, rename, stat), with other writers of the file.

**FileOpStream.** The host's log and long poll, the stream's fold, the election
of the viewer that pulls, and what each viewer was told.

**ChunkLoader.** `cached`, `tracked`, `etag`, `barrier` are `cache`,
`loadedChunks`, `chunkEtags`, `revalidation`.

**SettingsWrites.** The popup's `prefs`, `revisionRef`, `dirtyRef` and queue, the
menus' queue, the page's copy and the host's document.

**ArchiveTasks.** A build is `probing`, `opening`, `packing` or `done`, the table
says what of it can be polled. `Start` sweeps and looks at the cap before the
probe's await, `Spawn` after it; `Unlink` takes time (`doomed`). Teardown kills
the children it can see. `LateTeardown` admits teardown while a build has none.

**ResourceSaves.** The client's `issue()` and `save()` with its tickets, the
host's queue per real path and the steps of a conditional save (read, compare,
temp file, compare, rename), other writers and a link that may be moved.

**GitStatusStore.** A slot is an object minted by a render and kept by an effect;
renders and effects of a batch are steps of their own. `LateEffects` lets answers
come between the two.

**GitLens.** `gates` are `inFlight`, `queued` and the loudness of what is queued;
`loop` is the pass in each gate with the generation it was begun in (`current`);
`running` the operations at the host. `Refresh`, `PassEnds`, `Reset` are
`refresh`, the end of its loop and `clearDerived`. `Returns` admits that a
checkout is shown again while an operation runs there.

**NativeTabs** and **NativeTypes.** The queue of opens and the records of the
adapter against a host controller; and the reconciliation of tab types, where
the host's registry may refuse and fail.

**AgentOpens.** The tool call before and after its awaits, `AgentOpenRegistry`,
the gate, both ends of each socket and the browser's loop.

**AgentPty.** The registry, the poll loop of `waitFor` (with `Verdict`, the
order in which it asks), the gate, the list push and what the sidebar mirrors.

**SidechatFeed** and **SidechatThread.** The transcript's notices and pulls; and
one thread's agent, its log and two inboxes, and the three maps of the routes.

**SidechatSeed.** The parent's log, grown by an event at a time by turns, steps,
attempts, calls and changes of directory, and the buffer of frames. `Seed` and
`Snapshot` are functions of it, asked in every state.

**SplitTree** and **SessionStore.** The tree of panes, kept flat by node id; and
the store with its bounded cache, debounced writes and shared id counter.

**MC modules.** `MCPtyTerminals` adds the symmetry sets. The others choose at
the start, in a variable `part`, which instance a behaviour is about; each part
is a component's own `Init` and `Next` under constants of its own
(`INSTANCE ... WITH`), the components that share no state keep their initial
state meanwhile, and the properties name the parts they are about. So a run asks
one question of a component under several environments. Where values are
interchangeable they are either symmetric or numbered and used in turn
(`InTurn`, `FirstIsOne`), which drops only renamings of other behaviours.

**The eight `_proofs` modules.** Section 4.

## 3. Runs

Eight runs must pass and four must fail. No run replaces a definition. A run is
about one area of the plugin; its properties name, per part, the properties of
the component the part is about.

| Run | Parts and bounds | Shows |
|---|---|---|
| `PtyChaos` | 2 conversations × 2 tabs, 2 folders, 2 processes, 2 sockets, cap 1; late hangups, hangups while connecting, teardown | `NoStrayProcess`, `QuotaRespected`, `MarksConsistent`, `ParkedSurvives`: whatever the network does, the table itself stays sound |
| `WorkspaceTerminals` | *limits* and *reservation* (2 calls, 2 terminals, sweeps; room for two, and for one), *reclaim* (1 terminal through every use, marker and age) | `NoneTooMany`, `NoShellLost`, `ReclaimsOnlyTheUnused` |
| `Terminals` | *pty* (2 conversations × 1 tab, no late hangup, fair), *workspace* (2 calls, 1 terminal, limits of 1, fair), *catalog* (3 sockets, 1 change, 2 faults, fair), *archives* (2 builds where one may run, from the first use on, fair) | `AttachedNotDoomed`; `NothingRunsUnowned`: no listener or timer of a closed socket, no retry of a watch that ended, no archive tool or temp file without its task; `NothingWaitsForever`: a closed tab's shell is released and every call is answered, disposal included; `CatalogConverges` |
| `FileTree` | *watch* (2 folders, 3 sockets, 3 moves, 1 cut, fair), *racing* (lookups overtake each other and the close), *busy* and *quiet* caches (1 level, 1 write), *levels* (3 events, 1 failure), *alone* (3 operations, one after the other, on 6 paths), *mixed* (3 operations of 2 callers, one directory listed), *history* (3 operations, stacks of 2, 1 failure, a tab), *roots* (2 callers, 2 events, TTL of 2 ticks), *marks* (2 consumers, one polls, 1 change, 1 failure), *lens* (2 folders, 2 repositories of 2 checkouts, 2 operations, 3 moves) | `ServedFresh`, `RowsSettle`, `HistoryHolds`, `TreeFollows` (with the promises of the marks and of the lens), `KeepsPromise` (*alone*); caps and released handles in `TreeTypeOK` |
| `Editor` | *editor* (a tab, 2 saves and a rename, nobody writes inside a save), *racing* (1 save, 1 failure, others writing at any moment), *steady* (2 viewers of which one leaves and returns, windows that hold the whole log, fair), *narrow* (windows that forget, an evictable record), *plugins* (2 callers, 2 files, 1 ticket, 1 other writer, 1 change of providers, 1 lost answer) | `DraftsAreSafe`, `NeverBlind`, `ToldTheTruth` (the plugins' saves), `PreviewsSettle` (the stream publishes each write once, and the tabs come to show the last) |
| `Agents` | *queue* (3 opens, room for 2), *drains* (2 sessions, 5 sockets, 2 cuts, fair), *slow* (time between a close and its event), *waits* (1 terminal, 2 overlapping waits, fair), *shells* (2 terminals, tabs closed while detached) | `OpensArrive` (once, in order, never past an attached view), `OpensGetThrough`, `NoShellLeft`, `WaitsAreAnswered` |
| `Sidechat` | *catches* and *pulls* (feed; an answer carries 2 rows, *pulls* has 3 moves and cuts together), *safe*, *picks*, *apart* (thread; 3 calls, 2 models, 3 lives), *seed* (2 turns, 1 attempt, 2 calls), *frames* (4 chunks, a buffer of 2, 1 loss) | `ShowsAllInTheEnd`, `ShowsOwnTail`, `TakenOverOnce` (the boundary, the seed and the stream's snapshot), `ThreadsHold` (*apart*: a closed tab leaves no agent, a switched model is used) |
| `Client` | *tree* (5 tabs, 3 open at a time), *drops* (2 tabs), *evicts*, *shown*, *drafts*, *ids* (3 conversations, 2 in memory), *chunk* (3 openers, 2 edits, 2 sweeps, 1 failure), *popup*, *menu*, *guarded* (2 switches, 4 flips), *feeds* (2 listeners, 2 providers, 2 entries, 1 change), *native* (2 sessions, 2 tabs), *types* (2 descriptors, 1 fault) | `KeepsTabs`, `StoreCoherent`, `ChunkIsFresh`, `KeepsToggles`, `SummariesSettle`; `ClientTypeOK` (a proper tree without empty panes) |
| `PtyHangup` | hangups while connecting | **fails** `NoForgottenShell` (section 5) |
| `LayoutSelfDrop` | the lone tab of a pane dropped on its own centre | **fails** `NoTabLost` |
| `EditorDraft` | typing while a save is in flight | **fails** `DraftsAreGuarded` |
| `EditorRename` | the file renamed while it is edited | **fails** `NothingLost` |

Several properties are conjunctions of named parts in the component's module;
each part has a mutant of its own where it can fail by itself. A liveness
property is asked of one folder, socket, viewer, caller, terminal or wait where
they are all alike. *racing* of `Editor` keeps a flag of its own for blind saves
(`raced`), for others write there inside a save: `NeverBlind` is about the
other part.

**Deadlock** is checked in `LayoutSelfDrop` only. In every other run a bounded
part runs out of sockets, calls or events and then rightly stops; that nothing
stops too early is what the liveness properties say.

**Why the bounds are enough.** Every table is keyed, and no handler reads a
second key except through a count, so two keys show every interference and the
cap of one its limit. Three sockets are a predecessor, its successor and a
reconnect during the successor's handshake. Two overlapping waits give every
order in which records leave the list. Two providers allow one to own an entry
and the other to tempt it. Three lives are creation, a resume and a resume after
that. Three open tabs make every shape of two nested splits and let a pane be
emptied at each depth. Counters (`MaxChanges`, `MaxMoves`, `MaxCuts`,
`MaxEvents`, `MaxRows`, `MaxId`, `MaxLives`, `MaxClears`, `MaxPush`, ...) bound
what the environment does, not what the code may do. The view of
`WorkspaceTerminals` hides a history variable no action reads, except in the
part whose property reads it.

**Fairness** is what the two event loops give: a timer that is set fires, a
promise settles, an unbroken socket delivers in order, a handshake ends.
Nothing is assumed of users, of the model, of processes or of the network: cuts,
folds, opens, writes and exits may come or not. `WorkspaceTerminals` needs one
strong fairness: a call awaiting the sweep under way is resumed in the order it
began to wait, so new sweeps do not overtake it for ever. In `SidechatFeed` a
run of an agent ends and is reported, on which the client's own catch-up relies.
Liveness is asked of the parts whose environment settles (its faults are
bounded); of the others only safety.

## 4. Proofs

Eight modules. Each EXTENDS one component and has the components beside it as
instances, about which its later parts are. Every theorem is for any number of
the things the constants name; what else a theorem assumes is in its statement
and here. Each invariant named below was checked by TLC before it was proved.

**PtyTerminals_proofs**, from `ConstantsAssumption` (finitely many conversations
and tabs, a cap of at least 1, the "undefined" values apart):

| Theorem | Says |
|---|---|
| `TypeCorrect` | `Spec => []TypeOK` |
| `NoStrayProcessHolds` | a running process is in the table |
| `QuotaHolds` | no conversation has more handles than the cap |
| `MarksHold` | timers and parked marks are about handles, never both |
| `ParkedSurvivesHolds` | a step leaves a parked shell alone unless it is a reconnect, its close frame, its own exit or teardown |
| `AttachedNotDoomedHolds` | with `LateHangup = FALSE`, a shell with an attached socket is not counting down |

`TypeOK` is `Types` (what the variables hold) and `EntriesAlive` (what is in the table
was started, was never killed, and is under one key, so that a reconnect never
attaches to a shell that a close is finishing). `Typed` is `Types` with `ConnsKeyed` (a
socket that has left `unused` has a key), without which what a frame does to the
table has no type. `TableInv` is
the conjunction of the three invariants of the table; each alone is not
inductive: that the quota survives `OpenSpawns` needs the count of what
`ClosedByOpen` removed, that no process is stray needs that what leaves the table
is killed by the same step, and that a timer takes no parked shell needs that
marks exclude each other. The lemmas follow the operations of `PtyManager`
(`CloseAllInv`, `MarkInv`, `OpenInv`), each proved once and cited for every
action that calls it. `ParkedSurvives` is an action property over `Typed /\
TableInv`. `AttachedNotDoomed` needs two more invariants: a key has one socket
that is listened to (`OneListener`), and nothing follows a hangup on the wire
(`EndsInHangup`).

**WorkspaceTerminals_proofs**, given one conversation to ask with: `TypeCorrect`;
`NoShellLostHolds` (no path forgets a running shell, none is started by a call
that slept through teardown); `NoneTooManyHolds` (the live limits of
workspace and host, and one reservation per conversation). `Typed` is
`TableOK` (the table) and `RoutesOK` (calls, locks, the sweep). Most actions only
take terminals away or leave their workspace (`Shrinks`), which preserves every
count; the creating step is the one that looks at the limits, in the same run
of the event loop. One reservation per conversation is inductive with `Held` (a
call between its sweep and its creation holds its workspace's lock) and
`Reservations` (a reserved terminal's workspace had nobody else creating).
`RemovesTheUnusedHolds` is the action property of the *reclaim* part, for every
grace and retention: what a step takes off the map, unless it was told to, was
out of use. `Honesty` says that the ages a handle keeps (each of them forgotten
or reset by other events) never exceed what the history says, and that an idle
age exists only at a settled prompt; `ProofStands`, that a probe's captured proof
is about the prompt that is still there unless the revision moved, because an id
is used once.

Its last part is about `TerminalSnapshots`: `CatalogTypeCorrect`;
`NothingRunsUnownedHolds`, because only a subscribed or closing socket has a
listener, whichever of lookup and close came first, and a timer only runs for a
listener; `RevisionsDistinguishHolds` by `WireOf` and `Upto`: nothing is on a wire
before the subscription, and what is on a subscribed one is in the order of its
revisions, none past the host's, which counts from 0 again only after it hung up
on all.

**DirectoryCache_proofs**: `StalenessHolds` (what is answered was on disk less
than the TTL ago, whatever writes overlap the read) by `Shapes /\ Ticks /\ Ages`,
where `Ages` ties the age of an entry to the tick its content was written at;
`NeverServedPastTheWriteHolds` with `Overlap = FALSE`, by `Current` (every entry
holds at least what its directory's last invalidation left); `ServedFreshHolds` is
the two together, as the run asks. The second part is about `TreeLevels`:
`RowsTypeCorrect` whatever overlaps, and `RowsSettleHolds` with `InOrder`. A
placeholder has a request that will replace it (`Owned`), a level in view that has
nothing one of the present generation (`Wanted`); what is listed, or will be
stored, is listed by the exclude list of now (`Filtered`); and of each level asked for
since it came into view, the last request that asks for it will bring what is on
disk, or the level shows it, or the watcher has yet to name it (`AllFresh`). Without
the order of the answers the last to ask need not be the last to arrive, and
`AllFresh` fails.

The last part is about `ActiveWorktree`: `RootsTypeCorrect`, and `RootFollowsHolds` (the
invariants `Boundary` and `Followed`, of which `ServedFresh` is the run's property): the
kept root, a resolution and its callers agree on base and epoch, and none holds
what the log said longer ago than the TTL and one resolution (`RootInv`).

**Client_proofs**, of the lens: `TypeCorrect`, `AnswersFitHolds`, `DialogHolds`,
`NoneDroppedHolds`, `NeverYankedHolds`, and `OneMutationHolds` with `~Returns`.
`Inv` adds to the properties three facts: what is current is about the place in
view (`Answers` of passes, `Locks` of operations), and a waiting request is
behind a loop that goes on (`Queue`). The steps that move the lens are alike, all
of them outdating everything in one step (`Moved`), and so are those that leave
it (`Stayed`); the loop is reasoned about once, in `RefreshFacts` and
`PassEndsFacts`. `Alone` (what runs elsewhere is elsewhere, no two in one place)
is the addition for the mutations.

Then three components of the client. `KeepsTogglesHolds` (`SettingsWrites`): what a
surface shows, what it has written and what it has yet to write agree with the
user's last flip of every switch, through `Commits` (what an answer leaves) and
`Flips`. It is stated for the environments in which the code keeps its word: the
menus alone, or the popup without bursts, and if there are other writers without
flips before its first read (`EarlyFlips`). `ChunkIsFreshHolds` (`ChunkLoader`), with
one sweep at a time: `Kept` says that what is cached is not older than the ETag
recorded nor than what the last sweep compared with, `Shared` that who opened since
that sweep holds what is cached, or a load that failed. `StoreTypeCorrect` and
`StoreCoherentHolds` (`SessionStore`), for any cap of two or more: `Turns` says what a
write does to the order of eviction and `Writes` what a pending write holds, in
which the marks cleared off screen, the draft on screen and the diffs are the
exceptions the code has.

**AgentOpens_proofs**: `TypeCorrect`, and `OpensArriveHolds` whatever sockets do. An
open goes from the queue to one socket to its page. `Ordered` says that each of the
three is in the order of the calls and that all of the later is before all of the
earlier, `EnqueuedOnce` that none is in two of them, and `OneSocket` that a session
has one attached view: it is this that keeps two wires from overtaking each other.
`DeliveredWasSentHolds` with `~Window`: where a closed socket is known at once, an
open reported delivered was sent on an open one. The last part is about `AgentPty`:
`ShellsTypeCorrect`; `NoLostProcessHolds`; `BannersConvergeHolds` by `PtyWaits` (a
terminal records exactly the waits upon it) and `LastWord` (the last list on the
wire, or the sidebar if there is none, has the waits of now or a push is due);
`OffHasNoneHolds` with `~LateCreates`; `SkipSpeaksHolds`, an action property.

**EditorDocument_proofs**: `TypeCorrect`, whoever types, writes and renames;
`DraftsAreSafeHolds`, if the user does not type while a save is in flight
(`TypesInSave = FALSE`) and no rename hits a document that was edited
(`Renames # "any"`; the two failing runs are what happens otherwise);
`NeverBlindHolds`, if nobody writes inside a save (`Overlap = FALSE`). `TypeInv`
says what a document, a read and a save hold, each by itself, and which belong
together: only a row that loads reads, and a tab has one save at most that still
has its reader. Drafts add `SavesTheText`: such a save carries the text its
reader shows, so what its answer settles is what was saved; without it the
conjunct that a draft is registered is not inductive. Saves are not blind because
an mtime stands for a text. `DocsKnow`, `ReadsKnow` and `SavesKnow` say that whoever
holds the file's mtime holds its text (a read between its stat and its text may
hold an older mtime, never a younger one), and `OneMidSave` that one save at a
time is between its check and its stat. Most actions do one of three things
(rows load again, one document changes, one save takes a step), each reasoned
about once.

Its last part is about `ResourceSaves`: `SavesTypeCorrect`, `BaselinesBoundHolds`,
`OutcomesAreTrueHolds`, and `ToldTheTruthHolds`, which adds with `~Races` that a save
replaces the text its baseline was read from. `InLine` says that of the saves of one
real path only the head of its queue is past the queue; `Certain`, that between the
head's last look and its rename the file is still what it saw; `RouteTells`, that
what an answer says is what happened; `Holds`, that a save of the present epoch has
its baseline, and only it one that is pending; `Few`, that a pending save counts as
one of the baselines, whose room its successor takes.

**SidechatFeed_proofs**, for any cap on an answer's rows and every bound:
`TypeCorrect`; `ShowsOwnTailHolds` (the tab shows rows of its own thread only, the
newest of the log it was told of, and never goes back); `OnePullHolds`, which
carries it: a pull aborts its predecessor and a binding aborts all, so there is
one at most, and what it was asked after is still what its cache shows when it
answers. `Told` (what is shown was true of the log) and `OwnDue` (a debounced pull
is of the thread in the tab) complete the invariant.

Its last part is about `SidechatThread`: `SnapshotGoesHolds`, whatever overlaps, by
`Unsaid` (a parked snapshot belongs to a thread to which nothing was said), and
`ThreadsHoldHolds` with `~Overlaps`, by `Quiet` (a closed thread has no call under
way) and `Kept` (an agent that lives is an open thread's and is known to the ref
with the model picked, or is being disposed of). The properties
of the boundary and of the inboxes (`TakenOverOnce`) are about what is left of a
sequence when some of its rows are taken out, which is a recursion over data, and
stay with TLC.

**WorkspaceFiles_proofs**, for any names, callers and number of calls:
`TypeCorrect`, whatever overlaps; and `KeepsPromiseHolds`, the refinement of
`NameSpace`, with `Overlap = FALSE`, for uploads that make their directory and
removals that fail half way too. First what paths of one and two names,
prefixes and counterparts are; then, for each of the promise's four steps, that
it keeps what exists in a directory (`TreeOK`); then that each step of a call
is one of the four. What makes it one is `Alone`: at most one call is between
its check and its end, so the name its check found free is free when it takes
it. `Fits` (a call names what its kind needs, and a move never a path in its own)
keeps a directory out of itself. A file that is lost is lost by the step of an
upload or a removal, by the same case split (`Keeps`). `ListedIsCurrentHolds`, with
`Careless = FALSE` and whatever overlaps: a cached level is the level unless an
operation that changed it has yet to invalidate it. `Current` is inductive with
`Shallow` (no directory is in a directory): what an operation changes shows in
the levels it invalidates, but for the level of a directory that is renamed,
and under its new name nothing is cached (`TakenShows`).

A second part is about `ArchiveTasks`: `ArchiveTypeCorrect` and `DownloadsWorkHolds`
by `Stages` (a build's place in the table, child and file follow its phase) and
`Offers` (what was handed to a download is on offer, swept or torn down);
`NothingLeftHolds` with `LateTeardown = FALSE`; `CapRespectedHolds`, for finitely many
builds: more than the cap run only if each of them asked before the tool was
known. `ArchiveNothingRunsUnownedHolds` is the three together.

The last part is about `TreeHistory`, with one request under way at a time and no
lost answer, until something is removed for good: `HistoryHoldsHolds`, what can be
undone restores the tree it was performed on and what can be redone is performed
on that very tree, and (if no copy is opened) `TabsFollowHolds`. An operation is
recorded with the tree it was performed on, and `Chain` says where a stack leads:
the last of *undo* left the tree that is there, each other one the tree the next
was recorded with, and *redo* goes on from there. `Asking` is what holds while a
request is under way: the entry is on the other stack already, while the tree is
before or after it. Every operation is undone by its inverse (`MovesBack`,
`CopyBack`); for a copy this needs a content that is not in the tree yet, which the
number of copies so far (`Tree`) provides. Tabs need `Tabbed`: each is where the
answer that is in will find its file.

Only model-checked: all liveness (it rests on `ENABLED` and fairness, out of the
prover's reach); what is a recursion over data (the functions of `SidechatSeed`
over logs, the inboxes of `SidechatThread`, the cap of `DirectoryCache`, which is
the length of a filtered sequence, the forests of `SplitTree`); the components
without a proof (`FsWatch`, `FileOpStream`, `GitStatusStore`,
`TerminalSubscriptions`, `NativeTabs`, `NativeTypes`); `TabsFollow` once something was
removed; and the runs that find violations. The type invariants of the runs join
those of their parts: where a part has a proof, its share is proved.

## 5. Where the code departs from its documents

Four departures are runs. `PtyHangup`: the listeners of a terminal socket are
installed after the await of the folder (`index.ts:2344`), so a hangup during it
is lost, and the shell opened afterwards is neither attached, parked nor
counting down, although `pty-manager.ts:82` says that a bare drop schedules a
close. `LayoutSelfDrop`: `moveTab` removes the pane a lone tab leaves before it
looks for the target (`client/state.ts:541`), so dropping the tab on its own
pane's centre discards it; `state.ts:329` says "reorder to the end".
`EditorDraft`: a save that ends while the user types on clears the draft's entry
in the registry (`client/TextEditor.tsx:635`), so what was typed meanwhile is
guarded by nobody, against `client/editor-dirty.ts:2`. `EditorRename`: the
view of a document is made anew when its path changes
(`client/TextEditor.tsx:388`), from the text that was loaded, so a rename drops
the draft, although `client/tree-mutations.ts:178` says the editor "keeps its
document (and an unsaved draft)".

The others bound what the passing runs claim. Each is behaviour the models have
(the named constant or part admits it) and the property excludes:

- `index.ts:2411` the close event of an old socket, handled after its successor
  attached, starts the grace of a shell in use (`LateHangup`); and it replaces
  the immediate close of a close frame by the grace.
- `index.ts:2347` a terminal is opened although teardown ran during the await.
- `workspace-terminal.ts:284` `ensure` creates after its sweep without looking
  again, so "only an empty workspace creates one" (`:270`) may fail beside a
  concurrent `create`.
- `fs-tree.ts:141` a read that a write overlapped is cached for the rest of the
  TTL (`Overlap`), against `:105`; `ServedFresh` bounds it by the TTL.
- `index.ts:2167` a path lookup that outlives its socket leaves the handle
  (`Races`); `client/use-dir-watch.ts:115` a folder folded before its
  confirmation stays watched; `:159` a notice lost with a connection is not made
  up for by listing, as `:189` does after parking.
- `agent-opens.ts:87` a view whose socket is closing takes nothing and counts as
  delivery (`Window`); `:272` an open is queued after the tool was unregistered;
  `client/sidebar/use-host-feeds.ts:264` the count of failures is never reset,
  though `:22` says consecutive.
- `tools.ts:133` a terminal is created after the gate closed (`LateCreates`);
  `client/TerminalView.tsx:667` a tab closed without an open socket tells nobody
  (`ClosesDetached`); `index.ts:2444` a close frame is not read once the process
  has exited, and the next list brings the tab back; `agent-pty.ts:556` `exited`
  is answered before the transcript is searched.
- `sidechat-routes.ts:879` the cap drops the oldest rows of a delta, so a pull
  that is further behind than the cap leaves a hole which no later pull fills:
  `ShowsOwnTail` claims the newest rows only, as many as one answer carries;
  `client/SideChatView.tsx:868` a debounced pull outlives the parking of its
  tab; `sidechat-routes.ts:905` the boundary's own pending row can be dequeued
  (*picks*); `:820` a model switch during a dispose leaves a stale ref, and
  `:821` a close during a resume leaves the agent (`Overlaps`).
- `client/state.ts:839` a split of diffs alone comes back as empty panes
  (`DiffsAlone`); `client/Sidebar.tsx:572` a drop to the right within a pane
  lands one place too far; `state.ts:483` a new tab goes to the first pane, not
  the active one (`:100`); `:1089` a mark cleared off screen is not written
  (`BackgroundClears`); `client/changes/ChangesTab.tsx:189` a draft of the
  session on screen is overwritten by the next reduce (`ActiveDrafts`);
  `state.ts:1229` an evicted session loses its diffs.
- `fs-operations.ts:169` a save checks, renames and asks for the time in three
  steps, so a write between two of them is overwritten or taken for the saved
  one (`Overlap`); `:294` two renames or moves that both found the name free
  clobber it, which "refused" there rules out (`Careless`, `Overlap`); `:110` an
  upload into a folder it makes invalidates that folder and not its parent, and
  a recursive removal that fails half-way invalidates nothing.
- `client/EditorHost.tsx:437` a rename while the file loads leaves the spinner;
  `client/TextEditor.tsx` a failed save that consumed the model's notice leaves
  a stale preview.
- `client/ops-stream.ts:28` an operation that ran when the baseline was taken is
  never told of; after an eviction a viewer that returns listens to the old
  record (`Evicts`).
- `client/undo.ts` two undos in flight that both fail come back in reversed
  order, and an undo beside a redo duplicates an entry (`Slots`); an answer lost
  after the host's effect leaves the entry where it was (`LostAnswers`); the
  undo of a copy closes no tab that shows it (`TabsOnCopies`).
- `client/FileTree.tsx:1295` after an unmount a dropped answer asks again; a
  collapsed level that went stale is not listed again when it is opened; if
  answers overtake each other, older rows stay (`InOrder`).
- `client/chunk-loader.ts:273` a load that fails after a reset deletes the entry
  of its successor (`LateFails`), and the ETag recorded may be of another version
  than the script run (`Races`).
- `client/SideCardSection.tsx:709` two switches of one burst: a conflict reverts
  the first and keeps the second's older picture (`Bursts`); a conflict does not
  refresh the revision; a slow first read overwrites a newer own write
  (`EarlyFlips` says when).
- `active-worktree.ts:41` "within at most 15 s of the move": the TTL starts when
  a resolution ends, so it is 15 s and one resolution (`Boundary`).
- `archive-route.ts:31` teardown "also kills a build still running": while a build
  awaits the probe, its temp file or its stat, it leaves the tool or the file
  (`LateTeardown`); `:52` the cap is looked at before the first probe's await, so
  several builds pass it together; a task past its time is swept when the table
  is next looked at.
- `resource-data-routes.ts:2` declares it: a writer outside, between the last
  comparison and the rename, is overwritten (`Races`).
- `client/ui/git-status.ts:417` a pass that settles between a render and its
  effects drops the slot with its answer kept, and the retain serves it without
  a fetch, against the header's lines 52–57 (`LateEffects`); a consumer that asks
  for the timer later does not re-arm it.
- `sidechat-core.ts:147` the snapshot is null "when the seed already carries the
  whole picture"; without a call under way the text the parent is streaming is in
  neither. The snapshot speaks only of what has no result yet.
- `client/native/surface.ts:242` the mounted feed is subscribed at the first
  publication of the list and never to a controller that replaces it; `:178`
  queued opens are replayed newest first; opens for deleted sessions stay queued;
  `client/native/tab-adapter.tsx:316` a list that misses a session, or a refused
  close, drops a record which the next render mints again from the host's old
  path (`Misses`). Read and not modelled: the line to land on is taken up at every
  render (`:331`), although `update()` clears it when the path changes (`:375`).
- `client/changes/GitLens.tsx:687` a manual refresh queued behind the poll's pass
  goes with it when the poll is stopped, against `:520` "never silently dropped"
  (`waiting` leaves such requests out); `:747` "Lock one target's mutation": a
  checkout that is left and shown again while its mutation runs accepts a second
  (`Returns`); a listing that moves the lens releases the lock of what runs; a
  commit that ends after its place was left leaves its message in the draft.

## 6. Not modelled

Bytes of terminals (replay, input, resize), encodings, git output, search,
markup and drawing are data whose handling keeps no state these properties could
be about, or lies outside what a model checker can enumerate. Of the modelled
parts, titles, sizes, pins in the layout, the wording of errors and logging are
left out; `PROJECT.json` says so per part. External code (the host's agents,
inbox driver and session list, `ps`, shells, the browser's sockets and storage)
is modelled from how `src` uses it and marked external. Storage is taken to
accept writes; path fences to refuse like the cap does.

Parts that keep state and are not modelled:

- `client/service.ts` (open and close callbacks, registries): its registries are
  what `NativeTypes` and `TerminalSubscriptions` see of it; the callbacks' order
  against a plugin's disposal is in the plan.
- File search and its engines: one child process per query, killed by the next;
  results are data.
- Git runner and graph, subagent, team and workflow routes: requests that read
  and answer, with no state between two of them beyond the caches modelled.
- Tasks page and Agent Teams board: projections of host documents.
- Of modelled parts: an agent that the host ends otherwise than by the side chat's
  routes (`client/SideChatView.tsx:1221` archives a session), whose entry stays in
  `threadModelRefs` (`sidechat-routes.ts:497`); a terminal source that emits from
  within its own `subscribe()`; typing in the `code` viewer's single mode, called
  preview (`client/TextEditor.tsx:766`), whose drafts `EditorDocument` reaches by way
  of edit mode.
- The fold of a side chat transcript, the budget of a snapshot, compacted
  parents: pure functions over texts; `SidechatSeed` has the fold of the seed.
- `tmp/`, prototypes, locales, installers, icons, markup: no behaviour, or not
  the program's.

These, with rendering and layout, are most of the repository's lines, which is
why the map covers a small share of it.

## 7. Plan

Done, in order of weight: `PtyTerminals`, `WorkspaceTerminals`,
`TerminalSnapshots`, `TerminalSubscriptions`, `FsWatch`, `DirectoryCache`,
`AgentOpens`, `AgentPty`, `SidechatFeed`, `SidechatThread`, `SplitTree`,
`SessionStore`; then `WorkspaceFiles` with `NameSpace`, `TreeHistory`,
`TreeLevels`, `ActiveWorktree`, `EditorDocument`, `FileOpStream`, `ChunkLoader`,
`SettingsWrites`; then `ArchiveTasks`, `ResourceSaves`, `GitStatusStore`,
`SidechatSeed`, `NativeTabs`, `NativeTypes`, `GitLens`; and the eight proof modules.

Next modules, each joining the run of its neighbour as a part:
1. `client/service.ts`: open and close callbacks of plugins that are disposed of
   while they run.
2. Sending in `client/SideChatView.tsx`: drafts, retries, the optimistic row.
3. `client/changes/diff/rows.ts` and the transcript's fold, as pure operators
   against reference definitions.
4. File search: the engine's child against the next query.
5. The tasks model.

Abstract specifications worth stating: a bounded set of leases (key, holder,
deadline) that `PtyTerminals` implements through `sessions` and `pendingCloses`;
a register that a watcher eventually reads, implemented by `TerminalSnapshots`;
a map from conversation to state without cache or debounce, implemented by
`SessionStore`.

Proofs to add: the bounded set of leases in `PtyTerminals_proofs`; the cap and the
released handles of `FsWatch`, what a consumer of `GitStatusStore` sees; and `TabsFollow` after a removal, for which `Chain` would have
to say that the tree is a part of what the stack leads to.
