# A verification development for UMDP ("Unity Mono Studio")

UMDP attaches to a running Unity game, reads its managed metadata and its live
scene, and lets the user inspect, edit and script it. It is a Tauri
application: a Rust backend (`src-tauri/src`) that talks to the game, and a
React front end (`src`) that shows what the backend reports. This directory
holds TLA+ modules for the parts whose correctness depends on the order of
events, the TLC configurations that check them, and proofs checked by TLAPS.

Paths in this file are relative to the repository; `scene_store.rs` is
`src-tauri/src/state/scene_store.rs`, `tasks.rs`, `picker.rs`, `mutation.rs` and
`refresh.rs` are in `src-tauri/src/kernel/scene/`.

## Threads and locks

Every backend store is one structure behind one mutex, and every method locks
it once: a method is one step. What makes the system hard is between the methods.

- Synchronous Tauri commands (attach, start and cancel of an analysis, all
  picker commands, every `get_*`) run on the main thread, one at a time.
- Asynchronous commands (catalog refresh, scene mutations, metadata load,
  invocations, field edits) and the worker threads run on the blocking pool, in
  parallel with the main thread and with each other.
- Scene mutations hold the scene mutation lock from the call into the game to the
  last invalidation (`mutation.rs:275`); nothing else takes that lock.
- The session key (`pid:name:runtime`) is read from the workspace lifecycle at
  the start of an operation and passed along; stores compare it with the key they
  hold. It does not change when the same process is attached again.
- Results reach the page twice: as the answer of the command, and as an event
  emitted after the lock is released. The page orders them by epoch, id and revision.

## Inventory

| Part | State | Operations | Hard part |
|---|---|---|---|
| Children task store and workers (`scene_store.rs:588-976`, `tasks.rs`) | task per parent, cache, id/epoch/revision counters | start, cancel, apply page, complete, fail, invalidate, reset; paging thread | pages of old workers, stale cache, tasks nobody works on |
| Header and components task stores (`scene_store.rs:979-1706`) | as above, per object | as above; components page by page | second worker for one id, versions that part from the catalog's |
| Catalog (`scene_store.rs:197-323`, `refresh.rs`) | status, snapshot, mutation epoch | refreshing, snapshot, error, bump epoch | mutation or second refresh during a load |
| Mutations (`mutation.rs`) | mutation lock | execute, invalidate three stores, bump epoch | game changed before the stores know; key read twice |
| Mouse picker (`scene_store.rs:1709-1930`, `picker.rs`) | snapshot, active worker, cancel flag | set target, start, stop, observe, Escape, fail, finish, reset | stop against a poll in flight |
| Workspace (`workspace_store.rs`, `kernel/workspace`, `kernel/metadata`) | lifecycle record, metadata | attach, metadata load, heartbeat, fault | operations that outlive their attachment |
| Runtime session, invoke, field set (`kernel/runtime`) | session slot | one call each | session replaced during a call |
| Scene page (`useSceneWorkspaceSync.ts`, `useSceneWorkspaceStore.ts`) | catalog, tasks, versions, loading flags | ask, accept or discard answers and events, reload | events out of order, epochs that diverge, refs behind the render |
| Mutation queue of the page (`useSceneMutationActions.ts`) | queue and promises in refs; counts, intents, overrides, tabs in page state | enqueue, replace, run, complete, fail | state that follows refs a render later, headers from before a mutation |
| Application store (`app/state`) | lifecycle, analysis, runtime fields | attach thunk, refresh, requests for fields | two thunks in flight |
| Studio flow engine (`executeStudioFlow.ts`, `graphInterpreter.ts`) | node states, snapshots, loop state | run, abort, rerun | two tokens at one node, answers after an abort |
| Studio document (`graphStore.ts`, `graphReducer.ts`, `StudioNodeLifecycle.ts`, `useStudioGraphPersistence.ts`) | document, undo history, id counters, drag, two storage slots | edits, undo, redo, drag, save, load, reload | effects that edit after an undo, ids given out again, an autosave that lags |
| Inspector, presentation, page of the picker, native access, windowing, C# metadata tool, generated contracts | - | - | see "Not modelled" |

What would make each part correct, and the line where it could go wrong, is the
list of hazards in `PROJECT.json`; a hazard without a property says why it
has none.

## Modules

### SceneChildrenTasks

The children store, its workers, and the three things that pull the store away
from under a worker: a mutation, a catalog refresh, a re-attach.

- `activeSession, tasks, cache, nextTaskId, mutationEpoch, resourceRevision` are
  the fields of `SceneChildrenStore`. Status `"none"` is an absent task.
- A worker carries the arguments its thread was given (id, epoch, key), its
  next offset, the page it has read and not yet handed over, and where it is
  in its loop. Reading a page and handing it over are two steps: the read is
  outside the lock.
- `listing` and `gameVersion` are the game: every mutation gives the listings it
  changes a new version, so that a page shows when it was read. A page is one
  item `[page, ver]`; its 24 entries always travel together.
- `attachPhase`, `refresh`, `mutation` are the progress of the commands that run
  across several critical sections. Start and cancel need `attachPhase = "idle"`,
  because attach and they run on the same thread; workers, mutation and refresh do not.
- `incarnation`, `invalidated`, `foreign` are history: which default store
  this is, up to which version a parent has been invalidated, and which parents
  were written to by a worker of an earlier incarnation.

| Action | Code |
|---|---|
| `StartInNewSession`, `StartFromCache`, `StartAndSpawn`, `Cancel` | `start_task` with `ensure_children_session` and the spawn in `tasks.rs:26-69`; `cancel` |
| `WorkerLoads` ... `WorkerRejected` | `run_scene_object_children_task`, with `apply_children`, `complete`, `fail` |
| `Mutation*` | `perform_scene_mutation`, with `invalidate_related` |
| `Refresh*` | `start_scene_refresh`, `complete_refresh` |
| `Attach*` | `attach_to_process`, with `finish_attach` and `fail_attach` |

A start that hands back the current task, a cancel of an earlier id and the
`get_*` commands change no state and are stutters. The addresses a mutation
reports are any set of listed parents and one loaded child, or none at all (a
scene load). An operation may fail at either side of the call into the game.

What is abstracted: the game changes only by mutations of this program, not by
itself (a listing the game changes alone is beyond what the store can know);
deleted children inside a page are not skipped; time stamps, counts and messages
are left out.

### ScenePicker

The picker store, the polling thread and the commands. `store` is
`SceneMousePickerStore`; the cancel flag is the field `cancelled` of the thread
that was given it (the store always holds the flag of its active worker). One
turn of the thread is three steps: the loop condition and the read of the target
window, the poll, the call of the store. The cursor is "outside", "inside over
nothing" or "inside over an object"; a minimised window and a cursor outside
look the same to the store.

### StudioFlow and StudioRun

`StudioFlow` is the engine that executes a flow (`executeStudioFlow.ts`,
`graphInterpreter.ts`) and the hook that owns its runs (`useStudioRuntimeState.ts`).
All of it runs on one event loop, so an action is the code between two awaits.

- `runs[r]` is the closure of the r-th call of `executeStudioFlow`: `disposed`,
  `pendingNodeCount`, the two flags, what the run completed with, the status of each
  snapshot (`"idle"` when absent), and the runtime state of loops as the number
  of iterations begun. `fired` is history.
- A token is one call of `runNode`: waiting for its timer (`queued`), in
  `prepareNodeExecution` (`prepare`), waiting for the step delay (`delay`) or executing
  (`exec`). It carries the providers still to be asked and the runtime state
  read at its preparation, which is what makes it stale. Its edge and visit name it.
- `current` is `executionCleanupRef`; `shown` holds `nodeStates` and `nodeSnapshots`.

| Action | Code |
|---|---|
| `ExecuteFlow` | `executeFlow`: cleanup of the run before, `onReset`, first `runNode` |
| `DocumentChanges`, `WorkspaceUnready`, `WorkspaceReady`, `Unmounts` | the effects of the hook |
| `TimerFires`, `Materializes`, `Prepared`, `PrepareFails` | the timer of `runNode` up to the step delay, `materializePassiveJsonNode` |
| `Executes`, `NotFound`, `Progresses`, `Succeeds`, `Fails`, `Aborts` | the step delay, `executePreparedNode` and what follows it |

`Cleaned` is the cleanup in its order: running snapshots are settled while the run
still counts, then it is disposed, then timers are cleared. A cleared timer does
not fire, so the `disposed` tests at the head of both timers are never true and have
no action. A call that is awaiting survives the cleanup and meets `disposed` later.

What is abstracted: ports are the names of control edges, inputs and outputs are
who needs which provider. A provider has no provider of its own, and providers
are asked in any order. The count of a loop is constant in a run. Expressions,
validation and node results are a choice of success, error or abort; a node may
end by any of them whether or not the signal has aborted.

`StudioRun` is the contract: `live` is the run the page holds, `outcome` what each run
completed with. A live run ends once by itself, or gives way to another run or to none,
and then it has not succeeded unless it had ended before.

`MCStudioFlow` gives the graphs: a trigger that forks into a call and a loop, the loop with a
branch in its body whose two ways both come back, and a node behind `done-out`, two nodes sharing
one provider and one of an unknown type; and two calls at once for the runs with a rerun.

### SceneMutationQueue and MutationCalls

The queue of mutations of the Scene page (`useSceneMutationActions.ts`) and what it shares
with the page (`useSceneWorkspaceStore.ts`, `useSceneWorkspaceState.ts`).

- `queue`, `current`, `phase`, `promise` are refs and change at once. `page` is React state:
  `updates` holds the dispatched updaters in order, and an action takes one at a time, so that
  a render may fall between any two. A setter called inside an updater comes after what is
  already dispatched.
- `game` is the active flag of each object in the game, `store` the header the backend
  holds, `reading` and `news` the workers that read headers and the events they emit, which
  Tauri delivers in order.
- `disturbed` is history: objects that are gone, that a failed call changed, or whose flag a call
  changed while a fresh header with the other flag was on its way (`Contradicted`).

| Action | Code |
|---|---|
| `Request` | `runMutation`: a waiting set-active of the object gives way (`Replaceable`) |
| `Executes`, `Answers`, `Completes`, `Fails` | `processMutationQueue` up to the answer, `afterSuccess`, and its end |
| `Apply*` | the updaters, named for what dispatched them |
| `OpenTab`, `CloseTab`, `SetActiveTab`, `Select` | the handlers of tabs and selection |
| `ReadHeader`, `HeaderArrives`, `SessionChanges` | `apply_header`, its listener, the effect of the process key |

The fifteen operations differ only in what follows them: those with the same follow-up
are one. What is only displayed (operation, task, error message) is left out. After a session
change the queue goes on, as in the code, and its completions count down what the reset has set
to zero. `MutationCalls` is what a caller of `runMutation` is promised, without queue or page: the calls
`asked`, the `answer` of each, and which is `running`. An override survives a fresh header that disagrees with it, because the code ends it
only by one that agrees; if the game toggles an object by itself, that is what the user sees.

### ScenePageSync

The catalog and the task stores against the page's copy of them (`useSceneWorkspaceSync.ts`):
who asks for what, what answers and events carry, and which of them the page accepts.

- `catalog` is `SceneState`, `store[k]` one task of kind k (header, components or children)
  with the counters of its store. The kinds differ in what a mutation invalidates.
- `attached`, `life.key` are the session of backend and page. A session has the name of its process
  (`workspace_store.rs:490`), so that a process attached again has the name it had, while the revisions of
  catalog and tasks start over.
- `refreshes`, `mutation` are commands between two critical sections: a refresh before its
  load, a mutation between its two reads of the session (`mutation.rs:277`, `:285`).
- `events` are in order; `asked` and `answers` are not. Calls of one kind that the backend has
  not handled are one.
- `page` is what React has rendered, `known` the page whose effects ran last (the refs of tasks and
  status), `version` the ref of the scene's version, `life` the lifecycle. `updates` is what the reducer has
  been sent and has not evaluated for good, on top of `base`; the last render has been through `done` of
  them. Messages arrive whether or not React has rendered the last one, and are checked against the refs.

| Action | Code |
|---|---|
| `Refresh*`, `Mutation*`, `Handles`, `WorkerFinishes` | `start_scene_refresh`, `perform_scene_mutation`, the start commands, the workers |
| `EventArrives`, `TaskAnswered`, `RefreshAnswered`, `CatalogAnswered` | the listeners and the answers, with `AcceptsScene`, `AcceptsTask`, `OlderTask` |
| `Renders` | a render of what is urgent. The states of tasks are dispatched in `startTransition`; such a render skips them, and they and all behind them are evaluated again later |
| `RendersAll` | a render of all that waits, when nothing is urgent |
| `EffectsRun` | the effects of a render, before the next one: the refs, and the loads of the selected object at a new epoch |
| `UserSelects`, `UserRefreshes` | selection and refresh button |
| `AttachBegins`, `AttachCompletes`, `AttachAnswered` | `attachToProcess` and the command; the page leaves its session and takes the next |
| `LifecycleRefreshes`, `SnapshotLoads` | the lifecycle after the attach or on a return to the window, which makes the capability for components known; the end of the first metadata load, which hydrates the scene |

A change of the lifecycle or of the selection is rendered at once, with its effects (`RendersAtOnce`).
What loads the resources are the effects on selection, capability and epoch (`Wanted`), never the
snapshot: it asks for the catalog.

The version ref is written by each updater of the scene whenever React evaluates it, by an effect when the
version of the scene has changed, and by a reset of the page at once. It can be behind what is dispatched
(nothing is rendered yet) and ahead of it (an updater of the session before the reset is evaluated after it). Two
kinds of history in `count` say when that mattered:

- `misjudged`: the ref judged a state of the catalog otherwise than the scene to come would have, and
  the catalog as it is has not been accepted since. Example: the answer to a refresh (revision 2) and an
  answer of the catalog read at revision 1 arrive before a render. Both are accepted, and the page is
  left "refreshing", where `refreshSceneWorkspace` returns early.
- `mixed`: the page took its session while states of the catalog of an earlier session of that
  name were on their way. Such a state may carry a higher revision than any the new catalog has yet,
  after which the page turns its states down.

Either lasts until the catalog moves on or the page takes a session again. No document of the repository
promises more, so the two are exceptions of `QuietCatalog` and `SceneSettles` and not findings. Both are
violated without either. For the states of tasks nothing of that kind is claimed: they wait as
transitions, so that an older answer passes `OlderTask` while a newer one waits and is shown for good.

What is abstracted: one object is selected and the page is visible. Workers always finish and none outlives
its store (the others are in `SceneChildrenTasks`), attaches do not overlap or fail (`WorkspaceLifecycle`), and a
load that fails is not modelled: in the code its error never clears the loading flag. The reload that the page
itself does after a create, delete or reparent is `UserRefreshes`.

### StudioDocument and EditHistory

The document of the Studio page with its history, drags, storage and reconciliation.

- `document`, `past`, `future`, `counters`, `drag` are the graph store and `NodeWrapper`;
  `saved`, `autosaved` the two slots of the browser's storage, `snapshot` what the toolbar
  compares with, `timer` the autosave that is due.
- Every node is a For Loop, the node whose data the page keeps in step with the graph: its
  count follows the edge at its count-in (`Wanted`). Ids are numbers, and new ones are above
  those of the document, so that sets lose nothing of the arrays.
- The user acts when nothing is left to reconcile (React runs effects before the next
  event); keys work during a drag, so that an undo or a delete may meet one. A drag whose node
  is unmounted ends without being recorded; a delete during a drag records the history
  out of order, as the code does.

| Action | Code |
|---|---|
| `AddNode`, `EditNode`, `DeleteNodes`, `DuplicateNodes`, `ConnectPorts`, `DisconnectEdge` | `graphStore.ts` with `graphReducer.ts`, `connectionPolicy.ts` |
| `Undo`, `Redo` | `graphStore.ts:293-313`, with `syncCountersFromDocument` |
| `BeginDrag`, `Move`, `Drop` | a position session |
| `SaveWorkflow`, `LoadSavedWorkflow`, `ClearWorkflow`, `Reload`, `Autosave` | `useStudioGraphPersistence.ts` and its two slots |
| `Reconcile` | `useStudioNodeLifecycle`: one edit with a history entry per node out of step |

`EditHistory` is what undo and redo promise, without store, drags or storage: one line of documents,
`past \o <<document>> \o future` in the store, and a place on it. Undo and redo move the place and leave
the line; an edit cuts it behind the place and goes on; a drop records what was shown when the drag
began; a load, a clear and a reload begin a new line.

### WorkspaceLifecycle

Attaching and loading metadata: the backend's workspace and the attach thunk of the front end.

- `lifecycle`, `metadata` are `WorkspaceState`, `session` the slot of `RuntimeKernelState`. A game
  stands for its process and its metadata source.
- `attaching` is where `attach_to_process` is on the main thread; `calls` are the synchronous
  commands it will take in order, `answers` what they returned. `loads` and `requests` run on the
  blocking pool, every lock of theirs a step. The attached check and the look into the
  metadata cache are one step.
- `page`, `analysis`, `loading`, `overlay`, `asking` are the store; `thunks` the calls of
  `attachToProcess` with what each awaits.
- `crossed` is history: a process was selected while an attach was under way.

| Action | Code |
|---|---|
| `AttachBegins` ... `AttachCompletes`, `AttachFails`, `SessionOpens`, `SessionFails` | `application/workspace.rs:22-58`, step by step |
| `LoadBegins` ... `LoadFails` | `run_snapshot_load` with `load_all_metadata` |
| `RequestStarts`, `RequestSucceeds`, `RequestFails` | `execute_runtime_operation` with its heartbeat or fault |
| `SelectProcess`, `AttachAnswered`, `RefreshAnswered`, `LoadAnswered`, `LoadSettles` | the thunk, await by await, with the reducers that answer it |
| `Refresh`, `FocusAnswered`, `RequestFields`, `FieldsAnswered` | the refresh on focus, `ensureRuntimeOverlayLoaded` |

The revision of the lifecycle (nothing reads it), messages and capabilities are left out: the
games have a runtime the program knows. What the model showed of the code, without a document
that says otherwise: `begin_attach` removes the process before `attach_to_process` compares it, so
that `preserve_metadata` (`session.rs:45`) is never true and metadata is read again on every attach;
a load that fails leaves the backend attached while the page shows an error without a process and
refuses refreshes on focus; a heartbeat of an operation of the earlier attachment marks the next one
connected; a late answer for runtime fields is shown in the next session.

## Runs

| Run | Shows | Bounds | States |
|---|---|---|---|
| `children` | one session: starts, cancels, restarts, a mutation, loads | 1 parent, 2 pages, 2 tasks, 1 mutation, cancels below revision 4 | 345,900 |
| `children_resets` | freshness when refresh and attach reset the store under running workers | the same, 1 reset of a store in use, no cancel | 1.6 million |
| `children_stale_worker` | violated: a worker that outlived a reset is heard | as `children_resets` | - |
| `picker` | all properties of the picker | 1 window (and none), 3 objects with a cap of 2 recent picks, 1 reset, commands below revision 4, observations below 5 | 270,000 |
| `studio` | all properties of one run of the engine | 7 nodes, 8 edges, 1 provider, a loop of 2, 1 run | 25,351 |
| `studio_reruns` | reruns, resets, unmount; refinement of `StudioRun` and its liveness | 3 nodes, 1 shared provider, 2 runs | 392,284 |
| `mutation_queue` | the queue against every render, click, header and a session change; refinement of `MutationCalls` and its liveness | 2 objects, 3 requests of 3 kinds, 3 actions, 2 updaters waiting, 4 header events | 0.93 million |
| `page_sync` | the page against catalog and components task, renders, transitions and effects apart | 1 session name, an attach and one more start (perhaps a second attach), 3 messages in transit, 2 updates waiting when one arrives | 1.7 million |
| `page_tasks` | violated: a header that is ready is shown | 1 session name, 2 starts, 2 messages, 1 update waiting | - |
| `document` | the document through every edit, undo, drag, save and reload; refinement of `EditHistory` | 3 nodes, 6 actions, history of 2 | 1.5 million |
| `document_undo` | violated: an undo reverts | 2 nodes, 4 actions | - |
| `workspace` | attach, load and requests of two games, crossing or not | 2 games, 2 attaches, 2 requests, 1 refresh | 732,195 |

The bounds are in the guards and named in the modules (`MaxPages`, `MaxTaskId`,
`MaxMutations`, `MaxResets`, `MaxRevision`, `MaxObserved`). They are enough for the
cases that matter: parents interact only through the counters, so one parent
with a second task has the old and the new worker of one list; two pages give
a first, a middle and a last answer; one mutation splits every read into before
and after; one reset gives a worker of an earlier incarnation, its id taken
by a task of the new one. Two windows, and two sessions, were checked for the
picker too and add no behaviour. Two runs of a flow are an old one and the current
one; the hook forgets every earlier one. The graph of `studio` has each kind of node, and
a loop of two has a first, a middle and a last visit. Three requests put one call
in process, one in the queue and one that replaces it, or one for another object between; with two
objects a tab can be closed before the one in front. Four header events in flight are what it takes for
an older fresh header that agrees with the override by chance to end it early, so that the stale headers
behind it are shown; the objects this may happen to are excepted from `ShowsGame`. The second start of
`page_sync` is a refresh, a mutation, a selection, a return to the window, or an attach to the same process with all of the
earlier attachment still on its way; three messages and two updates are the least with which a state is misjudged and the
page stays "refreshing", and components is the kind that waits for the capability. The safety properties were also
checked with headers, three starts and two messages (15.3 million states), and all of them with
children and two session names (725,590 states). Three nodes
are an edge, its source's copy and a target with two candidates; six actions reach an undo of a
duplicate and a new edit with its ids given out again. Two attaches are an old one and the next, two
requests one of each. The runs with `CHECK_DEADLOCK FALSE` are those where the program may rest once the
bounds are used up.

Properties of `SceneChildrenTasks` (`FreshIsCurrent` in `children_resets`, the others in `children`):

- `PagesContiguous`: a list has no gap and no repeated page, whatever cancels,
  restarts and mutations come between the pages.
- `FreshIsCurrent`: what is labelled fresh was read after the last completed
  mutation that named the parent; neither a page in flight nor the cache brings
  an older list back under the label.
- `LoadingHasWorker`, `LoadingSettles`: a loading task has a live worker that will
  be heard, and leaves that status. `start_task` hands a loading task back without
  spawning, so one without a worker would load for ever.
- `UpdatesAdvance`: every change of a task is newer in the order in which the page
  discards updates (`isOlderSceneTask`), so no update of the store is lost there.
- `StaleWorkersRejected` (violated): no worker of an earlier session or
  incarnation is heard.

Properties of `ScenePicker`: `RunningHasWorker` (running means an active worker
whose thread exists), `StoppedIsUnheard` (a thread told to stop changes nothing
within its incarnation), `IdleShowsNothing` (a late observation never reappears
on a stopped picker), `RecentDistinct` (recent picks: distinct, newest first,
within the cap), `WindowlessEnds` (a picker without a window does not stay
armed).

Properties of `StudioFlow`:

- `PendingCountsCalls`: a run that was not cancelled counts exactly its calls under
  way, through forks, loops and failures; `Math.max(0, ...)` never hides a second settlement.
- `DoneMeansQuiet`: a run has its outcome exactly when it was cancelled or no call
  is left, never between two nodes.
- `SuccessIsClean`: a run that says success has no node that failed or was aborted,
  whichever node was the last.
- `LoopRunsFixedCount`: a loop entered once takes `loop-out` no more than its count of times and
  `done-out` once at most, after all of them; if every way through the body leads back, a run that
  succeeds has left by `done-out`. It is claimed for each `Round` of the graph: a set of nodes around
  the loop that is entered and left through the loop only and in which no output forks within.
  Where a body forks and comes back both ways, two calls read and restart one shared index.
- `RunningIsBusy`: nothing says running unless a call of that run is at that node.
- `PageShowsCurrentRun`: the snapshots of the page are those of the current run,
  although calls of cancelled runs still get their answers.
- `ContractHolds`: every behaviour is one of `StudioRun`, with its liveness: the
  live run has an outcome in the end.

Snapshots are guarded by `disposed`, node states are not (`executeStudioFlow.ts:333`): a node
that ends after its run was cancelled puts its state on the page. That is why
`PageShowsCurrentRun` speaks of snapshots only.

Properties of `SceneMutationQueue`:

- `PromisesAccounted`: a promise is open exactly while its mutation waits or is processed, and is answered
  with null only if a later call for the flag of the same object took its place.
- `CallsHold`: every behaviour is one of `MutationCalls`. Calls run one at a time, and one overtakes an older
  one only in the place of a call that gave way to it (`MayPrecede`); every call is answered, whatever
  fails or happens to the session. It takes four calls for one to overtake: the run has three, and the same
  was checked for four calls with one object.
- `LatestFlagWaits`: of the flags asked for, the one that waits is the last.
- `PendingCounted`: once React has rendered, counts and loading flag are those of the work that is
  left; after a session change they are never higher.
- `IntentIsLatest`: what the toggle announces is the latest call still outstanding, running only
  when that call runs.
- `ShowsGame`: with no call outstanding the inspector shows the flag the object has in the
  game, although headers from before the mutation arrive after it. Excepted are objects that are gone,
  that a call changed before it failed, and whose flag a call changed while a fresh header with the other
  flag was on its way: toggled back and forth, such a header can end the last override before the
  stale ones behind it have arrived, since what ends an override compares the flag and whether the header
  is fresh, and nothing else. No doc or test speaks of that case.
- `TabsConsistent`: no tab twice, one in front while there are tabs.

Properties of `ScenePageSync`:

- `SessionOnly`: scene and resources on the page are of one session, and not of one the page has left, unless a
  reset waits to be rendered.
- `QuietCatalog`: when nothing is on its way the page shows the catalog the backend has, or that its refresh
  failed: no event is lost between a load and its listener, whatever waits to be rendered. Excepted are
  `misjudged` and `mixed`.
- `VersionAdvances`: within a session the page never goes back to an older catalog.
- `SceneSettles`: a refresh does not stay on the page for ever, whichever of two ends first or fails, and once the
  snapshot is loaded the scene comes or its load has failed; with the same exceptions.
- `ReadyShown` (violated): a task that is ready is shown.

Properties of `StudioDocument`:

- `DocumentsSound`: every document a user can come back to has unique ids, edges between its own
  nodes, one edge at most at a port that takes one; and the next ids are new to the document, although
  undo and load set the counters back.
- `HistoryHolds`: every behaviour of the store is one of `EditHistory`, where an undo is `Undone` and a redo
  `Redone`: neither loses a document. The history has a limit, and a redo records with the same function as an
  edit, which drops the oldest entry at the limit; it never does so in a redo.
- `SavedIsSaved`: "saved" in the toolbar means that a load brings this document back.
- `AutosaveCatchesUp`: reconciliation ends, and the autosave is the document in the end.
- `UndoReverts` (violated): after an undo and what follows it the document is not the one undone.

Properties of `WorkspaceLifecycle`:

- `SessionOfProcess`: between two attaches the runtime session is that of the attached process or there
  is none, whatever loads and operations of an earlier attachment still do.
- `SnapshotOfProcess`: a snapshot the lifecycle speaks of is the metadata of the attached
  process; `PageAgrees`: with no attach under way page and backend agree on process and analysis. Both
  except behaviours in which a process was selected during an attach: nothing in the code orders two
  thunks, and a load of the first game that completes late makes the second ready with its metadata.
- `LoadingIsAsked`: a flag that refuses a second call is set only while a call is under way that clears it.
- `AttachSettles`: an attach ends.

### Fairness

`FairSpec` of both modules gives weak fairness to each worker thread, named by
its incarnation and id: the blocking pool runs a spawned closure to its end, and
a call into the game returns or fails. Nothing is assumed of the user, of
mutations, refreshes or attaches. `FairSpec` of `StudioFlow` gives weak fairness to each
run: a timer that was not cleared fires, and what a node or a provider awaits is answered
or rejected. Reporting progress is not among the fair steps. Weak fairness is enough
because a call under way stays enabled until it steps, whatever the hook does.

`SceneMutationQueue`: a backend call answers or rejects, React renders what was dispatched, events
arrive. `ScenePageSync`: as long as something is on its way, some of it gets on (`Follows`: the backend,
the workers, messages, renders and effects); the user, the begin of an attach and mutations are not fair. `StudioDocument`: effects run and the autosave timer
fires. `WorkspaceLifecycle`: the main thread comes to every command, answers arrive, and what
runs on the blocking pool returns; the user is not fair.

### What disagrees with the code

Three statements of the repository do not hold, each shown by a run that TLC must find violated.

- `children_stale_worker`: the test `scene_children_rejects_stale_session_updates` (`state/mod.rs`)
  claims more than the guard gives. `reset()` restarts ids and epochs from zero, so that a worker of the
  earlier attachment of the same process is taken for the new one. The ids of the picker restart in
  the same way.
- `page_tasks`: a header that becomes ready is to be shown, but the page turns down every task whose
  epoch is below the catalog's, and the two count differently: a refresh resets the task stores to epoch 0
  and leaves the catalog its epoch, and a store without a session is not counted up. After a mutation
  and a refresh every later answer is turned down and the loading flag stays.
- `document_undo`: "Revert the most recent workflow edit." fails for an edit that the page followed
  up itself: the effect repeats its edit after the undo and empties the redo list.

## Proofs

`SceneChildrenTasks_proofs` proves, for every set of parents and sessions and
every value of the bounds (assumptions: the bounds are naturals and `NoSession` is
not a session):

- `TypeCorrect`: the types.
- `LoadingAlwaysHasWorker`: `LoadingHasWorker`, inductive given the types.
- `CountersCorrect`: ids, epochs and revisions never pass the counters they come
  from, and a store without a key is empty. It is what makes a new id or epoch
  differ from every earlier one.
- `UpdatesAlwaysAdvance`: the action property `UpdatesAdvance`, from the counters.
- `ContiguityCorrect`: `ContiguityInv`, the strengthening behind `PagesContiguous`.
  The list alone is not inductive: a page is appended at the place the worker
  believes to be the end. The invariant adds that a task id has one worker
  (`UniqueWorkers`), that a page is the one at its worker's offset
  (`PageAtOffset`), and that a worker that will be heard continues where the
  list ends (`OffsetAtEnd`).
- `PagesAlwaysContiguous`: `PagesContiguous`.

- `FreshnessCorrect`: `FreshnessInv`, the strengthening behind `FreshIsCurrent`. A
  list becomes fresh when its last page arrives or when the cache is copied, so
  the invariant speaks of what is not yet labelled: the page a worker that will be
  heard holds and the list it has filled so far are current (`HeardIsCurrent`), so
  is a cached list (`CacheIsCurrent`), and a page read now is, because the game's
  listing is never older than what was invalidated (`ListingIsNewest`). The step
  that raises `invalidated` gives the task a new epoch, which no worker has
  (`CountersBound`), and drops the cache entry.
- `FreshAlwaysCurrent`: `FreshIsCurrent`.

`ScenePicker_proofs` (assumption: `PickerAssumption`):

- `PickerCorrect`: `PickerInv`, inductive with the fact that records keep their
  fields (`Shaped`). `ThreadsOfStore` is what makes it so: threads of this
  incarnation have the session of the store and ids it gave out, and ids start
  at 1, so no thread is heard while the active id is 0. Each step is shown to be one
  of three: the picker goes on, ends, or is replaced (`GoingOn`, `Ending`, `Renewing`).
- `RunningAlwaysHasWorker`, `StoppedAlwaysUnheard`, `IdleAlwaysDark`: three
  properties of the runs.
- `RecentAlwaysDistinct`: `RecentDistinct`, from `RecentInv`. The list without the object just seen is
  defined by a recursive function (`Without`); that it is distinct and no longer than before is an
  induction over the list.

`StudioFlow_proofs` (assumption: `GraphAssumption`, a finite graph whose edges join its
nodes) proves for every graph and every number of runs:

- `FlowCorrect`: `FlowInv`, inductive. `PendingCountsCalls` alone is not: that the count of a
  run grows by one per edge needs that new calls are new elements of the set of
  tokens, hence `CallsNamed` (a call has a name of its own, and its visit is not above what its
  edge has fired); that a run not counting any call has its outcome needs that
  only the current run is not disposed (`Settlement`), and a new run needs a
  fresh closure (`Unstarted`). Two lemmas carry the steps of a call: one for a call that goes
  on (`GoesOn`), one for a call that settles (`ReportsKeeps`); `SucceedsKeeps` counts
  the calls a node starts.
- `FlowTypeCorrect`, `PendingAlwaysCounts`, `DoneAlwaysQuiet`: `TypeOK`,
  `PendingCountsCalls`, `DoneMeansQuiet`.
- `FlowImplementsRun`: the refinement of `ContractSafety` under the mapping
  `live <- current`, `outcome[r] <- runs[r].done`; each step of a call ends the live run or
  stutters (`StepOutcome`), each step of the hook lets it give way (`CleanupGivesWay`).
- `PageCorrect`: `ShownInv`, inductive given `FlowInv`. A snapshot is written by the step of one call and says
  something of that call's node only; a failure it tells of is one of the flags the outcome is made of
  (`FlagsTold`), and the page lives with the current run only (`PageLives`).
- `RunningAlwaysBusy`, `PageAlwaysShowsCurrentRun`, `SuccessAlwaysClean`: `RunningIsBusy`,
  `PageShowsCurrentRun`, `SuccessIsClean`.
- `LoopsCorrect`: `LoopInv`, inductive given `FlowInv`. As long as the run is not disposed a loop either goes round
  (`GoesRound`): one call is in the round at most, the index is the number of times `loop-out` was taken,
  and a call on its way back decides by it; or is over (`IsOver`) and its round empty. `Counts` is what is
  left of this once the run is disposed. A call moves along one edge at a time: within the round,
  into it, out of it or elsewhere, with a lemma each.
- `LoopsAlwaysCount`: `LoopRunsFixedCount`, for every graph and each of its rounds.

`StudioDocument_proofs` (assumption: `ConstantsAssumption`, the bounds are numbers and 1 is a loop
count) proves for every history limit, every number of nodes and every set of counts and offsets:

- `TypeCorrect` (`TypeOK`), `DocumentsAlwaysSound`, `SavedAlwaysSaved`: the types, `DocumentsSound`,
  `SavedIsSaved`.
- All from `IInv`, inductive. `DocumentsSound` alone is not: an undo brings an old document back and
  derives new counters from it, so every kept document must be `Good` (typed, finite and sound),
  because the highest id of a finite document exists. `snapshot = saved` is the reason why "saved" is true.
  One lemma per operation of the reducer (`WithoutGood`, `WithEdgeGood`, `WithCopiesGood`, ...) says
  that it leaves a good document good; `WithCopiesGood` needs that the renamings of a duplicate are
  injective and above every id. Then one lemma per action.
- `HistoryAlwaysHolds`: `HistoryHolds`, the refinement of `EditHistory`. It needs `Room`, inductive given `IInv`: what can be
  undone and redone together stays within the limit, so that a redo finds room for what it records. The
  lemmas say where on the line each entry of a sequence that was pushed to, cut or moved is
  (`PushedFacts`, `RecentFacts`, `ContinuedFacts`); `PushedContinues` joins them: pushing one document several
  times onto a limited history leaves what the contract keeps of the whole line. Every action is then
  one of seven steps of the line (`ActionsOnLine`).

`WorkspaceLifecycle_proofs` (assumption: `ConstantsAssumption`) proves for every set of games and
every number of attaches, requests and refreshes:

- `WorkspaceCorrect`: `WorkspaceInv`, inductive, in two parts. The first holds whatever the user does: an
  attach runs alone on the main thread, and the lifecycle has no process from its begin until
  the session of the earlier one is gone (`AttachInOrder`); that is what keeps a late load from
  giving it one. The second, for behaviours that do not cross, follows the only thunk: it is in one place
  of the queues (`OneAtATime`), and its load reads the process that is attached, which nothing else changes
  meanwhile (`LoadsAttached`).
- `WorkspaceTypeCorrect`, `SessionAlwaysOfProcess`, `SnapshotAlwaysOfProcess`, `LoadingAlwaysAsked`: the
  types and the three properties of the run.
- `PageAlwaysAgrees`: `PageAgrees`, from `AgreeInv`, inductive given `WorkspaceInv` as long as nothing
  crosses. Answers and calls are one sequence, `Pipe`, in which the main thread moves a call and the
  page hears the first: a thunk owns at most one call there (`PipeInv`), an answer that no attach is called
  after still tells the process there is (`AnswersInv`), and how far the thunk has come says what both
  sides agree on (`StageInv`). The point that is easy to get wrong is the refresh on focus: its answer may be
  heard in the middle of an attach. It shows the earlier process then, but cannot do so after a load, because
  the loading flag refuses it from the refresh of the thunk to the end of the load.

`SceneMutationQueue_proofs` (assumption: `ConstantsAssumption`) proves for every set of objects and
operations and every number of calls:

- `QueueCorrect`: `QueueInv`, inductive: the types of the queue and its promises, `Loop` (the loop stops
  only when nothing waits, so a call that finds it stopped may start it), and both properties below, which need
  each other. `runMutation` replaces the last waiting call for the object; that a single one waits
  (`OneGivesWay`) follows from `LatestFlagWaits`, and without it a call would be left waiting
  behind the flag that replaced another.
- `PromisesAlwaysAccounted`, `LatestAlwaysWaits`: `PromisesAccounted`, `LatestFlagWaits`.
- `OrderCorrect`: `InOrder`, inductive given `QueueInv`: every waiting call may precede those behind it. A call that
  takes a place inherits the reason of the one that had it, which has just given way (`RequestInOrder`).
- `QueueImplementsCalls`: the refinement of `CallsSafety` under the mapping `asked <- requests`,
  `answer <- promise`, `running <- current`. The contract has no queue: that the head is a call that may run next
  is `InOrder`, and that one call gives way is `OneGivesWay`.
- `PageCorrect`, `TabsAlwaysConsistent`: the types, and `TabsConsistent` from `TabsInv`. The two need each
  other: closing a tab selects the one next to it, which is there only if the index in front is one of a tab.
- `IntentAlwaysLatest`: `IntentIsLatest`, from `IntentsInv`. The toggle is behind the queue by the updaters
  that wait, so the invariant speaks of the last one of them that touches the intent of an object: what it
  will leave is what the queue says now. The updater of a completion reads the queue when it is evaluated,
  and `LatestFlagWaits` makes what it finds there the latest call.
- `PendingAlwaysCounted`: `PendingCounted`, from `CountsInv`: there is a sequence of counts, one per
  waiting updater, that leads from what is shown to the work that is left, or to at least that much less once a
  session change has set the counts to zero. The work is a set, and its size changes by one with each
  call that starts waiting, gives way or ends (`FiniteSetTheorems`).
- `GameAlwaysShown`: `ShowsGame`, from `GameInv`, for any number of objects, calls, updaters and headers on
  their way. `Kept`: no header is lost and nothing forgets the object. `Coming`: the first fresh
  header in `news` and all behind it say the flag of the game, and so does the backend then. `AwaitsAck`: the
  game has changed and the acknowledgement is not dispatched; the call asked for the flag the game has.
  Otherwise `Tells`: the same for the headers in the updaters behind the last acknowledgement, which says the
  flag of the game; with none waiting the page has the right override, or everything agrees already. The attempt to prove the property
  as it stood failed at the step that ends an override: TLC found the counterexample with four headers in
  flight, which the bound of one had hidden, and the exception for contradicted headers is the result.

`ScenePageSync_proofs` (assumption: `ConstantsAssumption`; any set of kinds and of session names, any number
of starts, of messages in transit and of updates that wait) follows `Seen`, the page once React has evaluated what
is dispatched. A render does not change it: the updates it takes for good are urgent and are evaluated
first again, so that what is left goes on where it did (`CommitsSees`), and the scene is the same whether or not
transitions are skipped (`SeenIs`). A dispatch changes it by what is dispatched (`DispatchSees`). Both are
inductions over the updates (`InductionLemmas`).

- `TypeCorrect`: the types. Each step of the page is one of four (`PageStep`): a dispatch of what fits the
  session, a render with marks of loading behind it, a render of all, or a reset.
- `PageOfSession`, `VersionNeverBack`: `SessionOnly` from `SessionInv`, `VersionAdvances` from `VersionInv`. What is
  dispatched is of the page's session because the checks compare with it and a change of session dispatches a
  reset first. The version ref is never behind what is rendered, nor is the scene to come; each evaluation
  of an updater writes its own version, so the ref after a render is not behind it either (`WrittenAhead`).
- `CatalogShown`: `QuietCatalog`, from `CatalogInv`. `FlightInv`: what is on its way is the catalog or older;
  `SeenInv`: so is the scene to come; `KnownInv`: once the snapshot is loaded the catalog is asked for, on its way, about to be
  refreshed, or the scene to come, unless it was misjudged. Every step of the backend tells of what it
  does to the catalog (`Tells`), and a message that is judged is treated in one lemma (`MessageCatalog`):
  the ref and the scene to come agree about it, so an older one leaves the scene alone, or the state counts as
  misjudged. TLC checked `CatalogInv` on the bounds of `page_sync` before the proof.

Every invariant proof has one lemma per action or group of actions, a lemma per record operator that
says what it returns and leaves alone, and a theorem that puts them together. `InductionLemmas` states
induction over the naturals for a set instead of a predicate, from the library's theorem on minimal elements:
a proof about a recursive function can cite it.

Only model-checked: liveness (`LoadingSettles`, `WindowlessEnds`, that of `ContractHolds` and
`CallsHold`, `SceneSettles`, `AutosaveCatchesUp`, `AttachSettles`), which is beyond TLAPS.

## Not modelled

- The merged scene graph of the page (`loadedSceneNodes.ts`, `sceneWorkspaceModel.ts`): folds over
  loaded nodes without an order of events to get wrong. `visitCatalogNode` recurses without a set of
  visited nodes and relies on the game's hierarchy having no cycle.
- The task stores of headers and components beyond one task: pages of components, their cache and the
  second worker for a header that is loading (`tasks.rs:109`). Paging and staleness are modelled
  for children, whose store has the same shape.
- The page side of the picker (`useSceneMousePickerState.ts`) and the order in which its events are emitted.
- Port types, document validation on load, storage that is full, draft connections and drags
  of several nodes in the studio.
- Invocation, field setting and instance fields: one request and response into the game each.
- Native memory access, window handling and the C# metadata tool: outside of the program's own
  control; their results are choices of the models.
- The inspector, presentation and generated contracts: no state whose order matters. They are
  most of the repository's lines.

## Plan

Done: the modules above, each with its proofs.

Next, in this order: the components store with its pages and
cache; and the page of the picker over `ScenePicker`, with events in the order of their emission.
