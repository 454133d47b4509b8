------------------------- MODULE SceneChildrenTasks -------------------------
(***************************************************************************)
(* The store of scene children tasks (state/scene_store.rs,                *)
(* SceneChildrenState), the worker threads that fill it page by page       *)
(* (kernel/scene/tasks.rs), and the three things that pull the store away  *)
(* from under a running worker: a scene mutation, a catalog refresh and a  *)
(* re-attach.                                                              *)
(*                                                                         *)
(* Every method of the store runs under one mutex and is one action.       *)
(* Commands that Tauri runs on the main thread (start, cancel, attach) are *)
(* serialised by `attachPhase'; workers, the mutation and the refresh run  *)
(* on the blocking pool and interleave with everything.                    *)
(*                                                                         *)
(* A page of children is one item [page, ver]: its position in the child   *)
(* list of the game object and the version of that list it was read at.    *)
(***************************************************************************)
EXTENDS Naturals, Sequences, FiniteSets

CONSTANTS
    Parents,        \* object addresses whose children are listed
    Sessions,       \* runtime session keys, "pid:name:runtime"
    NoSession,      \* the key None
    MaxPages,       \* bound: pages of children per object
    MaxTaskId,      \* bound: tasks started per incarnation of the store
    MaxMutations,   \* bound: scene mutations
    MaxResets,      \* bound: resets of the store
    MaxRevision     \* bound: a cancel is issued below this revision

ASSUME SessionAssumption == NoSession \notin Sessions
ASSUME BoundAssumption ==
    /\ MaxPages \in Nat /\ MaxTaskId \in Nat
    /\ MaxMutations \in Nat /\ MaxResets \in Nat /\ MaxRevision \in Nat

VARIABLES
    \* SceneChildrenStore, guarded by one mutex
    activeSession, tasks, cache, nextTaskId, mutationEpoch, resourceRevision,
    \* threads
    workers,        \* running run_scene_object_children_task threads
    attached,       \* session key of the workspace lifecycle
    attachPhase,    \* progress of the attach command on the main thread
    catalogSession, \* session key of the catalog store (SceneState)
    refresh,        \* the start_scene_refresh command in flight
    mutation,       \* the mutation holding the scene mutation lock
    \* the game
    listing,        \* child listing of every object: [count, ver]
    gameVersion,    \* number of mutations the game has executed
    \* history
    incarnation,    \* how many times the store went back to its default
    invalidated,    \* newest version an invalidation of the parent covers
    foreign         \* parents written to by a worker of an earlier incarnation

store   == <<activeSession, tasks, cache, nextTaskId, mutationEpoch, resourceRevision>>
threads == <<workers, attached, attachPhase, catalogSession, refresh, mutation>>
game    == <<listing, gameVersion>>
history == <<incarnation, invalidated, foreign>>
vars    == <<store, threads, game, history>>

-----------------------------------------------------------------------------
Keys      == Sessions \cup {NoSession}
Item      == [page : Nat, ver : Nat]
Children  == Seq(Item)
Status    == {"none", "loading", "ready", "error", "cancelled"}
Freshness == {"empty", "refreshing", "fresh", "stale", "error"}

(* RuntimeSceneObjectChildrenTaskState; status "none" is an absent entry   *)
(* of tasks_by_parent.                                                     *)
Task == [id : Nat, epoch : Nat, rev : Nat, session : Keys, status : Status,
         freshness : Freshness, isStale : BOOLEAN, children : Children]
NoTask == [id |-> 0, epoch |-> 0, rev |-> 0, session |-> NoSession,
           status |-> "none", freshness |-> "empty", isStale |-> FALSE,
           children |-> <<>>]

(* SceneChildrenCacheEntry; present is FALSE for an absent entry.          *)
Entry   == [present : BOOLEAN, epoch : Nat, children : Children]
NoEntry == [present |-> FALSE, epoch |-> 0, children |-> <<>>]

(* The arguments a worker thread was spawned with, the offset it reads     *)
(* next, and the page it has read but not yet handed to the store.         *)
Page   == [items : Children, more : BOOLEAN]
NoPage == [items |-> <<>>, more |-> FALSE]
Worker == [parent : Parents, id : Nat, epoch : Nat, session : Keys,
           inc : Nat, pc : {"load", "apply", "fail", "complete"},
           offset : Nat, page : Page]

(* A mutation reports the addresses it touched: `listed' are objects whose *)
(* own listing it names, `child' one entry of the listing of `of' (or of   *)
(* nothing). A mutation that reports no address is a scene load.           *)
Child      == [of : SUBSET Parents, page : Nat]
NoChild    == [of |-> {}, page |-> 0]
Mutation   == [pc : {"none", "checked", "executed", "keyed"}, session : Keys,
               listed : SUBSET Parents, child : Child]
NoMutation == [pc |-> "none", session |-> NoSession, listed |-> {}, child |-> NoChild]
NoRefresh  == [pc |-> "none", session |-> NoSession]

TypeOK ==
    /\ activeSession \in Keys
    /\ tasks \in [Parents -> Task]
    /\ cache \in [Parents -> Entry]
    /\ nextTaskId \in Nat /\ mutationEpoch \in Nat /\ resourceRevision \in Nat
    /\ workers \subseteq Worker
    /\ attached \in Keys
    /\ attachPhase \in {"idle", "begun", "reset"}
    /\ catalogSession \in Keys
    /\ refresh \in [pc : {"none", "loading", "reset"}, session : Keys]
    /\ mutation \in Mutation
    /\ listing \in [Parents -> [count : Nat, ver : Nat]]
    /\ gameVersion \in Nat
    /\ incarnation \in Nat
    /\ invalidated \in [Parents -> Nat]
    /\ foreign \subseteq Parents

Init ==
    /\ activeSession = NoSession
    /\ tasks = [p \in Parents |-> NoTask]
    /\ cache = [p \in Parents |-> NoEntry]
    /\ nextTaskId = 0 /\ mutationEpoch = 0 /\ resourceRevision = 0
    /\ workers = {}
    /\ attached = NoSession /\ attachPhase = "idle"
    /\ catalogSession = NoSession
    /\ refresh = NoRefresh
    /\ mutation = NoMutation
    /\ listing \in [Parents -> [count : 0..MaxPages, ver : {0}]]
    /\ gameVersion = 0
    /\ incarnation = 0
    /\ invalidated = [p \in Parents |-> 0]
    /\ foreign = {}

-----------------------------------------------------------------------------
(* The store goes back to SceneChildrenStore::default(). One without a key *)
(* never held a task, so replacing it does not begin a new incarnation.    *)
MayReset == activeSession = NoSession \/ incarnation < MaxResets
NextIncarnation == IF activeSession = NoSession THEN incarnation ELSE incarnation + 1

ResetStore ==
    /\ MayReset
    /\ activeSession' = NoSession
    /\ tasks' = [p \in Parents |-> NoTask]
    /\ cache' = [p \in Parents |-> NoEntry]
    /\ nextTaskId' = 0 /\ mutationEpoch' = 0 /\ resourceRevision' = 0
    /\ incarnation' = NextIncarnation
    /\ foreign' = {}

HasRetained(t) == t.children # <<>>
(* Mutant of Retained: the snapshot kind is stored as the freshness.       *)
RetainedKind(t) == IF HasRetained(t) THEN "retained" ELSE "empty"
Retained(t)    == IF HasRetained(t) THEN "stale" ELSE "empty"
ReadyOrCancelled(t) == IF HasRetained(t) THEN "ready" ELSE "cancelled"

(* The task start_task hands back without starting anything.               *)
Reusable(p) ==
    /\ tasks[p].status \notin {"none", "error", "cancelled"}
    /\ tasks[p].epoch = mutationEpoch
    /\ ~tasks[p].isStale

NewTask(p, id, rev) ==
    [id |-> id, epoch |-> mutationEpoch, rev |-> rev, session |-> activeSession,
     status |-> "loading",
     freshness |-> IF HasRetained(tasks[p]) THEN "refreshing" ELSE "empty",
     isStale |-> FALSE, children |-> tasks[p].children]

Served(t, children) ==
    [t EXCEPT !.status = "ready", !.freshness = "fresh", !.children = children]

NewWorker(p, t, inc) ==
    [parent |-> p, id |-> t.id, epoch |-> t.epoch, session |-> t.session,
     inc |-> inc, pc |-> "load", offset |-> 0, page |-> NoPage]

Cached(p) == cache[p].present /\ cache[p].epoch = mutationEpoch

(* start_scene_object_children_analysis finds the store at another session *)
(* key: ensure_children_session replaces it by an empty one, and start_task*)
(* runs on that in the same critical section.                              *)
FirstTask(key) == [NoTask EXCEPT !.id = 1, !.rev = 1, !.session = key, !.status = "loading"]

StartInNewSession(p) ==
    /\ attachPhase = "idle" /\ attached # NoSession /\ attached # activeSession
    /\ MayReset /\ MaxTaskId > 0
    /\ LET t == FirstTask(attached)
       IN  /\ activeSession' = attached
           /\ tasks' = [q \in Parents |-> IF q = p THEN t ELSE NoTask]
           /\ cache' = [q \in Parents |-> NoEntry]
           /\ nextTaskId' = 1 /\ mutationEpoch' = 0 /\ resourceRevision' = 1
           /\ incarnation' = NextIncarnation
           /\ foreign' = {}
           /\ workers' = workers \cup {NewWorker(p, t, NextIncarnation)}
    /\ UNCHANGED <<attached, attachPhase, catalogSession, refresh, mutation, game, invalidated>>

StartGuard(p) ==
    /\ attachPhase = "idle" /\ attached # NoSession /\ attached = activeSession
    /\ ~Reusable(p)
    /\ nextTaskId < MaxTaskId
    /\ nextTaskId' = nextTaskId + 1
    /\ resourceRevision' = resourceRevision + 1
    /\ UNCHANGED <<activeSession, cache, mutationEpoch, attached, attachPhase,
                   catalogSession, refresh, mutation, game, history>>

(* start_task answers from the cache: no worker is spawned.                *)
StartFromCache(p) ==
    /\ StartGuard(p)
    /\ Cached(p)
    /\ tasks' = [tasks EXCEPT ![p] =
            Served(NewTask(p, nextTaskId + 1, resourceRevision + 1), cache[p].children)]
    /\ UNCHANGED workers

(* start_task registers a loading task, keeping what the previous task had *)
(* loaded, and the command spawns its worker.                              *)
StartAndSpawn(p) ==
    /\ StartGuard(p)
    /\ ~Cached(p)
    /\ LET t == NewTask(p, nextTaskId + 1, resourceRevision + 1)
       IN  /\ tasks' = [tasks EXCEPT ![p] = t]
           /\ workers' = workers \cup {NewWorker(p, t, incarnation)}

(* Mutant of Abandoned: the task does not take the new revision.           *)
AbandonedKeepsRevision(t, rev) ==
    [t EXCEPT !.isStale = TRUE, !.status = ReadyOrCancelled(t), !.freshness = Retained(t)]
Abandoned(t, rev) ==
    [t EXCEPT !.rev = rev, !.isStale = TRUE,
              !.status = ReadyOrCancelled(t), !.freshness = Retained(t)]

(* cancel with no task id or the current one. The task keeps its id and    *)
(* epoch, so its worker goes on being heard.                               *)
Cancel(p) ==
    /\ attachPhase = "idle" /\ attached = activeSession
    /\ tasks[p].status # "none"
    /\ resourceRevision < MaxRevision
    /\ resourceRevision' = resourceRevision + 1
    /\ tasks' = [tasks EXCEPT ![p] = Abandoned(@, resourceRevision + 1)]
    /\ UNCHANGED <<activeSession, cache, nextTaskId, mutationEpoch, threads, game, history>>

-----------------------------------------------------------------------------
(* run_scene_object_children_task                                          *)
Step(w, v) == workers' = (workers \ {w}) \cup {v}
Exit(w)    == workers' = workers \ {w}

(* The page is read from the game, outside the lock of the store.          *)
PageRead(w) ==
    LET n == listing[w.parent].count
    IN  [items |-> IF w.offset < n
                   THEN <<[page |-> w.offset, ver |-> listing[w.parent].ver]>> ELSE <<>>,
         more  |-> w.offset + 1 < n]

WorkerLoads(w) ==
    /\ w.pc = "load"
    /\ attached # NoSession
    /\ Step(w, [w EXCEPT !.pc = "apply", !.page = PageRead(w)])
    /\ UNCHANGED <<store, attached, attachPhase, catalogSession, refresh, mutation, game, history>>

WorkerLoadFails(w) ==
    /\ w.pc = "load"
    /\ Step(w, [w EXCEPT !.pc = "fail"])
    /\ UNCHANGED <<store, attached, attachPhase, catalogSession, refresh, mutation, game, history>>

(* Mutants of Matches: the task id, or the epoch, is not compared.         *)
MatchesAnyId(w) ==
    /\ activeSession = w.session
    /\ tasks[w.parent].status # "none"
    /\ tasks[w.parent].epoch = w.epoch
    /\ tasks[w.parent].session = w.session
MatchesAnyEpoch(w) ==
    /\ activeSession = w.session
    /\ tasks[w.parent].status # "none"
    /\ tasks[w.parent].id = w.id
    /\ tasks[w.parent].session = w.session

(* The guard of apply_children, complete and fail.                         *)
Matches(w) ==
    /\ activeSession = w.session
    /\ tasks[w.parent].status # "none"
    /\ tasks[w.parent].id = w.id
    /\ tasks[w.parent].epoch = w.epoch
    /\ tasks[w.parent].session = w.session

(* A write to the task of w, recorded when w outlived the store it was     *)
(* started in.                                                             *)
Write(w, t) ==
    /\ resourceRevision' = resourceRevision + 1
    /\ tasks' = [tasks EXCEPT ![w.parent] = t]
    /\ foreign' = IF w.inc = incarnation THEN foreign ELSE foreign \cup {w.parent}
    /\ UNCHANGED <<activeSession, nextTaskId, mutationEpoch, attached, attachPhase,
                   catalogSession, refresh, mutation, game, incarnation, invalidated>>

Applied(t, offset, page, rev) ==
    [t EXCEPT !.rev = rev,
              !.children = IF offset = 0 THEN page.items ELSE t.children \o page.items,
              !.status = IF page.more THEN "loading" ELSE "ready",
              !.freshness = IF page.more THEN "refreshing" ELSE "fresh"]

Advanced(w) ==
    [w EXCEPT !.pc = IF w.page.more THEN "load" ELSE "complete",
              !.offset = w.offset + 1, !.page = NoPage]

WorkerApplies(w) ==
    /\ w.pc = "apply" /\ Matches(w)
    /\ Write(w, Applied(tasks[w.parent], w.offset, w.page, resourceRevision + 1))
    /\ Step(w, Advanced(w))
    /\ UNCHANGED cache

Completed(t, rev) == [t EXCEPT !.rev = rev, !.status = "ready", !.freshness = "fresh"]

WorkerCompletes(w) ==
    /\ w.pc = "complete" /\ Matches(w)
    /\ Write(w, Completed(tasks[w.parent], resourceRevision + 1))
    /\ cache' = [cache EXCEPT ![w.parent] =
            [present |-> TRUE, epoch |-> w.epoch, children |-> tasks[w.parent].children]]
    /\ Exit(w)

(* Mutant of Failed: the status is left as it was.                         *)
FailedQuietly(t, rev) ==
    [t EXCEPT !.rev = rev, !.freshness = IF HasRetained(t) THEN "stale" ELSE "error"]
Failed(t, rev) ==
    [t EXCEPT !.rev = rev, !.status = "error",
              !.freshness = IF HasRetained(t) THEN "stale" ELSE "error"]

WorkerFails(w) ==
    /\ w.pc = "fail" /\ Matches(w)
    /\ Write(w, Failed(tasks[w.parent], resourceRevision + 1))
    /\ Exit(w)
    /\ UNCHANGED cache

(* apply_children, complete or fail returned None: the worker is done.     *)
WorkerRejected(w) ==
    /\ w.pc # "load" /\ ~Matches(w)
    /\ Exit(w)
    /\ UNCHANGED <<store, attached, attachPhase, catalogSession, refresh, mutation, game, history>>

-----------------------------------------------------------------------------
(* perform_scene_mutation: the thread checks that a process is attached,   *)
(* the game executes the operation, the thread reads the session key, then *)
(* invalidates; the scene mutation lock keeps a second mutation out.       *)
AllListings(listed, child) == listed = {} /\ child.of = {}
Changed(listed, child) == IF AllListings(listed, child) THEN Parents ELSE listed \cup child.of

MutationChecksSession ==
    /\ mutation.pc = "none" /\ attached # NoSession
    /\ gameVersion < MaxMutations
    /\ mutation' = [NoMutation EXCEPT !.pc = "checked"]
    /\ UNCHANGED <<store, workers, attached, attachPhase, catalogSession, refresh, game, history>>

MutationExecutes(listed, child) ==
    /\ mutation.pc = "checked"
    /\ gameVersion' = gameVersion + 1
    /\ \E count \in [Changed(listed, child) -> 0..MaxPages] :
          listing' = [p \in Parents |->
                        IF p \in Changed(listed, child)
                        THEN [count |-> count[p], ver |-> gameVersion + 1]
                        ELSE listing[p]]
    /\ mutation' = [pc |-> "executed", session |-> NoSession,
                    listed |-> listed, child |-> child]
    /\ UNCHANGED <<store, workers, attached, attachPhase, catalogSession, refresh, history>>

(* The operation failed, before or after it changed the game: the error is *)
(* returned and nothing is invalidated.                                    *)
MutationFails ==
    /\ mutation.pc \in {"checked", "executed"}
    /\ mutation' = NoMutation
    /\ UNCHANGED <<store, workers, attached, attachPhase, catalogSession, refresh, game, history>>

MutationReadsKey ==
    /\ mutation.pc = "executed"
    /\ mutation' = [mutation EXCEPT !.pc = "keyed", !.session = attached]
    /\ UNCHANGED <<store, workers, attached, attachPhase, catalogSession, refresh, game, history>>

Impacted(p, children) ==
    \/ AllListings(mutation.listed, mutation.child)
    \/ p \in mutation.listed
    \/ /\ p \in mutation.child.of
       /\ \E i \in DOMAIN children : children[i].page = mutation.child.page

(* Mutant of Invalidated: a loading task keeps its status.                 *)
InvalidatedStillLoading(t, rev) ==
    [t EXCEPT !.rev = rev, !.epoch = mutationEpoch + 1, !.isStale = TRUE,
              !.freshness = Retained(t)]

Invalidated(t, rev) ==
    [t EXCEPT !.rev = rev, !.epoch = mutationEpoch + 1, !.isStale = TRUE,
              !.status = ReadyOrCancelled(t), !.freshness = Retained(t)]

(* invalidate_related                                                      *)
MutationInvalidates ==
    /\ mutation.pc = "keyed" /\ mutation.session = activeSession
    /\ mutationEpoch' = mutationEpoch + 1
    /\ LET hit == {p \in Parents : tasks[p].status # "none" /\ Impacted(p, tasks[p].children)}
       IN  /\ tasks' = [p \in Parents |->
                          IF p \in hit THEN Invalidated(tasks[p], resourceRevision + 1)
                                       ELSE tasks[p]]
           /\ resourceRevision' = IF hit = {} THEN resourceRevision ELSE resourceRevision + 1
    /\ cache' = [p \in Parents |-> IF Impacted(p, cache[p].children) THEN NoEntry ELSE cache[p]]
    /\ invalidated' = [p \in Parents |->
                         IF \/ AllListings(mutation.listed, mutation.child)
                            \/ p \in mutation.listed
                         THEN listing[p].ver ELSE invalidated[p]]
    /\ mutation' = NoMutation
    /\ UNCHANGED <<activeSession, nextTaskId, workers, attached, attachPhase, catalogSession,
                   refresh, game, incarnation, foreign>>

(* invalidate_related in a store of another session changes nothing.       *)
MutationMissesStore ==
    /\ mutation.pc = "keyed" /\ mutation.session # activeSession
    /\ mutation' = NoMutation
    /\ UNCHANGED <<store, workers, attached, attachPhase, catalogSession, refresh, game, history>>

-----------------------------------------------------------------------------
(* start_scene_refresh: set_refreshing, load the catalog, set_snapshot,    *)
(* and, when the catalog store still has the key of the refresh, a reset   *)
(* of the query stores under locks of their own.                           *)
RefreshBegins ==
    /\ refresh.pc = "none" /\ attached # NoSession /\ MayReset
    /\ refresh' = [pc |-> "loading", session |-> attached]
    /\ catalogSession' = attached
    /\ UNCHANGED <<store, workers, attached, attachPhase, mutation, game, history>>

RefreshSetsSnapshot ==
    /\ refresh.pc = "loading"
    /\ refresh' = IF catalogSession = refresh.session
                  THEN [refresh EXCEPT !.pc = "reset"] ELSE NoRefresh
    /\ UNCHANGED <<store, workers, attached, attachPhase, catalogSession, mutation, game, history>>

RefreshFails ==
    /\ refresh.pc = "loading"
    /\ refresh' = NoRefresh
    /\ UNCHANGED <<store, workers, attached, attachPhase, catalogSession, mutation, game, history>>

RefreshResets ==
    /\ refresh.pc = "reset"
    /\ ResetStore
    /\ refresh' = NoRefresh
    /\ UNCHANGED <<workers, attached, attachPhase, catalogSession, mutation, game, invalidated>>

(* attach_to_process on the main thread: begin_attach forgets the session, *)
(* finish_attach (or fail_attach) resets the scene stores, complete_attach *)
(* publishes the key of the new process.                                   *)
AttachBegins ==
    /\ attachPhase = "idle" /\ MayReset
    /\ attachPhase' = "begun" /\ attached' = NoSession
    /\ UNCHANGED <<store, workers, catalogSession, refresh, mutation, game, history>>

AttachResets ==
    /\ attachPhase = "begun"
    /\ ResetStore
    /\ catalogSession' = NoSession
    /\ attachPhase' = "reset"
    /\ UNCHANGED <<workers, attached, refresh, mutation, game, invalidated>>

AttachCompletes(s) ==
    /\ attachPhase = "reset"
    /\ attachPhase' = "idle" /\ attached' = s
    /\ UNCHANGED <<store, workers, catalogSession, refresh, mutation, game, history>>

AttachFails ==
    /\ attachPhase = "reset"
    /\ attachPhase' = "idle"
    /\ UNCHANGED <<store, workers, attached, catalogSession, refresh, mutation, game, history>>

-----------------------------------------------------------------------------
ListedChildren == {[of |-> {p}, page |-> k] : p \in Parents, k \in 0..(MaxPages - 1)}

WorkerNext(w) ==
    \/ WorkerLoads(w)   \/ WorkerLoadFails(w) \/ WorkerApplies(w)
    \/ WorkerCompletes(w) \/ WorkerFails(w)   \/ WorkerRejected(w)

Next ==
    \/ \E p \in Parents : \/ StartInNewSession(p) \/ StartFromCache(p)
                          \/ StartAndSpawn(p)     \/ Cancel(p)
    \/ \E w \in workers : WorkerNext(w)
    \/ \E listed \in SUBSET Parents, child \in ListedChildren \cup {NoChild} :
          MutationExecutes(listed, child)
    \/ MutationChecksSession \/ MutationFails \/ MutationReadsKey
    \/ MutationInvalidates \/ MutationMissesStore
    \/ RefreshBegins \/ RefreshSetsSnapshot \/ RefreshFails \/ RefreshResets
    \/ AttachBegins \/ AttachResets \/ AttachFails
    \/ \E s \in Sessions : AttachCompletes(s)

Spec == Init /\ [][Next]_vars

(* The blocking pool runs every worker thread to its end.                  *)
WorkerThread(n, id) == \E w \in workers : w.inc = n /\ w.id = id /\ WorkerNext(w)
FairSpec ==
    /\ Spec
    /\ \A n \in 0..MaxResets, id \in 1..MaxTaskId : WF_vars(WorkerThread(n, id))

-----------------------------------------------------------------------------
(* isOlderSceneTask (useSceneWorkspaceSync.ts): how the scene page orders  *)
(* two states of one task.                                                 *)
Older(t, u) ==
    \/ t.epoch < u.epoch
    \/ t.epoch = u.epoch /\ t.id < u.id
    \/ t.epoch = u.epoch /\ t.id = u.id /\ t.rev < u.rev

(* Every change of a task within one incarnation of the store is newer     *)
(* than what it replaces in the order by which the scene page discards     *)
(* updates: no start, cancel, worker write or invalidation is lost there.  *)
UpdatesAdvance ==
    [][incarnation' = incarnation =>
         \A p \in Parents :
            tasks[p].status # "none" /\ tasks'[p] # tasks[p] => Older(tasks[p], tasks'[p])]_vars

Contiguous(children) == \A i \in DOMAIN children : children[i].page = i - 1

(* However cancels, restarts, invalidations and page loads interleave, a   *)
(* list of children is a prefix of the listing without gap or repetition,  *)
(* unless a worker of an earlier incarnation wrote to it.                  *)
PagesContiguous ==
    \A p \in Parents \ foreign : Contiguous(tasks[p].children) /\ Contiguous(cache[p].children)

(* What is offered as fresh was read after the last completed mutation     *)
(* that named the parent: no page read before it, and no cached list,      *)
(* comes back under the label.                                             *)
Current(children, p) == \A i \in DOMAIN children : children[i].ver >= invalidated[p]
FreshIsCurrent ==
    \A p \in Parents \ foreign :
        tasks[p].freshness = "fresh" => Current(tasks[p].children, p)

(* A task that says loading has a live worker that will still be heard:    *)
(* start_task hands such a task back without spawning, so a loading task   *)
(* without one would never end.                                            *)
LoadingHasWorker ==
    \A p \in Parents : tasks[p].status = "loading" =>
        \E w \in workers : w.parent = p /\ Matches(w)

(* A loading task leaves that status.                                      *)
LoadingSettles ==
    \A p \in Parents : (tasks[p].status = "loading") ~> (tasks[p].status # "loading")

(* No update of a worker started in an earlier session or incarnation of   *)
(* the store is accepted (the claim of scene_children_rejects_stale_       *)
(* session_updates, state/mod.rs:500).                                     *)
StaleWorkersRejected == foreign = {}

-----------------------------------------------------------------------------
(* What the safety properties rest on.                                     *)

(* Ids, epochs and revisions come from the counters of this incarnation.   *)
CountersBound ==
    /\ \A p \in Parents : /\ tasks[p].id <= nextTaskId
                          /\ tasks[p].epoch <= mutationEpoch
                          /\ tasks[p].rev <= resourceRevision
    /\ \A w \in workers : /\ w.inc <= incarnation
                          /\ w.inc = incarnation =>
                                w.id <= nextTaskId /\ w.epoch <= mutationEpoch

(* A store that has no session key yet has no task and no worker.          *)
KeylessIsEmpty ==
    activeSession = NoSession =>
        /\ \A p \in Parents : tasks[p].status = "none" /\ tasks[p].children = <<>>
        /\ \A w \in workers : w.inc # incarnation

(* One incarnation never runs two workers for one task id.                 *)
UniqueWorkers ==
    \A v, w \in workers : v.inc = incarnation /\ w.inc = incarnation /\ v.id = w.id => v = w

(* A page in the hands of a worker is the one at its offset, or empty when *)
(* the listing shrank below the offset; only a full page has a successor.  *)
PageAtOffset ==
    \A w \in workers :
        w.pc = "apply" =>
            \/ w.page = NoPage
            \/ Len(w.page.items) = 1 /\ w.page.items[1].page = w.offset

(* A worker of this incarnation that will be heard continues exactly where *)
(* the list of its task ends.                                              *)
OffsetAtEnd ==
    \A w \in workers :
        /\ w.inc = incarnation /\ Matches(w) /\ w.parent \notin foreign
        /\ w.pc # "complete" /\ w.offset # 0
        => w.offset = Len(tasks[w.parent].children)

(* What a worker of this incarnation that will be heard holds, and what it *)
(* has loaded so far, is current; it completes only after its first page.  *)
HeardIsCurrent ==
    \A w \in workers :
        w.inc = incarnation /\ Matches(w) /\ w.parent \notin foreign =>
            /\ Current(w.page.items, w.parent)
            /\ w.offset # 0 => Current(tasks[w.parent].children, w.parent)
            /\ w.pc = "complete" => w.offset # 0

CacheIsCurrent ==
    \A p \in Parents \ foreign : cache[p].present => Current(cache[p].children, p)

(* The game's listing is never older than what was invalidated.            *)
ListingIsNewest ==
    \A p \in Parents : invalidated[p] <= listing[p].ver /\ listing[p].ver <= gameVersion

(* An absent task is not labelled fresh.                                   *)
AbsentIsNotFresh == \A p \in Parents : tasks[p].status = "none" => tasks[p].freshness # "fresh"

CounterInv    == CountersBound /\ KeylessIsEmpty
ContiguityInv == UniqueWorkers /\ PageAtOffset /\ OffsetAtEnd /\ PagesContiguous
FreshnessInv  == /\ FreshIsCurrent /\ HeardIsCurrent /\ CacheIsCurrent
                 /\ ListingIsNewest /\ AbsentIsNotFresh
=============================================================================
