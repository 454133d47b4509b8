---------------------------- MODULE ScenePageSync ----------------------------
(***************************************************************************)
(* How the Scene page keeps its copy of the scene up to date               *)
(* (useSceneWorkspaceSync.ts and the store it drives): it asks for the     *)
(* catalog, for a refresh and for the resources of the selected object,    *)
(* hears of every change by an event, and applies an answer or an event    *)
(* only if its session and its version pass a check.                       *)
(*                                                                         *)
(* The backend is the catalog (scene_store.rs, SceneState) and one task    *)
(* per kind of resource for the selected object, each kind with a store of *)
(* its own that counts mutations, task ids and revisions.  A worker reads  *)
(* the resource of a loading task.  A session is named after its process,  *)
(* so that a process that is attached again has the name it had.  The page *)
(* is visible and one object is selected.                                  *)
(*                                                                         *)
(* The code dispatches into a reducer.  React evaluates what is urgent in  *)
(* a render of its own and the states of tasks, dispatched in transitions, *)
(* when nothing urgent is left; the effects of a render follow it.  The    *)
(* checks read refs that an evaluation or an effect has set.  Messages     *)
(* arrive at any time.                                                     *)
(***************************************************************************)
EXTENDS Naturals, Sequences, FiniteSetsExt

CONSTANTS
  Kinds,           \* kinds of resources: "header", "components", "children"
  Sessions,        \* names of sessions, one for each process
  MaxStarts,       \* bound: attaches, refreshes, selections, mutations, returns to the window
  MaxTransit,      \* bound: events and answers on their way to the page
  MaxUpdates       \* bound: updates that wait to be evaluated when a message arrives

ASSUME ConstantsAssumption ==
  /\ Kinds # {} /\ Kinds \subseteq {"header", "components", "children"}
  /\ Sessions \subseteq Nat \ {0}
  /\ MaxStarts \in Nat /\ MaxUpdates \in Nat \ {0}
  /\ MaxTransit \in Nat /\ MaxTransit > Cardinality(Kinds)

VARIABLES
  attached,   \* the session the backend is attached to, 0 if none
  catalog,    \* SceneState
  store,      \* the task store of each kind
  refreshes,  \* calls of start_scene_refresh that have not answered
  mutation,   \* a mutation between its two reads of the session
  events,     \* events on their way to the page, in order
  asked,      \* calls of the page the backend has not handled
  answers,    \* answers on their way to the page
  life,       \* the lifecycle the page has rendered
  page,       \* the page's scene state, as rendered
  base,       \* the state "updates" are evaluated on
  updates,    \* dispatched and not evaluated for good
  done,       \* the number of them the last render has been through
  known,      \* the page the effects ran for last: the refs of tasks and status
  version,    \* latestSceneWorkspaceVersionRef
  count       \* history: attaches and actions so far; whether the version ref was not that
              \* of the scene to come when it judged a state of the catalog (misjudged), or
              \* the page took a session while such states of an earlier session of that
              \* name were on their way (mixed)

backend == <<attached, catalog, store, refreshes, mutation>>
transit == <<events, asked, answers>>
react == <<page, base, updates, done, known, version>>
vars == <<backend, transit, life, react, count>>

NoSession == 0

-----------------------------------------------------------------------------
\* The backend.

EmptyCatalog(key) ==
  [key |-> key, status |-> "idle", fresh |-> "empty", epoch |-> 0, rev |-> 0, snap |-> FALSE]

NoTask == [status |-> "none"]
EmptyStore == [key |-> NoSession, epoch |-> 0, id |-> 0, rev |-> 0, task |-> NoTask]
NoMutation == [running |-> FALSE, told |-> <<>>]
EmptyStores == [k \in Kinds |-> EmptyStore]

CatalogEvent(c) == [about |-> "catalog", state |-> c]
TaskEvent(k, t) == [about |-> k, state |-> t]

\* set_refreshing, set_snapshot and set_error; the last two leave a catalog of
\* another session alone.
Refreshing(key) ==
  LET c == IF catalog.key = key THEN catalog ELSE EmptyCatalog(key)
  IN [c EXCEPT !.status = "refreshing", !.fresh = "refreshing", !.rev = @ + 1]

Loaded(key) ==
  IF catalog.key # key THEN catalog
  ELSE [catalog EXCEPT !.status = "ready", !.fresh = "fresh", !.rev = @ + 1, !.snap = TRUE]

FailedRefresh(key) ==
  IF catalog.key # key THEN catalog
  ELSE [catalog EXCEPT !.status = "error", !.rev = @ + 1,
                       !.fresh = IF catalog.snap THEN "stale" ELSE "error"]

\* bump_mutation_epoch.
Mutated(key) ==
  IF catalog.key # key THEN catalog
  ELSE [catalog EXCEPT !.epoch = @ + 1, !.rev = @ + 1,
                       !.fresh = IF catalog.status = "refreshing" THEN "refreshing"
                                 ELSE IF catalog.snap THEN "stale" ELSE "empty"]

\* A task start_task hands out again instead of making a new one.
Current(s) ==
  /\ s.task # NoTask
  /\ s.task.epoch = s.epoch
  /\ s.task.status \in {"loading", "ready"}
  /\ s.task.fresh # "stale"

\* start_task: the store takes the session, a new task keeps the data.
Started(s, key) ==
  LET own == IF s.key = key THEN s ELSE [EmptyStore EXCEPT !.key = key]
      data == own.task # NoTask /\ own.task.data
  IN IF Current(own) THEN own
     ELSE [own EXCEPT !.id = @ + 1, !.rev = @ + 1,
             !.task = [key |-> key, epoch |-> own.epoch, id |-> own.id + 1, rev |-> own.rev + 1,
                       status |-> "loading", data |-> data,
                       fresh |-> IF data THEN "refreshing" ELSE "empty"]]

\* apply_header and its siblings, for the worker of the task.
Finished(s) ==
  [s EXCEPT !.rev = @ + 1,
            !.task = [@ EXCEPT !.rev = s.rev + 1, !.status = "ready", !.fresh = "fresh",
                               !.data = TRUE]]

\* invalidate_related: nothing in the store of another session, or before its
\* first task.
Invalidated(s, key) ==
  IF s.key # key THEN s
  ELSE IF s.task = NoTask THEN [s EXCEPT !.epoch = @ + 1]
  ELSE [s EXCEPT !.epoch = @ + 1, !.rev = @ + 1,
          !.task = [@ EXCEPT !.epoch = s.epoch + 1, !.rev = s.rev + 1,
                             !.status = IF s.task.data THEN "ready" ELSE "cancelled",
                             !.fresh = IF s.task.data THEN "stale" ELSE "empty"]]

\* Bound: there is room for n more messages.
Room(n) == Len(events) + Cardinality(answers) + n <= MaxTransit

\* Bound: there is room for one more thing that someone starts.
MayStart == count.attaches + count.actions < MaxStarts
Acts == MayStart /\ count' = [count EXCEPT !.actions = @ + 1]

\* start_scene_refresh up to the load.
RefreshBegins(r) ==
  /\ Room(1)
  /\ r \in refreshes /\ r.stage = "asked"
  /\ IF attached = NoSession
       THEN /\ refreshes' = refreshes \ {r}
            /\ answers' = answers \cup {[about |-> "refresh", n |-> r.n, failed |-> TRUE]}
            /\ UNCHANGED <<catalog, events>>
       ELSE /\ catalog' = Refreshing(attached)
            /\ events' = Append(events, CatalogEvent(catalog'))
            /\ refreshes' = (refreshes \ {r}) \cup {[n |-> r.n, stage |-> "loading", key |-> attached]}
            /\ UNCHANGED answers
  /\ UNCHANGED <<attached, store, mutation, asked, life, react, count>>

\* complete_refresh: the task stores start over, the catalog keeps its epoch.
CompletesRefresh(key) == IF catalog.key = key THEN EmptyStores ELSE store

RefreshLoads(r) ==
  /\ Room(2)
  /\ r \in refreshes /\ r.stage = "loading"
  /\ catalog' = Loaded(r.key)
  /\ store' = CompletesRefresh(r.key)
  /\ events' = Append(events, CatalogEvent(catalog'))
  /\ refreshes' = refreshes \ {r}
  /\ answers' = answers \cup {[about |-> "refresh", n |-> r.n, failed |-> FALSE, state |-> catalog']}
  /\ UNCHANGED <<attached, mutation, asked, life, react, count>>

RefreshFails(r) ==
  /\ Room(2)
  /\ r \in refreshes /\ r.stage = "loading"
  /\ catalog' = FailedRefresh(r.key)
  /\ events' = Append(events, CatalogEvent(catalog'))
  /\ refreshes' = refreshes \ {r}
  /\ answers' = answers \cup {[about |-> "refresh", n |-> r.n, failed |-> TRUE]}
  /\ UNCHANGED <<attached, store, mutation, asked, life, react, count>>

\* perform_scene_mutation of the selected object, after the game has changed: the
\* stores are invalidated for the session read first, the children only by an
\* operation that touches them ...
MutationInvalidates(kinds) ==
  /\ ~mutation.running
  /\ attached # NoSession
  /\ Kinds \ kinds \subseteq {"children"}
  /\ Acts
  /\ store' = [k \in Kinds |-> IF k \in kinds THEN Invalidated(store[k], attached) ELSE store[k]]
  /\ LET Tells(k) == IF k \in kinds /\ store[k].key = attached /\ store[k].task # NoTask
                     THEN <<TaskEvent(k, store'[k].task)>> ELSE <<>>
     IN mutation' = [running |-> TRUE,
                     told |-> Tells("children") \o Tells("header") \o Tells("components")]
  /\ UNCHANGED <<attached, catalog, refreshes, events, asked, answers, life, react>>

\* ... and the catalog for the session read second; then the events are sent.
MutationMarks ==
  /\ Room(1 + Len(mutation.told))
  /\ mutation.running
  /\ catalog' = Mutated(attached)
  /\ events' = events \o <<CatalogEvent(catalog')>> \o mutation.told
  /\ mutation' = NoMutation
  /\ UNCHANGED <<attached, store, refreshes, asked, answers, life, react, count>>

\* The backend handles a call for a resource, which tells the task that is started or
\* handed out again by an event too, or for the catalog.
Handles(k) ==
  /\ Room(2)
  /\ k \in asked
  /\ asked' = asked \ {k}
  /\ IF k = "catalog"
       THEN /\ answers' = answers \cup
                 {[about |-> "catalog", state |-> IF catalog.key = attached THEN catalog
                                                  ELSE EmptyCatalog(attached)]}
            /\ UNCHANGED <<store, events>>
       ELSE IF attached = NoSession
       THEN /\ answers' = answers \cup {[about |-> k, state |-> NoTask]}
            /\ UNCHANGED <<store, events>>
       ELSE /\ store' = [store EXCEPT ![k] = Started(@, attached)]
            /\ events' = Append(events, TaskEvent(k, store'[k].task))
            /\ answers' = answers \cup {[about |-> k, state |-> store'[k].task]}
  /\ UNCHANGED <<attached, catalog, refreshes, mutation, life, react, count>>

WorkerFinishes(k) ==
  /\ Room(1)
  /\ store[k].task # NoTask
  /\ store[k].task.status = "loading"
  /\ store' = [store EXCEPT ![k] = Finished(@)]
  /\ events' = Append(events, TaskEvent(k, store'[k].task))
  /\ UNCHANGED <<attached, catalog, refreshes, mutation, asked, answers, life, react, count>>

-----------------------------------------------------------------------------
\* The page: what is dispatched, and what the reducer makes of it.

EmptyPage ==
  [scene |-> EmptyCatalog(NoSession), tasks |-> [k \in Kinds |-> NoTask], loading |-> [k \in Kinds |-> FALSE]]
NoVersion == [rev |-> 0, epoch |-> 0]
VersionOf(scene) == [rev |-> scene.rev, epoch |-> scene.epoch]

ToScene(state) == [to |-> "scene", state |-> state]
ToTask(k, t) == [to |-> k, state |-> t]
ToLoading(k) == [to |-> "loading", kind |-> k]
Reset == [to |-> "reset"]
Optimistic == [to |-> "refreshing"]
Failure == [to |-> "error"]

\* The reducer of the store.
Applied(p, u) ==
  CASE u.to = "reset" -> EmptyPage
    [] u.to = "scene" -> [p EXCEPT !.scene = u.state]
    [] u.to = "refreshing" ->
         [p EXCEPT !.scene.status = "refreshing",
                   !.scene.fresh = IF p.scene.snap THEN "refreshing" ELSE @]
    [] u.to = "error" -> [p EXCEPT !.scene.status = "error"]
    [] u.to = "loading" -> [p EXCEPT !.loading[u.kind] = TRUE]
    [] OTHER -> [p EXCEPT !.tasks[u.to] = u.state, !.loading[u.to] = (u.state.status = "loading")]

\* The states of tasks are dispatched in transitions.
IsUrgent(u) == u.to \notin Kinds

\* The states a render goes through: it evaluates all updates, or skips the transitions.
Evaluation(p, sent, all) ==
  LET after[i \in 0..Len(sent)] ==
        IF i = 0 THEN p
        ELSE IF all \/ IsUrgent(sent[i]) THEN Applied(after[i - 1], sent[i]) ELSE after[i - 1]
  IN after

\* What a render of the urgent updates shows, and what the page is going to show.
Shown == Evaluation(base, updates, FALSE)[Len(updates)]
Seen == Evaluation(base, updates, TRUE)[Len(updates)]

\* Every updater of the scene leaves the version it makes in the ref, each time React
\* evaluates it; a reset does not, and a transition leaves the scene alone.
Written ==
  LET scenes == {i \in 1..Len(updates) : updates[i].to \in {"scene", "refreshing", "error"}}
  IN IF scenes = {} THEN version
     ELSE VersionOf(Evaluation(base, updates, FALSE)[Max(scenes)].scene)

\* A transition that waits keeps all behind it, which is evaluated again with it.
Ahead ==
  LET waiting == {i \in 1..Len(updates) : ~IsUrgent(updates[i])}
  IN IF waiting = {} THEN Len(updates) ELSE Min(waiting) - 1
Behind == SubSeq(updates, Ahead + 1, Len(updates))

\* React renders what is urgent and "sent" is dispatched after it.
Commits(sent) ==
  /\ page' = Shown
  /\ base' = Evaluation(base, updates, FALSE)[Ahead]
  /\ updates' = Behind \o sent
  /\ done' = Len(Behind)

\* The effect on the version of the scene, for a version ref that is "before".
Effected(p, before) ==
  IF VersionOf(p.scene) # VersionOf(known.scene) THEN VersionOf(p.scene) ELSE before

-----------------------------------------------------------------------------
\* What the page accepts and asks for.

\* compareSceneWorkspaceVersion(a, b) < 0.
Below(a, b) == a.rev < b.rev \/ (a.rev = b.rev /\ a.epoch < b.epoch)

\* isOlderSceneTask.
OlderTask(current, next) ==
  IF current.epoch # next.epoch THEN current.epoch > next.epoch
  ELSE IF current.id # next.id THEN current.id > next.id
  ELSE current.rev > next.rev

\* Mutant of AcceptsScene: the version is not compared.
AcceptsSceneOfAnyVersion(state) == state.key = life.key
\* shouldAcceptSceneWorkspace.
AcceptsScene(state) == state.key = life.key /\ ~Below(VersionOf(state), version)

\* Mutant of AcceptsTask: the session is not compared.
AcceptsTaskOfAnySession(k, t) ==
  t.epoch >= version.epoch /\ (known.tasks[k] # NoTask => ~OlderTask(known.tasks[k], t))
\* shouldAcceptHeaderTask and its siblings.
AcceptsTask(k, t) ==
  /\ t.key = life.key
  /\ t.epoch >= version.epoch
  /\ known.tasks[k] # NoTask => ~OlderTask(known.tasks[k], t)

\* shouldReuseHeaderTask and its siblings.
Reuses(t, epoch) ==
  /\ t # NoTask
  /\ t.epoch >= epoch
  /\ t.fresh \in {"fresh", "refreshing"} \/ t.status = "loading"

\* Whether the selected object is to be loaded again at the epoch of the catalog.
Outdated(p) ==
  \E k \in Kinds : \/ p.tasks[k] = NoTask
                  \/ p.tasks[k].epoch < p.scene.epoch
                  \/ p.tasks[k].fresh \in {"stale", "empty"}

\* The kinds the effects on the selection and on the epoch load once p is rendered;
\* "again" if the selection or the capability for components has changed.
Wanted(p, able, again, epoch) ==
  LET loadable == {k \in Kinds : k = "components" => able}
  IN IF Outdated(p) /\ (again \/ p.scene.epoch # known.scene.epoch) THEN loadable
     ELSE {k \in loadable : again /\ ~Reuses(p.tasks[k], epoch)}

\* loadSceneObjectResources: each kind asked for is marked loading first.
Loads(kinds) ==
  LET Marks(k) == IF k \in kinds THEN <<ToLoading(k)>> ELSE <<>>
  IN Marks("header") \o Marks("children") \o Marks("components")

\* A number no refresh in flight has.
NewCall == CHOOSE n \in 1..(MaxStarts + 1) :
             /\ \A r \in refreshes : r.n # n
             /\ \A a \in answers : a.about = "refresh" => a.n # n

\* refreshSceneWorkspace, with "sent" dispatched just before it.
Refresh(sent) ==
  IF known.scene.status = "refreshing" \/ known.scene.fresh = "refreshing"
    THEN updates' = updates \o sent /\ UNCHANGED refreshes
    ELSE /\ updates' = updates \o sent \o <<Optimistic>>
         /\ refreshes' = refreshes \cup {[n |-> NewCall, stage |-> "asked"]}

-----------------------------------------------------------------------------
\* React.

\* What is urgent and has not been rendered.
Hurries == \E i \in (done + 1)..Len(updates) : IsUrgent(updates[i])

\* The effects of a render, some time after it: refs, version, what is to be loaded.
EffectsRun ==
  /\ known # page
  /\ known' = page
  /\ version' = Effected(page, version)
  /\ LET kinds == Wanted(page, life.able, FALSE, version'.epoch)
     IN updates' = updates \o Loads(kinds) /\ asked' = asked \cup kinds
  /\ UNCHANGED <<backend, events, answers, life, page, base, done, count>>

\* React renders what is urgent, after the effects of the render before.
Renders ==
  /\ known = page
  /\ Hurries
  /\ Commits(<<>>)
  /\ version' = Written
  /\ UNCHANGED <<backend, transit, life, known, count>>

\* ... and all that waits, when nothing is urgent.
RendersAll ==
  /\ known = page
  /\ updates # <<>> /\ ~Hurries
  /\ page' = Seen
  /\ version' = Written
  /\ base' = page' /\ updates' = <<>> /\ done' = 0
  /\ UNCHANGED <<backend, transit, life, known, count>>

\* A change of the lifecycle or of the selection is rendered at once, with what is
\* urgent, and its effects follow immediately: they dispatch "sent" and ask for "calls".
RendersAtOnce(sent, calls) ==
  /\ known = page
  /\ Commits(sent)
  /\ known' = Shown
  /\ asked' = asked \cup calls
  /\ UNCHANGED <<events, answers>>

-----------------------------------------------------------------------------
\* Messages.

\* Bound: a message arrives if few updates wait.
Listens == Len(updates) < MaxUpdates

\* History: whether the version ref has judged a state of the catalog otherwise than
\* the scene to come would have, and the catalog as it is has not been taken since.
Judged(state) ==
  LET late == Below(VersionOf(state), version)
      older == Below(VersionOf(state), VersionOf(Seen.scene))
  IN IF state.key # life.key THEN count
     ELSE [count EXCEPT !.misjudged =
             late # older \/ (@ /\ (late \/ VersionOf(state) # VersionOf(catalog)))]

\* updateSceneWorkspace, if the state is accepted.
Dispatched(state) == IF AcceptsScene(state) THEN <<ToScene(state)>> ELSE <<>>

\* The listeners of the effect on "active".
EventArrives ==
  /\ Listens
  /\ events # <<>>
  /\ events' = Tail(events)
  /\ LET e == Head(events)
     IN IF e.about = "catalog"
          THEN /\ updates' = updates \o Dispatched(e.state)
               /\ count' = Judged(e.state)
          ELSE /\ updates' = IF AcceptsTask(e.about, e.state)
                               THEN Append(updates, ToTask(e.about, e.state)) ELSE updates
               /\ UNCHANGED count
  /\ UNCHANGED <<backend, asked, answers, life, page, base, done, known, version>>

\* The rest of loadSceneObjectHeader and its siblings.
TaskAnswered(a) ==
  /\ Listens
  /\ a \in answers /\ a.about \in Kinds
  /\ answers' = answers \ {a}
  /\ updates' = IF a.state # NoTask /\ AcceptsTask(a.about, a.state)
                  THEN Append(updates, ToTask(a.about, a.state)) ELSE updates
  /\ UNCHANGED <<backend, events, asked, life, page, base, done, known, version, count>>

\* The rest of refreshSceneWorkspace.
RefreshAnswered(a) ==
  /\ Listens
  /\ a \in answers /\ a.about = "refresh"
  /\ answers' = answers \ {a}
  /\ IF a.failed THEN updates' = Append(updates, Failure) /\ UNCHANGED count
     ELSE updates' = updates \o Dispatched(a.state) /\ count' = Judged(a.state)
  /\ UNCHANGED <<backend, events, asked, life, page, base, done, known, version>>

\* Mutant of NeedsRefresh: both conditions are asked for.
NeedsRefreshIfBoth(state) == ~AcceptsScene(state) \/ (state.snap /\ state.fresh = "empty")
\* What the hydration does with the catalog it was answered.
NeedsRefresh(state) == ~AcceptsScene(state) \/ ~state.snap \/ state.fresh = "empty"

\* The rest of loadSceneWorkspaceState and of the hydration.
CatalogAnswered(a) ==
  /\ Listens
  /\ a \in answers /\ a.about = "catalog"
  /\ answers' = answers \ {a}
  /\ count' = Judged(a.state)
  /\ IF NeedsRefresh(a.state) THEN Refresh(Dispatched(a.state))
     ELSE updates' = updates \o Dispatched(a.state) /\ UNCHANGED refreshes
  /\ UNCHANGED <<attached, catalog, store, mutation, events, asked, life, page, base, done,
                 known, version>>

-----------------------------------------------------------------------------
\* The user and the lifecycle.

\* The user selects the object (again).
UserSelects ==
  /\ Acts
  /\ version' = Effected(Shown, Written)
  /\ LET kinds == Wanted(Shown, life.able, TRUE, version'.epoch)
     IN RendersAtOnce(Loads(kinds), kinds)
  /\ UNCHANGED <<backend, life>>

UserRefreshes ==
  /\ Listens
  /\ life.snap
  /\ Acts
  /\ Refresh(<<>>)
  /\ UNCHANGED <<attached, catalog, store, mutation, transit, life, page, base, done, known, version>>

\* The effects of a lifecycle without session or snapshot: the scene is emptied, and
\* the selected object loaded if the capability for components has changed.
TakesLife(lifecycle) ==
  LET kinds == Wanted(Shown, lifecycle.able, lifecycle.able # life.able, 0)
  IN /\ life' = lifecycle
     /\ version' = NoVersion
     /\ RendersAtOnce(<<Reset>> \o Loads(kinds), kinds)

NoLife == [key |-> NoSession, able |-> FALSE, snap |-> FALSE]

\* attachToProcess: the page leaves its session, if it has one, and the backend forgets
\* its own (begin_attach) ...
AttachBegins ==
  /\ attached = life.key
  /\ life.key # NoSession \/ count.attaches = 0
  /\ MayStart
  /\ count' = [count EXCEPT !.attaches = @ + 1]
  /\ attached' = NoSession
  /\ IF life.key = NoSession THEN UNCHANGED <<transit, life, react>> ELSE TakesLife(NoLife)
  /\ UNCHANGED <<catalog, store, refreshes, mutation>>

\* ... which attaches to a process, perhaps the one it was attached to, and resets
\* catalog and stores ...
AttachCompletes(key) ==
  /\ attached = NoSession
  /\ count.attaches > 0
  /\ attached' = key
  /\ catalog' = EmptyCatalog(NoSession)
  /\ store' = EmptyStores
  /\ UNCHANGED <<refreshes, mutation, transit, life, react, count>>

\* The states of the catalog on their way to the page.
Told(sent) == {sent[i].state : i \in {j \in 1..Len(sent) : sent[j].about = "catalog"}}
Answered(given) ==
  {a.state : a \in {b \in given : b.about = "catalog" \/ (b.about = "refresh" /\ ~b.failed)}}
InFlight == Told(events) \cup Answered(answers)

\* ... and the page takes the session.
AttachAnswered ==
  /\ attached # NoSession /\ life.key = NoSession
  /\ TakesLife([NoLife EXCEPT !.key = attached])
  /\ count' = [count EXCEPT !.misjudged = FALSE, !.mixed = \E c \in InFlight : c.key = attached]
  /\ UNCHANGED backend

\* refreshWorkspaceLifecycle before the snapshot is loaded, first after the attach,
\* which makes the capability known, and again if the user has returned to the window.
LifecycleRefreshes ==
  /\ life.key # NoSession /\ ~life.snap
  /\ IF life.able THEN Acts ELSE UNCHANGED count
  /\ TakesLife([life EXCEPT !.able = TRUE])
  /\ UNCHANGED backend

\* The snapshot of the metadata is loaded: the scene is hydrated.
SnapshotLoads ==
  /\ life.able /\ ~life.snap
  /\ life' = [life EXCEPT !.snap = TRUE]
  /\ version' = Effected(Shown, Written)
  /\ LET kinds == Wanted(Shown, TRUE, FALSE, version'.epoch)
     IN RendersAtOnce(Loads(kinds), kinds \cup {"catalog"})
  /\ UNCHANGED <<backend, count>>

-----------------------------------------------------------------------------
Init ==
  /\ attached = NoSession
  /\ catalog = EmptyCatalog(NoSession)
  /\ store = EmptyStores
  /\ refreshes = {} /\ mutation = NoMutation
  /\ events = <<>> /\ asked = {} /\ answers = {}
  /\ life = NoLife
  /\ page = EmptyPage /\ base = EmptyPage /\ known = EmptyPage
  /\ updates = <<>> /\ done = 0
  /\ version = NoVersion
  /\ count = [attaches |-> 0, actions |-> 0, misjudged |-> FALSE, mixed |-> FALSE]

\* What someone starts.
Starts ==
  \/ AttachBegins
  \/ UserSelects
  \/ UserRefreshes
  \/ \E kinds \in SUBSET Kinds : MutationInvalidates(kinds)
  \/ life.able /\ LifecycleRefreshes

\* What follows from it.
Follows ==
  \/ \E r \in refreshes : RefreshBegins(r) \/ RefreshLoads(r) \/ RefreshFails(r)
  \/ MutationMarks
  \/ \E k \in Kinds \cup {"catalog"} : Handles(k)
  \/ \E k \in Kinds : WorkerFinishes(k)
  \/ \E key \in Sessions : AttachCompletes(key)
  \/ AttachAnswered
  \/ ~life.able /\ LifecycleRefreshes
  \/ SnapshotLoads
  \/ EffectsRun \/ Renders \/ RendersAll
  \/ EventArrives
  \/ \E a \in answers : TaskAnswered(a) \/ RefreshAnswered(a) \/ CatalogAnswered(a)

Next == Starts \/ Follows

Spec == Init /\ [][Next]_vars

\* As long as something is on its way, some of it gets on: the backend answers,
\* the workers finish, messages arrive, React renders and runs effects.
FairSpec == Spec /\ WF_vars(Follows)

-----------------------------------------------------------------------------
\* A task is loading, or ready with data, or was cancelled before it had any.
Tasks ==
  {t \in [key : Sessions, epoch : Nat, id : Nat \ {0}, rev : Nat \ {0}, data : BOOLEAN,
          status : {"loading", "ready", "cancelled"},
          fresh : {"empty", "refreshing", "fresh", "stale"}] :
     \/ t.status = "loading" /\ t.fresh = (IF t.data THEN "refreshing" ELSE "empty")
     \/ t.status = "ready" /\ t.data /\ t.fresh \in {"fresh", "stale"}
     \/ t.status = "cancelled" /\ ~t.data /\ t.fresh = "empty"}

Stores ==
  [key : {NoSession} \cup Sessions, epoch : Nat, id : Nat, rev : Nat, task : Tasks \cup {NoTask}]

Scenes ==
  [key : {NoSession} \cup Sessions, epoch : Nat, rev : Nat, snap : BOOLEAN,
   status : {"idle", "refreshing", "ready", "error"},
   fresh : {"empty", "refreshing", "fresh", "stale", "error"}]

Pages ==
  [scene : Scenes, tasks : [Kinds -> Tasks \cup {NoTask}], loading : [Kinds -> BOOLEAN]]

TaskEvents == [about : Kinds, state : Tasks]
Events == [about : {"catalog"}, state : Scenes] \cup TaskEvents

AnswerOK(a) ==
  \/ a.about = "refresh" /\ a.failed \in BOOLEAN /\ (~a.failed => a.state \in Scenes)
  \/ a.about = "catalog" /\ a.state \in Scenes
  \/ a.about \in Kinds /\ a.state \in Tasks \cup {NoTask}

Updates ==
  [to : {"scene"}, state : Scenes] \cup [to : Kinds, state : Tasks]
  \cup [to : {"loading"}, kind : Kinds] \cup {Reset, Optimistic, Failure}

\* Types; what is in a store, on its way or on the page is a task the backend makes.
TypeOK ==
  /\ attached \in {NoSession} \cup Sessions
  /\ catalog \in Scenes
  /\ store \in [Kinds -> Stores]
  /\ \A r \in refreshes : r.stage # "asked" => r.stage = "loading" /\ r.key \in Sessions
  /\ mutation \in [running : BOOLEAN, told : Seq(TaskEvents)]
  /\ events \in Seq(Events)
  /\ asked \subseteq Kinds \cup {"catalog"}
  /\ \A a \in answers : AnswerOK(a)
  /\ life \in [key : {NoSession} \cup Sessions, able : BOOLEAN, snap : BOOLEAN]
  /\ page \in Pages /\ base \in Pages /\ known \in Pages
  /\ version \in [rev : Nat, epoch : Nat]
  /\ updates \in Seq(Updates)
  /\ done \in 0..Len(updates)
  /\ count \in [attaches : Nat, actions : Nat, misjudged : BOOLEAN, mixed : BOOLEAN]

\* A reset has been dispatched and not rendered.
Resetting == \E i \in (done + 1)..Len(updates) : updates[i] = Reset

\* The page never shows the scene of one session and the resources of another,
\* and shows nothing of a session it has left, unless a reset waits.
SessionOnly ==
  \/ Resetting
  \/ /\ page.scene.key \in {NoSession, life.key}
     /\ \A k \in Kinds : page.tasks[k] # NoTask => page.tasks[k].key = life.key

\* Nothing is on its way between the backend and the page.
Quiet ==
  /\ events = <<>> /\ asked = {} /\ answers = {} /\ updates = <<>> /\ known = page
  /\ mutation = NoMutation /\ refreshes = {}
  /\ life.snap
  /\ \A k \in Kinds : store[k].task # NoTask => store[k].task.status # "loading"

\* When all is quiet the page shows the catalog the backend has.
QuietCatalog ==
  Quiet /\ catalog.key = life.key /\ ~count.misjudged /\ ~count.mixed
    => page.scene = catalog \/ page.scene = [catalog EXCEPT !.status = "error"]

\* Within a session the page never goes back to an older catalog.
VersionAdvances ==
  [][life' = life /\ ~Resetting
       => ~Below(VersionOf(page'.scene), VersionOf(page.scene))]_vars

\* In the end the page shows no refresh any more, and the catalog of the session
\* whose snapshot is loaded or that its load failed.
SceneSettles ==
  <>[](\/ count.misjudged \/ count.mixed
       \/ /\ page.scene.status # "refreshing"
          /\ life.snap => page.scene.snap \/ page.scene.status = "error")

\* useSceneWorkspaceState.test.ts: the header of the selected object that becomes
\* ready is shown.
ReadyShown ==
  Quiet => \A k \in Kinds :
    store[k].task # NoTask /\ store[k].task.fresh = "fresh"
      => page.tasks[k] = store[k].task /\ ~page.loading[k]
=============================================================================
