------------------------- MODULE SceneMutationQueue -------------------------
(***************************************************************************)
(* The mutation queue of the Scene page (useSceneMutationActions.ts)       *)
(* together with the parts of the page store it drives: the pending        *)
(* counts, the active flag the user asked for, the active flag the game    *)
(* acknowledged, the selection and the inspector tabs.                     *)
(*                                                                         *)
(* The queue lives in refs and changes at once; the page state changes     *)
(* only when React evaluates the updater functions the code dispatched,    *)
(* in the order of their dispatch.  "updates" is the sequence of the       *)
(* updaters that wait, "page" the state the evaluated ones have produced.  *)
(* Taking the updaters one at a time lets every render boundary happen.    *)
(*                                                                         *)
(* A mutation goes through Request, Executes, Answers and Completes (or    *)
(* Fails); the page is idle when "current" is None.  Of the mutation       *)
(* state, "operation", "task" and "errorMessage" are only displayed and    *)
(* are left out.                                                           *)
(***************************************************************************)
EXTENDS Integers, Sequences, FiniteSets

CONSTANTS
  Objects,         \* addresses of scene objects
  NoObject,        \* the null address
  Opened,          \* the object whose tab the browser's storage restores, or null
  Ops,             \* the operations the user calls
  MaxRequests,     \* bound: calls of runMutation
  MaxActions,      \* bound: those calls, clicks on tabs and nodes and session
                   \* changes, all together
  MaxUpdates,      \* bound: updaters that wait for React at once
  MaxNews          \* bound: header task states in flight at once

\* The fifteen operations of the page, those with the same follow-up as one:
\* "edit" is rename, set-tag, set-layer, set-hide-flags, set-transform,
\* set-behaviour-enabled, add-component and remove-component; "structure" is
\* create-child, create-root, duplicate and reparent.
AllOps == {"set-active", "edit", "structure", "delete", "load-scene"}

ASSUME ConstantsAssumption ==
  /\ NoObject \notin Objects
  /\ Opened \in Objects \cup {NoObject}
  /\ Ops \subseteq AllOps
  /\ MaxRequests \in Nat
  /\ MaxActions \in Nat
  /\ MaxUpdates \in Nat
  /\ MaxNews \in Nat

VARIABLES
  queue,     \* mutationQueueRef: ids of the waiting mutations
  current,   \* currentMutationRef: the id being processed, or None
  phase,     \* where processMutationQueue waits: for run or for afterSuccess
  requests,  \* the mutations asked for so far, by id
  promise,   \* how the promise of each id has settled
  updates,   \* dispatched updaters React has not evaluated yet
  page,      \* the page state
  game,      \* the active flag of each object in the game
  store,     \* the header the backend holds of each object
  reading,   \* objects whose header a backend worker is reading
  news,      \* header task states on their way to the page
  disturbed, \* history: objects that are gone, that a failed call changed, or whose
             \* flag a call changed while a header with the old one was on its way
  actions    \* clicks and session changes so far

vars == <<queue, current, phase, requests, promise, updates, page, game,
          store, reading, news, disturbed, actions>>

\* The bound on what waits for React: no more is dispatched until it renders.
MayDispatch == Len(updates) < MaxUpdates

\* The bound on what the user does and on session changes.
MayAct ==
  Len(requests) + actions.clicks + actions.resets < MaxActions

\* The bound on the header events in flight.
MayPublish == Len(news) < MaxNews

Ids == 1..MaxRequests
None == 0
NoFlag == "none"
Active == {"on", "off"}   \* activeSelf: true, false
NoIntent == [status |-> NoFlag]
Intents == [desired : Active, status : {"queued", "running"}] \cup {NoIntent}
NoHeader == [status |-> NoFlag]
Headers == [active : Active, fresh : BOOLEAN] \cup {NoHeader}

Op(id) == requests[id].op
Object(id) == requests[id].object
Waiting == {queue[i] : i \in DOMAIN queue}
Outstanding == Waiting \cup ({current} \ {None})
SetActives(o) == {id \in Outstanding : Op(id) = "set-active" /\ Object(id) = o}

Updates ==
     [kind : {"queued"}, id : Ids, replaced : BOOLEAN]
  \cup [kind : {"running", "acked", "settled"}, id : Ids]
  \cup [kind : {"selected"}, object : Objects \cup {NoObject}]
  \cup [kind : {"opened"}, object : Objects]
  \cup [kind : {"fronted"}, index : Nat \ {0}]
  \cup [kind : {"header"}, object : Objects, header : Headers]
  \cup [kind : {"reset"}]

\* The state of a page without a mutation; tabs and selection survive a reset.
EmptyPage(selected, tabs, active) ==
  [pending  |-> [op \in AllOps |-> 0],
   loading  |-> FALSE,
   intent   |-> [o \in Objects |-> NoIntent],
   override |-> [o \in Objects |-> NoFlag],
   header   |-> [o \in Objects |-> NoHeader],
   selected |-> selected,
   tabs     |-> tabs,
   active   |-> active]     \* index of the active tab from 1; 0 is the code's -1

TypeOK ==
  /\ queue \in Seq(Ids)
  /\ current \in Ids \cup {None}
  /\ phase \in {"idle", "run", "executed", "load"}
  /\ requests \in Seq([op : Ops, object : Objects \cup {NoObject}, active : Active])
  /\ Len(requests) <= MaxRequests
  /\ promise \in [Ids -> {"none", "open", "result", "null", "error"}]
  /\ updates \in Seq(Updates)
  /\ page \in [pending  : [AllOps -> Nat],
               loading  : BOOLEAN,
               intent   : [Objects -> Intents],
               override : [Objects -> Active \cup {NoFlag}],
               header   : [Objects -> Headers],
               selected : Objects \cup {NoObject},
               tabs     : Seq(Objects),
               active   : Nat]
  /\ game \in [Objects -> Active]
  /\ store \in [Objects -> Headers]
  /\ reading \subseteq Objects
  /\ news \in Seq([object : Objects, header : Headers])
  /\ disturbed \subseteq Objects
  /\ actions \in [clicks : Nat, resets : Nat]

\* The page has shown every object before the user calls the first mutation.
Init ==
  /\ queue = <<>>
  /\ current = None
  /\ phase = "idle"
  /\ requests = <<>>
  /\ promise = [id \in Ids |-> "none"]
  /\ updates = <<>>
  /\ game = [o \in Objects |-> "on"]
  /\ store = [o \in Objects |-> [active |-> game[o], fresh |-> TRUE]]
  /\ page = [(IF Opened = NoObject THEN EmptyPage(NoObject, <<>>, 0)
                                   ELSE EmptyPage(Opened, <<Opened>>, 1))
               EXCEPT !.header = store]
  /\ reading = {}
  /\ news = <<>>
  /\ disturbed = {}
  /\ actions = [clicks |-> 0, resets |-> 0]

-----------------------------------------------------------------------------
\* The queue.

\* Mutant of Replaceable: the operation is compared, the object is not.
ReplaceableAnyObject(op, object) ==
  {i \in DOMAIN queue : op = "set-active" /\ Op(queue[i]) = op}
\* Mutant of Replaceable: every call joins the queue.
ReplaceableNever(op, object) == {}
\* Positions of the waiting set-active calls for the object of a request: the
\* only operation that carries an active intent and may be replaced.
Replaceable(op, object) ==
  {i \in DOMAIN queue : /\ op = "set-active"
                        /\ Op(queue[i]) = op
                        /\ Object(queue[i]) = object}

LastOf(positions) == CHOOSE i \in positions : \A j \in positions : j <= i

\* Mutant of Proceed: the last entry is taken.
ProceedPops(q) ==
  IF q = <<>>
    THEN /\ queue' = <<>>
         /\ current' = None
         /\ phase' = "idle"
    ELSE /\ queue' = SubSeq(q, 1, Len(q) - 1)
         /\ current' = q[Len(q)]
         /\ phase' = "run"
\* The head of the loop: take the next entry and start it, or stop.
Proceed(q) ==
  IF q = <<>>
    THEN /\ queue' = <<>>
         /\ current' = None
         /\ phase' = "idle"
    ELSE /\ queue' = Tail(q)
         /\ current' = Head(q)
         /\ phase' = "run"

Running(q) == IF q = <<>> THEN <<>> ELSE <<[kind |-> "running", id |-> Head(q)]>>

\* Every operation but create-root and load-scene is called on the selection
\* and returns at once when there is none.
Targets(op) ==
  CASE op = "load-scene" -> {NoObject}
    [] op = "structure"  -> {page.selected, NoObject}
    [] OTHER             -> {page.selected} \ {NoObject}

\* The new call waits for its answer; the one it replaces gets null.
Promised(id, same) ==
  [i \in Ids |-> IF i = id THEN "open"
                 ELSE IF same # {} /\ i = queue[LastOf(same)] THEN "null"
                 ELSE promise[i]]

\* runMutation: the entry replaces the last waiting one with the same intent
\* target, whose promise resolves to null, or joins the queue; when nothing is
\* being processed the loop takes it in the same call.
Request(op, object, active) ==
  LET id == Len(requests) + 1
      same == Replaceable(op, object)
      replaced == same # {}
      q == IF replaced THEN [queue EXCEPT ![LastOf(same)] = id]
                       ELSE Append(queue, id)
      queued == <<[kind |-> "queued", id |-> id, replaced |-> replaced]>>
  IN /\ id <= MaxRequests
     /\ MayAct
     /\ MayDispatch
     /\ object \in Targets(op)
     /\ requests' = Append(requests, [op |-> op, object |-> object, active |-> active])
     /\ promise' = Promised(id, same)
     /\ IF current = None
          THEN /\ Proceed(q)
               /\ updates' = updates \o queued \o Running(q)
          ELSE /\ queue' = q
               /\ updates' = updates \o queued
               /\ UNCHANGED <<current, phase>>
     /\ UNCHANGED <<page, game, store, reading, news, disturbed, actions>>

\* A set-active changes the flag.
Changed(id) == IF Op(id) = "set-active" THEN [game EXCEPT ![Object(id)] = requests[id].active]
                                        ELSE game

\* The header of an object once it is invalidated: the same flag, not fresh.
Stale(header) == IF header = NoHeader THEN NoHeader ELSE [header EXCEPT !.fresh = FALSE]

\* The objects that no longer exist afterwards.
Gone(id) == CASE Op(id) = "delete"     -> {Object(id)}
              [] Op(id) = "load-scene" -> Objects
              [] OTHER                 -> {}

\* The objects of which a fresh header is on its way that no longer says what is so.
Contradicted(flags) ==
  {o \in Objects : \E i \in DOMAIN news : /\ news[i].object = o
                                         /\ news[i].header # NoHeader
                                         /\ news[i].header.fresh
                                         /\ news[i].header.active # flags[o]}

\* entry.run() in the backend: the game changes, the header of the object is
\* invalidated (a read in progress is dropped) and published.
Executes ==
  /\ phase = "run"
  /\ MayPublish
  /\ phase' = "executed"
  /\ game' = Changed(current)
  /\ disturbed' = disturbed \cup Gone(current) \cup Contradicted(Changed(current))
  /\ reading' = reading \ {Object(current)}
  /\ LET o == Object(current) IN
     IF o = NoObject
       THEN UNCHANGED <<store, news>>
       ELSE /\ store' = [store EXCEPT ![o] = Stale(@)]
            /\ news' = Append(news, [object |-> o, header |-> Stale(store[o])])
  /\ UNCHANGED <<queue, current, requests, promise, updates, page, actions>>

\* The selection a mutation leaves: the object it changed, an object it made,
\* the parent of the one it deleted.
Preferred(id) ==
  CASE Op(id) = "load-scene" -> {NoObject}
    [] Op(id) = "delete"     -> (Objects \ {Object(id)}) \cup {NoObject}
    [] Op(id) = "structure"  -> Objects
    [] OTHER                 -> {Object(id)}

\* applySceneMutation, then afterSuccess starts to read the headers again.
Answers(object) ==
  /\ phase = "executed"
  /\ MayDispatch
  /\ object \in Preferred(current)
  /\ phase' = "load"
  /\ updates' = updates \o <<[kind |-> "acked", id |-> current],
                             [kind |-> "selected", object |-> object]>>
  /\ reading' = reading \cup ({object} \ {NoObject})
  /\ UNCHANGED <<queue, current, requests, promise, page, game, store, news, disturbed, actions>>

Answered(outcome) == [promise EXCEPT ![current] = outcome]

\* The end of an iteration: the completion updater, the promise, the next entry.
Settles(outcome) ==
  /\ promise' = Answered(outcome)
  /\ updates' = updates \o <<[kind |-> "settled", id |-> current]>> \o Running(queue)
  /\ Proceed(queue)
  /\ UNCHANGED <<requests, page, store, reading, news, actions>>

\* afterSuccess has finished; the loaders it waits for never reject.
Completes ==
  /\ phase = "load"
  /\ MayDispatch
  /\ Settles("result")
  /\ UNCHANGED <<game, disturbed>>

\* run() rejects: before it changed the game, or (changed) after it did, and
\* then the backend invalidates nothing.
Fails(changed) ==
  /\ phase = "run"
  /\ MayDispatch
  /\ game' = IF changed THEN Changed(current) ELSE game
  /\ disturbed' = IF changed THEN disturbed \cup ({Object(current)} \ {NoObject}) ELSE disturbed
  /\ Settles("error")

-----------------------------------------------------------------------------
\* React evaluates the updaters.

Takes(kind) ==
  /\ updates # <<>>
  /\ Head(updates).kind = kind
  /\ updates' = Tail(updates)
  /\ UNCHANGED <<queue, current, phase, requests, promise, game, store, reading, news,
                 disturbed, actions>>

WithIntent(intent, id, status) ==
  IF Op(id) = "set-active"
    THEN [intent EXCEPT ![Object(id)] = [desired |-> requests[id].active, status |-> status]]
    ELSE intent

\* Mutant of ApplyQueued: a call that replaced another is counted too.
ApplyQueuedAlwaysCounts ==
  /\ Takes("queued")
  /\ LET u == Head(updates) IN
     page' = [page EXCEPT !.loading = TRUE,
                          !.pending[Op(u.id)] = @ + 1,
                          !.intent = WithIntent(@, u.id, "queued")]
\* The updater of runMutation; a replaced entry is already counted.
ApplyQueued ==
  /\ Takes("queued")
  /\ LET u == Head(updates) IN
     page' = [page EXCEPT !.loading = TRUE,
                          !.pending[Op(u.id)] = IF u.replaced THEN @ ELSE @ + 1,
                          !.intent = WithIntent(@, u.id, "queued")]

ApplyRunning ==
  /\ Takes("running")
  /\ page' = [page EXCEPT !.loading = TRUE,
                          !.intent = WithIntent(@, Head(updates).id, "running")]

\* Mutant of Reconciled: a flag still waiting is forgotten.
ReconciledAlwaysClears(intent, id) ==
  IF Op(id) # "set-active" THEN intent ELSE [intent EXCEPT ![Object(id)] = NoIntent]
\* reconcileActiveIntentAfterCompletion reads the queue when the updater is
\* evaluated, not when the mutation completed.
Reconciled(intent, id) ==
  LET same == {i \in DOMAIN queue : Op(queue[i]) = "set-active" /\ Object(queue[i]) = Object(id)}
  IN IF Op(id) # "set-active" THEN intent
     ELSE IF same = {} THEN [intent EXCEPT ![Object(id)] = NoIntent]
     ELSE WithIntent(intent, queue[LastOf(same)], "queued")

\* decrementPendingOperations stops at zero.
Decremented(pending, op) == [pending EXCEPT ![op] = IF @ = 0 THEN 0 ELSE @ - 1]

ApplySettled ==
  /\ Takes("settled")
  /\ LET id == Head(updates).id
         pending == Decremented(page.pending, Op(id))
     IN page' = [page EXCEPT !.pending = pending,
                             !.loading = \E op \in AllOps : pending[op] > 0,
                             !.intent = Reconciled(@, id)]

\* The acknowledged flag overrides the header until a fresh header agrees.
ApplyAcked ==
  /\ Takes("acked")
  /\ LET id == Head(updates).id IN
     page' = [page EXCEPT !.override =
                CASE Op(id) = "load-scene" -> [o \in Objects |-> NoFlag]
                  [] Op(id) = "set-active" -> [@ EXCEPT ![Object(id)] = requests[id].active]
                  [] Op(id) = "delete"     -> [@ EXCEPT ![Object(id)] = NoFlag]
                  [] OTHER                 -> @]

ApplySelected ==
  /\ Takes("selected")
  /\ page' = [page EXCEPT !.selected = Head(updates).object]

\* Mutant of ClearsOverride: any header of the object ends the override.
ClearsOverrideAlways(o, header) == TRUE
\* applyHeaderTaskState drops an override that a ready and fresh header equals.
ClearsOverride(o, header) ==
  /\ header # NoHeader
  /\ header.fresh
  /\ header.active = page.override[o]

ApplyHeader ==
  /\ Takes("header")
  /\ LET u == Head(updates) IN
     page' = [page EXCEPT !.header[u.object] = u.header,
                          !.override[u.object] =
                             IF ClearsOverride(u.object, u.header) THEN NoFlag ELSE @]

ApplyReset ==
  /\ Takes("reset")
  /\ page' = EmptyPage(page.selected, page.tabs, page.active)

\* Mutant of TabsOf: the object is not looked for.
TabsOfNone(o) == {}
TabsOf(o) == {i \in DOMAIN page.tabs : page.tabs[i] = o}

\* The tab updater of openTabForSceneObject appends the tab unless it is there
\* and calls the setters of the index and of the selection from inside the
\* updater: React evaluates those after everything already dispatched.
ApplyOpened ==
  /\ updates # <<>>
  /\ Head(updates).kind = "opened"
  /\ LET o == Head(updates).object
         existing == TabsOf(o)
         index == IF existing = {} THEN Len(page.tabs) + 1 ELSE CHOOSE i \in existing : TRUE
     IN /\ page' = [page EXCEPT !.tabs = IF existing = {} THEN Append(@, o) ELSE @]
        /\ updates' = Tail(updates) \o <<[kind |-> "fronted", index |-> index],
                                         [kind |-> "selected", object |-> o]>>
  /\ UNCHANGED <<queue, current, phase, requests, promise, game, store, reading, news,
                 disturbed, actions>>

ApplyFronted ==
  /\ Takes("fronted")
  /\ page' = [page EXCEPT !.active = Head(updates).index]

Render == \/ ApplyQueued \/ ApplyRunning \/ ApplySettled \/ ApplyAcked
          \/ ApplySelected \/ ApplyHeader \/ ApplyReset \/ ApplyOpened \/ ApplyFronted

-----------------------------------------------------------------------------
\* The user, the backend and the session.

Clicks ==
  /\ MayAct
  /\ actions' = [actions EXCEPT !.clicks = @ + 1]
  /\ UNCHANGED <<queue, current, phase, requests, promise, game, store, reading, news, disturbed>>

\* A hit of the mouse picker, or a node opened in the tree.
OpenTab(o) ==
  /\ Clicks
  /\ MayDispatch
  /\ updates' = Append(updates, [kind |-> "opened", object |-> o])
  /\ UNCHANGED page

\* The tab in front when one is closed: the one before it if it was in front.
FrontAfter(index, next) ==
  IF next = <<>> THEN 0
  ELSE IF page.active >= index /\ page.active > 1 THEN page.active - 1
  ELSE page.active

\* A click is flushed before the next one: it finds everything rendered.
CloseTab(index) ==
  /\ Clicks
  /\ updates = <<>>
  /\ index \in DOMAIN page.tabs
  /\ LET next == SubSeq(page.tabs, 1, index - 1) \o SubSeq(page.tabs, index + 1, Len(page.tabs))
         active == FrontAfter(index, next)
     IN page' = [page EXCEPT !.tabs = next,
                             !.active = active,
                             !.selected = IF next = <<>> THEN NoObject ELSE next[active]]
  /\ UNCHANGED updates

SetActiveTab(index) ==
  /\ Clicks
  /\ updates = <<>>
  /\ index \in DOMAIN page.tabs
  /\ page' = [page EXCEPT !.active = index, !.selected = page.tabs[index]]
  /\ UNCHANGED updates

\* A node of the tree, or a child in the inspector, selects without a tab.
Select(o) ==
  /\ Clicks
  /\ updates = <<>>
  /\ page' = [page EXCEPT !.selected = o]
  /\ UNCHANGED updates

ReadHeader(o) ==
  /\ o \in reading
  /\ MayPublish
  /\ reading' = reading \ {o}
  /\ LET header == [active |-> game[o], fresh |-> TRUE]
     IN /\ store' = [store EXCEPT ![o] = header]
        /\ news' = Append(news, [object |-> o, header |-> header])
  /\ UNCHANGED <<queue, current, phase, requests, promise, updates, page, game,
                 disturbed, actions>>

HeaderArrives ==
  /\ news # <<>>
  /\ MayDispatch
  /\ news' = Tail(news)
  /\ updates' = Append(updates, [kind |-> "header", object |-> Head(news).object,
                                 header |-> Head(news).header])
  /\ UNCHANGED <<queue, current, phase, requests, promise, page, game, store, reading,
                 disturbed, actions>>

\* The session changed: what the old one sent is no longer accepted; the queue
\* is kept.
SessionChanges ==
  /\ MayAct
  /\ MayDispatch
  /\ actions' = [actions EXCEPT !.resets = @ + 1]
  /\ updates' = Append(updates, [kind |-> "reset"])
  /\ store' = [o \in Objects |-> NoHeader]
  /\ reading' = {}
  /\ news' = <<>>
  /\ disturbed' = Objects
  /\ UNCHANGED <<queue, current, phase, requests, promise, page, game>>

\* Nothing is left to do: the calls the bounds allow have been made and settled.
Finished ==
  /\ current = None
  /\ updates = <<>>
  /\ news = <<>>
  /\ reading = {}
  /\ UNCHANGED vars

Next ==
  \/ \E op \in Ops, o \in Objects \cup {NoObject}, active \in Active :
       Request(op, o, active)
  \/ Executes
  \/ \E o \in Objects \cup {NoObject} : Answers(o)
  \/ Completes
  \/ \E changed \in BOOLEAN : Fails(changed)
  \/ Render
  \/ \E o \in Objects : \/ OpenTab(o) \/ Select(o) \/ ReadHeader(o)
  \/ \E i \in DOMAIN page.tabs : CloseTab(i) \/ SetActiveTab(i)
  \/ HeaderArrives
  \/ SessionChanges
  \/ Finished

Spec == Init /\ [][Next]_vars

\* Every backend call answers or rejects and React renders what was dispatched.
Fairness ==
  /\ WF_vars(Executes \/ \E changed \in BOOLEAN : Fails(changed))
  /\ WF_vars(\E o \in Objects \cup {NoObject} : Answers(o))
  /\ WF_vars(Completes)
  /\ WF_vars(Render)
  /\ WF_vars(HeaderArrives)

FairSpec == Spec /\ Fairness
-----------------------------------------------------------------------------
\* Every promise runMutation handed out is open exactly while its mutation
\* waits or is being processed, no mutation is in two places, and only a waiting
\* call for the same object's active flag was answered with null.
PromisesAccounted ==
  /\ \A id \in Ids : promise[id] = "open" <=> id \in Outstanding
  /\ \A i, j \in DOMAIN queue : i # j => queue[i] # queue[j]
  /\ current \notin Waiting
  /\ \A id \in Ids : promise[id] = "null" =>
       \E later \in DOMAIN requests : /\ later > id
                                      /\ Op(later) = "set-active"
                                      /\ Op(id) = "set-active"
                                      /\ Object(later) = Object(id)

\* The queue keeps only the latest active flag the user asked for of an object
\* (useSceneWorkspaceState.test.ts:1226): whatever waits is the last call made
\* for the object, so the game ends with the flag the user asked for last.
LatestFlagWaits ==
  \A i \in DOMAIN queue : Op(queue[i]) = "set-active" =>
    \A later \in DOMAIN requests :
      (Op(later) = "set-active" /\ Object(later) = Object(queue[i])) => later <= queue[i]

\* The counts that disable the inspector's controls: once React has evaluated
\* everything, each operation is pending as often as it is outstanding and the
\* page is loading exactly while work is left.  After a session change the
\* counts start at zero while the queue goes on: then they may be lower, never
\* higher, and loading still ends with the work.
PendingCounted ==
  updates = <<>> =>
    /\ \A op \in AllOps :
         page.pending[op] <= Cardinality({id \in Outstanding : Op(id) = op})
    /\ page.loading => Outstanding # {}
    /\ actions.resets = 0 =>
         /\ \A op \in AllOps :
              page.pending[op] = Cardinality({id \in Outstanding : Op(id) = op})
         /\ Outstanding # {} => page.loading

\* The toggle shows what the user asked for last: an intent is there exactly
\* while a call for the object's flag is outstanding, with the flag of the
\* latest such call and "running" only when that call runs.
IntentIsLatest ==
  updates = <<>> => \A o \in Objects :
    /\ SetActives(o) = {} => page.intent[o] = NoIntent
    /\ (SetActives(o) # {} /\ page.intent[o] = NoIntent) => actions.resets > 0
    /\ page.intent[o] # NoIntent =>
         \E id \in SetActives(o) :
            /\ \A other \in SetActives(o) : other <= id
            /\ page.intent[o].desired = requests[id].active
            /\ page.intent[o].status = "running" <=> id = current

\* The flag the inspector shows: intent, else override, else header.
Shown(o) ==
  IF page.intent[o] # NoIntent THEN page.intent[o].desired
  ELSE IF page.override[o] # NoFlag THEN page.override[o]
  ELSE page.header[o].active

\* "Canonical active truth" (useSceneWorkspaceState.test.ts:1293): with no call for
\* an object outstanding the inspector shows the flag the object has in the game,
\* even while the header is a retained one or still being read.  Excepted are objects
\* that are gone, that a call changed before it failed, and whose flag a call changed
\* while a fresh header with the other flag was on its way: such a header may agree
\* with a later override by chance, end it, and the stale ones behind it are shown.
ShowsGame ==
  \A o \in Objects \ disturbed :
    (/\ updates = <<>>
     /\ page.header[o] # NoHeader
     /\ \A id \in Outstanding : Object(id) # o)
      => Shown(o) = game[o]

\* The tab in front is one of the tabs, and there is one when there are tabs.
TabsConsistent ==
  /\ \A i, j \in DOMAIN page.tabs : i # j => page.tabs[i] # page.tabs[j]
  /\ (\A i \in DOMAIN updates : updates[i].kind # "fronted") =>
       /\ page.active \in {0} \cup DOMAIN page.tabs
       /\ page.active = 0 <=> page.tabs = <<>>

\* The queue with its replacements and failures is one of MutationCalls: whatever
\* fails, is replaced or happens to the session, calls run one at a time and in the
\* order they were asked but for the place a flag inherits, and nothing a user asked
\* for waits for ever.
Promises == INSTANCE MutationCalls WITH asked <- requests, answer <- promise,
              running <- current, MaxCalls <- MaxRequests,
              Calls <- [op : Ops, object : Objects \cup {NoObject}, active : Active]
CallsHold == Promises!CallsSpec
=============================================================================
