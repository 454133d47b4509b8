---------------------- MODULE SceneChildrenTasks_proofs ----------------------
(***************************************************************************)
(* Theorems about SceneChildrenTasks, for every set of parents and session *)
(* keys and every value of the bounds.                                     *)
(***************************************************************************)
EXTENDS SceneChildrenTasks, SequenceTheorems, TLAPS

-----------------------------------------------------------------------------
(* What the store writes into a task: the type of the result and the       *)
(* fields it leaves alone.                                                 *)
LEMMA DefaultsType ==
    /\ NoTask \in Task /\ NoEntry \in Entry /\ NoPage \in Page
    /\ NoChild \in Child /\ NoMutation \in Mutation
BY DEF NoTask, Task, NoEntry, Entry, NoPage, Page, NoChild, Child, NoMutation, Mutation,
       Keys, Status, Freshness, Children

LEMMA FirstTaskType ==
    ASSUME NEW key \in Keys
    PROVE  /\ FirstTask(key) \in Task
           /\ FirstTask(key).id = 1 /\ FirstTask(key).epoch = 0 /\ FirstTask(key).rev = 1
           /\ FirstTask(key).session = key /\ FirstTask(key).status = "loading"
           /\ FirstTask(key).children = <<>>
BY DefaultsType DEF FirstTask, NoTask, Task, Status

LEMMA NewTaskType ==
    ASSUME TypeOK, NEW p \in Parents, NEW id \in Nat, NEW rev \in Nat
    PROVE  /\ NewTask(p, id, rev) \in Task
           /\ NewTask(p, id, rev).id = id /\ NewTask(p, id, rev).rev = rev
           /\ NewTask(p, id, rev).epoch = mutationEpoch
           /\ NewTask(p, id, rev).session = activeSession
           /\ NewTask(p, id, rev).status = "loading"
           /\ NewTask(p, id, rev).children = tasks[p].children
BY DEF TypeOK, NewTask, Task, Status, Freshness, HasRetained

LEMMA ServedType ==
    ASSUME NEW t \in Task, NEW c \in Children
    PROVE  /\ Served(t, c) \in Task
           /\ Served(t, c).id = t.id /\ Served(t, c).epoch = t.epoch
           /\ Served(t, c).rev = t.rev /\ Served(t, c).session = t.session
           /\ Served(t, c).children = c /\ Served(t, c).status = "ready"
BY DEF Served, Task, Status, Freshness

LEMMA AbandonedType ==
    ASSUME NEW t \in Task, NEW rev \in Nat
    PROVE  /\ Abandoned(t, rev) \in Task
           /\ Abandoned(t, rev).id = t.id /\ Abandoned(t, rev).epoch = t.epoch
           /\ Abandoned(t, rev).rev = rev /\ Abandoned(t, rev).session = t.session
           /\ Abandoned(t, rev).children = t.children
           /\ Abandoned(t, rev).status \in {"ready", "cancelled"}
BY DEF Abandoned, Task, Status, Freshness, ReadyOrCancelled, Retained, HasRetained

LEMMA AppliedType ==
    ASSUME NEW t \in Task, NEW offset \in Nat, NEW page \in Page, NEW rev \in Nat
    PROVE  LET u == Applied(t, offset, page, rev)
           IN  /\ u \in Task
               /\ u.id = t.id /\ u.epoch = t.epoch /\ u.rev = rev /\ u.session = t.session
               /\ u.status \in {"loading", "ready"}
               /\ u.status = "loading" <=> page.more
<1>1. /\ page.items \in Children /\ page.more \in BOOLEAN
      /\ (IF offset = 0 THEN page.items ELSE t.children \o page.items) \in Children
  BY DEF Page, Children, Task
<1>2. CASE page.more
  BY <1>1, <1>2 DEF Applied, Task, Status, Freshness
<1>3. CASE ~page.more
  BY <1>1, <1>3 DEF Applied, Task, Status, Freshness
<1> QED
  BY <1>1, <1>2, <1>3

LEMMA AppliedChildren ==
    ASSUME NEW t \in Task, NEW offset \in Nat, NEW page \in Page, NEW rev \in Nat
    PROVE  Applied(t, offset, page, rev).children =
               IF offset = 0 THEN page.items ELSE t.children \o page.items
BY DEF Applied, Task

LEMMA CompletedType ==
    ASSUME NEW t \in Task, NEW rev \in Nat
    PROVE  /\ Completed(t, rev) \in Task
           /\ Completed(t, rev).id = t.id /\ Completed(t, rev).epoch = t.epoch
           /\ Completed(t, rev).rev = rev /\ Completed(t, rev).session = t.session
           /\ Completed(t, rev).children = t.children /\ Completed(t, rev).status = "ready"
BY DEF Completed, Task, Status, Freshness

LEMMA FailedType ==
    ASSUME NEW t \in Task, NEW rev \in Nat
    PROVE  /\ Failed(t, rev) \in Task
           /\ Failed(t, rev).id = t.id /\ Failed(t, rev).epoch = t.epoch
           /\ Failed(t, rev).rev = rev /\ Failed(t, rev).session = t.session
           /\ Failed(t, rev).children = t.children /\ Failed(t, rev).status = "error"
BY DEF Failed, Task, Status, Freshness, HasRetained

LEMMA InvalidatedType ==
    ASSUME mutationEpoch \in Nat, NEW t \in Task, NEW rev \in Nat
    PROVE  /\ Invalidated(t, rev) \in Task
           /\ Invalidated(t, rev).id = t.id /\ Invalidated(t, rev).epoch = mutationEpoch + 1
           /\ Invalidated(t, rev).rev = rev /\ Invalidated(t, rev).session = t.session
           /\ Invalidated(t, rev).children = t.children
           /\ Invalidated(t, rev).status \in {"ready", "cancelled"}
<1>1. /\ ReadyOrCancelled(t) \in {"ready", "cancelled"} /\ Retained(t) \in Freshness
      /\ mutationEpoch + 1 \in Nat
  BY DEF ReadyOrCancelled, Retained, Freshness
<1>2. Invalidated(t, rev) \in Task
  BY <1>1 DEF Invalidated, Task, Status
<1> QED
  BY <1>1, <1>2 DEF Invalidated, Task

-----------------------------------------------------------------------------
(* What happens to a worker.                                               *)
LEMMA NewWorkerType ==
    ASSUME NEW p \in Parents, NEW t \in Task, NEW inc \in Nat
    PROVE  /\ NewWorker(p, t, inc) \in Worker
           /\ NewWorker(p, t, inc).parent = p /\ NewWorker(p, t, inc).id = t.id
           /\ NewWorker(p, t, inc).epoch = t.epoch
           /\ NewWorker(p, t, inc).session = t.session
           /\ NewWorker(p, t, inc).inc = inc /\ NewWorker(p, t, inc).pc = "load"
           /\ NewWorker(p, t, inc).offset = 0 /\ NewWorker(p, t, inc).page = NoPage
BY DefaultsType DEF NewWorker, Worker, Task

LEMMA PageReadType ==
    ASSUME TypeOK, NEW w \in Worker
    PROVE  /\ PageRead(w) \in Page
           /\ \/ PageRead(w) = NoPage
              \/ Len(PageRead(w).items) = 1 /\ PageRead(w).items[1].page = w.offset
<1> DEFINE n == listing[w.parent].count
           v == listing[w.parent].ver
<1>1. n \in Nat /\ v \in Nat /\ w.offset \in Nat
  BY DEF TypeOK, Worker
<1>2. [page |-> w.offset, ver |-> v] \in Item
  BY <1>1 DEF Item
<1>3. CASE w.offset < n
  BY <1>1, <1>2, <1>3 DEF PageRead, Page, Children
<1>4. CASE ~(w.offset < n)
  <2>1. (w.offset + 1 < n) = FALSE
    BY <1>1, <1>4
  <2>2. PageRead(w) = NoPage
    BY <1>4, <2>1 DEF PageRead, NoPage
  <2> QED
    BY <2>2, DefaultsType
<1> QED
  BY <1>3, <1>4

LEMMA LoadedType ==
    ASSUME NEW w \in Worker, NEW q \in Page
    PROVE  LET v == [w EXCEPT !.pc = "apply", !.page = q]
           IN  /\ v \in Worker /\ v.pc = "apply" /\ v.page = q
               /\ v.parent = w.parent /\ v.id = w.id /\ v.epoch = w.epoch
               /\ v.session = w.session /\ v.inc = w.inc /\ v.offset = w.offset
BY DEF Worker

LEMMA FailingType ==
    ASSUME NEW w \in Worker
    PROVE  LET v == [w EXCEPT !.pc = "fail"]
           IN  /\ v \in Worker /\ v.pc = "fail"
               /\ v.parent = w.parent /\ v.id = w.id /\ v.epoch = w.epoch
               /\ v.session = w.session /\ v.inc = w.inc /\ v.offset = w.offset
BY DEF Worker

LEMMA AdvancedType ==
    ASSUME NEW w \in Worker
    PROVE  /\ Advanced(w) \in Worker
           /\ Advanced(w).parent = w.parent /\ Advanced(w).id = w.id
           /\ Advanced(w).epoch = w.epoch /\ Advanced(w).session = w.session
           /\ Advanced(w).inc = w.inc /\ Advanced(w).offset = w.offset + 1
           /\ Advanced(w).page = NoPage
           /\ w.page.more => Advanced(w).pc = "load"
           /\ ~w.page.more => Advanced(w).pc = "complete"
<1>1. w.page.more \in BOOLEAN /\ w.offset + 1 \in Nat /\ NoPage \in Page
  BY DefaultsType DEF Worker, Page
<1>2. CASE w.page.more
  BY <1>1, <1>2 DEF Advanced, Worker
<1>3. CASE ~w.page.more
  BY <1>1, <1>3 DEF Advanced, Worker
<1> QED
  BY <1>1, <1>2, <1>3

LEMMA TypeInit == Init => TypeOK
BY DefaultsType, BoundAssumption DEF Init, TypeOK, Keys, NoRefresh, Worker

-----------------------------------------------------------------------------
(* Every action preserves the types.                                       *)
LEMMA TypeResetStore == ASSUME TypeOK, ResetStore PROVE
    /\ activeSession' \in Keys /\ tasks' \in [Parents -> Task] /\ cache' \in [Parents -> Entry]
    /\ nextTaskId' \in Nat /\ mutationEpoch' \in Nat /\ resourceRevision' \in Nat
    /\ incarnation' \in Nat /\ foreign' \subseteq Parents
BY DefaultsType DEF ResetStore, NextIncarnation, TypeOK, Keys

LEMMA TypeStart ==
    ASSUME TypeOK, NEW p \in Parents,
           StartInNewSession(p) \/ StartFromCache(p) \/ StartAndSpawn(p) \/ Cancel(p)
    PROVE  TypeOK'
<1>1. CASE StartInNewSession(p)
  <2>1. FirstTask(attached) \in Task /\ NextIncarnation \in Nat
    BY FirstTaskType DEF TypeOK, NextIncarnation
  <2>2. /\ tasks' \in [Parents -> Task] /\ cache' \in [Parents -> Entry]
        /\ workers' \subseteq Worker
    BY <1>1, <2>1, DefaultsType, NewWorkerType DEF StartInNewSession, TypeOK
  <2> QED
    BY <1>1, <2>1, <2>2 DEF StartInNewSession, TypeOK, game
<1>2. CASE StartFromCache(p)
  <2>1. Served(NewTask(p, nextTaskId + 1, resourceRevision + 1), cache[p].children) \in Task
    <3>1. NewTask(p, nextTaskId + 1, resourceRevision + 1) \in Task
      BY NewTaskType DEF TypeOK
    <3>2. cache[p].children \in Children
      BY DEF TypeOK, Entry
    <3> QED
      BY <3>1, <3>2, ServedType
  <2>2. tasks' \in [Parents -> Task]
    BY <1>2, <2>1 DEF StartFromCache, TypeOK
  <2> QED
    BY <1>2, <2>2 DEF StartFromCache, StartGuard, TypeOK, game, history
<1>3. CASE StartAndSpawn(p)
  <2> DEFINE t == NewTask(p, nextTaskId + 1, resourceRevision + 1)
  <2>1. t \in Task
    BY NewTaskType DEF TypeOK
  <2>2. NewWorker(p, t, incarnation) \in Worker
    BY <2>1, NewWorkerType DEF TypeOK
  <2>3. tasks' \in [Parents -> Task] /\ workers' \subseteq Worker
    BY <1>3, <2>1, <2>2 DEF StartAndSpawn, TypeOK
  <2> QED
    BY <1>3, <2>3 DEF StartAndSpawn, StartGuard, TypeOK, game, history
<1>4. CASE Cancel(p)
  <2>1. Abandoned(tasks[p], resourceRevision + 1) \in Task
    BY AbandonedType DEF TypeOK
  <2>2. tasks' \in [Parents -> Task]
    BY <1>4, <2>1 DEF Cancel, TypeOK
  <2> QED
    BY <1>4, <2>2 DEF Cancel, TypeOK, threads, game, history
<1> QED
  BY <1>1, <1>2, <1>3, <1>4

LEMMA TypeWrite ==
    ASSUME TypeOK, NEW w \in workers, NEW t \in Task, Write(w, t)
    PROVE  /\ tasks' \in [Parents -> Task] /\ resourceRevision' \in Nat
           /\ foreign' \subseteq Parents /\ tasks'[w.parent] = t
BY DEF TypeOK, Write, Worker

LEMMA WorkerFields ==
    ASSUME TypeOK, NEW w \in workers
    PROVE  /\ w \in Worker /\ w.parent \in Parents /\ tasks[w.parent] \in Task
           /\ w.offset \in Nat /\ w.page \in Page /\ w.inc \in Nat /\ w.epoch \in Nat
           /\ tasks[w.parent].children \in Children
           /\ resourceRevision + 1 \in Nat
BY DEF TypeOK, Worker, Task

LEMMA TypeWorker ==
    ASSUME TypeOK, NEW w \in workers, WorkerNext(w)
    PROVE  TypeOK'
<1>1. CASE WorkerLoads(w)
  <2>1. [w EXCEPT !.pc = "apply", !.page = PageRead(w)] \in Worker
    <3>1. w \in Worker /\ PageRead(w) \in Page
      BY WorkerFields, PageReadType
    <3> QED BY <3>1, LoadedType
  <2> QED
    BY <1>1, <2>1 DEF WorkerLoads, Step, TypeOK, store, game, history
<1>2. CASE WorkerLoadFails(w)
  <2>1. [w EXCEPT !.pc = "fail"] \in Worker
    BY WorkerFields, FailingType
  <2> QED
    BY <1>2, <2>1 DEF WorkerLoadFails, Step, TypeOK, store, game, history
<1>3. CASE WorkerApplies(w)
  <2>1. Applied(tasks[w.parent], w.offset, w.page, resourceRevision + 1) \in Task
    BY WorkerFields, AppliedType
  <2>2. Advanced(w) \in Worker
    BY WorkerFields, AdvancedType
  <2>3. /\ tasks' \in [Parents -> Task] /\ resourceRevision' \in Nat /\ foreign' \subseteq Parents
    BY <1>3, <2>1, TypeWrite DEF WorkerApplies
  <2> QED
    BY <1>3, <2>2, <2>3 DEF WorkerApplies, Write, Step, TypeOK, game
<1>4. CASE WorkerCompletes(w)
  <2>1. Completed(tasks[w.parent], resourceRevision + 1) \in Task
    BY WorkerFields, CompletedType
  <2>2. /\ tasks' \in [Parents -> Task] /\ resourceRevision' \in Nat /\ foreign' \subseteq Parents
    BY <1>4, <2>1, TypeWrite DEF WorkerCompletes
  <2>3. cache' \in [Parents -> Entry]
    BY <1>4, WorkerFields DEF WorkerCompletes, TypeOK, Entry
  <2> QED
    BY <1>4, <2>2, <2>3 DEF WorkerCompletes, Write, Exit, TypeOK, game
<1>5. CASE WorkerFails(w)
  <2>1. Failed(tasks[w.parent], resourceRevision + 1) \in Task
    BY WorkerFields, FailedType
  <2>2. /\ tasks' \in [Parents -> Task] /\ resourceRevision' \in Nat /\ foreign' \subseteq Parents
    BY <1>5, <2>1, TypeWrite DEF WorkerFails
  <2> QED
    BY <1>5, <2>2 DEF WorkerFails, Write, Exit, TypeOK, game
<1>6. CASE WorkerRejected(w)
  BY <1>6 DEF WorkerRejected, Exit, TypeOK, store, game, history
<1> QED
  BY <1>1, <1>2, <1>3, <1>4, <1>5, <1>6 DEF WorkerNext

MutationNext ==
    \/ \E listed \in SUBSET Parents, child \in ListedChildren \cup {NoChild} :
          MutationExecutes(listed, child)
    \/ MutationChecksSession \/ MutationFails \/ MutationReadsKey
    \/ MutationInvalidates \/ MutationMissesStore

LEMMA TypeMutation == ASSUME TypeOK, MutationNext PROVE TypeOK'
<1>1. ASSUME NEW listed \in SUBSET Parents, NEW child \in ListedChildren \cup {NoChild},
             MutationExecutes(listed, child)
      PROVE  TypeOK'
  <2>1. child \in Child
    BY DefaultsType, BoundAssumption DEF ListedChildren, Child
  <2>2. mutation' \in Mutation
    BY <1>1, <2>1 DEF MutationExecutes, Mutation, Keys
  <2>3. listing' \in [Parents -> [count : Nat, ver : Nat]] /\ gameVersion' \in Nat
    <3>1. PICK count \in [Changed(listed, child) -> 0..MaxPages] :
             listing' = [p \in Parents |->
                           IF p \in Changed(listed, child)
                           THEN [count |-> count[p], ver |-> gameVersion + 1]
                           ELSE listing[p]]
      BY <1>1 DEF MutationExecutes
    <3>2. \A p \in Changed(listed, child) : count[p] \in Nat
      BY BoundAssumption
    <3> QED
      BY <1>1, <3>1, <3>2 DEF MutationExecutes, TypeOK
  <2> QED
    BY <1>1, <2>2, <2>3 DEF MutationExecutes, TypeOK, store, history
<1>2. CASE MutationChecksSession \/ MutationFails \/ MutationReadsKey \/ MutationMissesStore
  <2>1. mutation' \in Mutation
    BY <1>2, DefaultsType DEF MutationChecksSession, MutationReadsKey, MutationFails, MutationMissesStore,
                              Mutation, TypeOK
  <2> QED
    BY <1>2, <2>1 DEF MutationChecksSession, MutationReadsKey, MutationFails, MutationMissesStore,
                      TypeOK, store, game, history
<1>3. CASE MutationInvalidates
  <2>1. mutationEpoch' \in Nat /\ resourceRevision' \in Nat /\ mutation' \in Mutation
    BY <1>3, DefaultsType DEF MutationInvalidates, TypeOK
  <2>2. \A p \in Parents : Invalidated(tasks[p], resourceRevision + 1) \in Task
    BY InvalidatedType DEF TypeOK
  <2>3. tasks' \in [Parents -> Task]
    BY <1>3, <2>2 DEF MutationInvalidates, TypeOK
  <2>4. cache' \in [Parents -> Entry]
    BY <1>3, DefaultsType DEF MutationInvalidates, TypeOK
  <2>5. invalidated' \in [Parents -> Nat]
    BY <1>3 DEF MutationInvalidates, TypeOK
  <2> QED
    BY <1>3, <2>1, <2>3, <2>4, <2>5 DEF MutationInvalidates, TypeOK, game
<1> QED
  BY <1>1, <1>2, <1>3 DEF MutationNext

SystemNext ==
    \/ RefreshBegins \/ RefreshSetsSnapshot \/ RefreshFails \/ RefreshResets
    \/ AttachBegins \/ AttachResets \/ AttachFails
    \/ \E s \in Sessions : AttachCompletes(s)

LEMMA TypeSystem == ASSUME TypeOK, SystemNext PROVE TypeOK'
<1>1. CASE RefreshBegins \/ RefreshSetsSnapshot \/ RefreshFails
  BY <1>1 DEF RefreshBegins, RefreshSetsSnapshot, RefreshFails, TypeOK, NoRefresh, Keys,
              store, game, history
<1>2. CASE RefreshResets
  BY <1>2, TypeResetStore DEF RefreshResets, TypeOK, NoRefresh, Keys, game
<1>3. CASE AttachResets
  BY <1>3, TypeResetStore DEF AttachResets, TypeOK, Keys, game
<1>4. CASE AttachBegins \/ AttachFails \/ \E s \in Sessions : AttachCompletes(s)
  BY <1>4 DEF AttachBegins, AttachFails, AttachCompletes, TypeOK, Keys, store, game, history
<1> QED
  BY <1>1, <1>2, <1>3, <1>4 DEF SystemNext

(* The five groups the proofs split a step into.                           *)
LEMMA NextCases ==
    Next => \/ \E p \in Parents : \/ StartInNewSession(p) \/ StartFromCache(p)
                                  \/ StartAndSpawn(p)     \/ Cancel(p)
            \/ \E w \in workers : WorkerNext(w)
            \/ MutationNext
            \/ SystemNext
BY DEF Next, MutationNext, SystemNext

LEMMA TypeStep == TypeOK /\ [Next]_vars => TypeOK'
<1> SUFFICES ASSUME TypeOK, [Next]_vars PROVE TypeOK'
  OBVIOUS
<1>1. CASE UNCHANGED vars
  BY <1>1 DEF vars, store, threads, game, history, TypeOK
<1>2. CASE Next
  BY <1>2, NextCases, TypeStart, TypeWorker, TypeMutation, TypeSystem
<1> QED
  BY <1>1, <1>2

(* The store, its threads and the recorded history keep their types.       *)
THEOREM TypeCorrect == Spec => []TypeOK
BY TypeInit, TypeStep, PTL DEF Spec

-----------------------------------------------------------------------------
(* What a worker does to the store: a step is either quiet, or heard and   *)
(* then writes a task t of the same id, epoch and session.                 *)
Quiet == UNCHANGED <<activeSession, tasks, cache, nextTaskId, mutationEpoch, resourceRevision,
                     incarnation, foreign>>

Heard(w, t) ==
    /\ Matches(w) /\ Write(w, t)
    /\ t.id = tasks[w.parent].id /\ t.epoch = tasks[w.parent].epoch
    /\ t.session = tasks[w.parent].session
    /\ t.rev = resourceRevision + 1 /\ t.status # "none"

LEMMA AppliedHeard ==
    ASSUME TypeOK, NEW w \in workers, WorkerApplies(w)
    PROVE  LET t == Applied(tasks[w.parent], w.offset, w.page, resourceRevision + 1)
           IN  t \in Task /\ Heard(w, t) /\ (t.status = "loading" <=> w.page.more)
<1> DEFINE old == tasks[w.parent]
           off == w.offset
           page == w.page
           rev == resourceRevision + 1
           t == Applied(old, off, page, rev)
<1>1. old \in Task /\ off \in Nat /\ page \in Page /\ rev \in Nat
  BY WorkerFields
<1>2. Matches(w) /\ Write(w, t)
  BY DEF WorkerApplies
<1> HIDE DEF old, off, page, rev
<1>3. /\ t \in Task
      /\ t.id = old.id /\ t.epoch = old.epoch /\ t.rev = rev /\ t.session = old.session
      /\ t.status \in {"loading", "ready"}
      /\ t.status = "loading" <=> page.more
  BY <1>1, AppliedType
<1> HIDE DEF t
<1>4. Heard(w, t)
  BY <1>2, <1>3 DEF Heard, old, rev
<1> QED
  BY <1>3, <1>4 DEF old, off, page, rev, t

LEMMA LastHeard ==
    ASSUME TypeOK, NEW w \in workers, WorkerCompletes(w) \/ WorkerFails(w)
    PROVE  \E t \in Task : /\ Heard(w, t) /\ Exit(w) /\ t.status # "loading"
                           /\ t.children = tasks[w.parent].children
<1> DEFINE c == Completed(tasks[w.parent], resourceRevision + 1)
           f == Failed(tasks[w.parent], resourceRevision + 1)
<1>1. CASE WorkerCompletes(w)
  <2>1. /\ c \in Task /\ c.id = tasks[w.parent].id /\ c.epoch = tasks[w.parent].epoch
        /\ c.session = tasks[w.parent].session /\ c.rev = resourceRevision + 1
        /\ c.status = "ready" /\ c.children = tasks[w.parent].children
    BY WorkerFields, CompletedType
  <2>2. Matches(w) /\ Write(w, c) /\ Exit(w)
    BY <1>1 DEF WorkerCompletes
  <2> HIDE DEF c
  <2> QED
    BY <2>1, <2>2 DEF Heard
<1>2. CASE WorkerFails(w)
  <2>1. /\ f \in Task /\ f.id = tasks[w.parent].id /\ f.epoch = tasks[w.parent].epoch
        /\ f.session = tasks[w.parent].session /\ f.rev = resourceRevision + 1
        /\ f.status = "error" /\ f.children = tasks[w.parent].children
    BY WorkerFields, FailedType
  <2>2. Matches(w) /\ Write(w, f) /\ Exit(w)
    BY <1>2 DEF WorkerFails
  <2> HIDE DEF f
  <2> QED
    BY <2>1, <2>2 DEF Heard
<1> QED
  BY <1>1, <1>2

LEMMA WorkerEffect ==
    ASSUME TypeOK, NEW w \in workers, WorkerNext(w)
    PROVE  \/ /\ Quiet
              /\ \/ ~Matches(w) /\ Exit(w)
                 \/ \E v \in Worker :
                       /\ Step(w, v)
                       /\ v.parent = w.parent /\ v.id = w.id /\ v.epoch = w.epoch
                       /\ v.session = w.session /\ v.inc = w.inc
           \/ \E t \in Task :
                 /\ Heard(w, t)
                 /\ \/ t.status # "loading" /\ Exit(w)
                    \/ /\ Step(w, Advanced(w))
                       /\ t.status = "loading" => Advanced(w).pc = "load"
<1>1. CASE WorkerLoads(w)
  <2> DEFINE v == [w EXCEPT !.pc = "apply", !.page = PageRead(w)]
  <2>1. /\ v \in Worker /\ v.parent = w.parent /\ v.id = w.id /\ v.epoch = w.epoch
        /\ v.session = w.session /\ v.inc = w.inc
    <3>1. w \in Worker /\ PageRead(w) \in Page
      BY WorkerFields, PageReadType
    <3> QED BY <3>1, LoadedType
  <2>2. Quiet /\ Step(w, v)
    BY <1>1 DEF WorkerLoads, Quiet, store, history
  <2> HIDE DEF v
  <2> QED
    BY <2>1, <2>2
<1>2. CASE WorkerLoadFails(w)
  <2> DEFINE v == [w EXCEPT !.pc = "fail"]
  <2>1. /\ v \in Worker /\ v.parent = w.parent /\ v.id = w.id /\ v.epoch = w.epoch
        /\ v.session = w.session /\ v.inc = w.inc
    BY WorkerFields, FailingType
  <2>2. Quiet /\ Step(w, v)
    BY <1>2 DEF WorkerLoadFails, Quiet, store, history
  <2> HIDE DEF v
  <2> QED
    BY <2>1, <2>2
<1>3. CASE WorkerApplies(w)
  <2> DEFINE t == Applied(tasks[w.parent], w.offset, w.page, resourceRevision + 1)
  <2>1. t \in Task /\ Heard(w, t) /\ (t.status = "loading" <=> w.page.more)
    BY <1>3, AppliedHeard
  <2>2. w.page.more => Advanced(w).pc = "load"
    BY WorkerFields, AdvancedType
  <2>3. Step(w, Advanced(w))
    BY <1>3 DEF WorkerApplies
  <2> HIDE DEF t
  <2> QED
    BY <2>1, <2>2, <2>3
<1>4. CASE WorkerCompletes(w) \/ WorkerFails(w)
  BY <1>4, LastHeard
<1>5. CASE WorkerRejected(w)
  BY <1>5 DEF WorkerRejected, Quiet, store, history
<1> QED
  BY <1>1, <1>2, <1>3, <1>4, <1>5 DEF WorkerNext

-----------------------------------------------------------------------------
(* A loading task has a worker that will be heard.                         *)
LEMMA LoadingStart ==
    ASSUME TypeOK, LoadingHasWorker, NEW p \in Parents,
           StartInNewSession(p) \/ StartFromCache(p) \/ StartAndSpawn(p) \/ Cancel(p)
    PROVE  LoadingHasWorker'
<1>1. CASE StartInNewSession(p)
  <2> DEFINE t == FirstTask(attached)
             w == NewWorker(p, t, NextIncarnation)
  <2>1. t \in Task /\ t.id = 1 /\ t.epoch = 0 /\ t.session = attached /\ t.status = "loading"
    BY FirstTaskType DEF TypeOK
  <2>2. w.parent = p /\ w.id = t.id /\ w.epoch = t.epoch /\ w.session = t.session
    BY <2>1, NewWorkerType DEF TypeOK, NextIncarnation
  <2>3. /\ activeSession' = attached /\ w \in workers'
        /\ tasks' = [q \in Parents |-> IF q = p THEN t ELSE NoTask]
    BY <1>1 DEF StartInNewSession
  <2>4. NoTask.status = "none"
    BY DEF NoTask
  <2> HIDE DEF t, w
  <2> QED
    BY <2>1, <2>2, <2>3, <2>4 DEF LoadingHasWorker, Matches
<1>2. CASE StartFromCache(p)
  <2> DEFINE t == Served(NewTask(p, nextTaskId + 1, resourceRevision + 1), cache[p].children)
  <2>1. t.status = "ready"
    <3>1. NewTask(p, nextTaskId + 1, resourceRevision + 1) \in Task /\ cache[p].children \in Children
      BY NewTaskType DEF TypeOK, Entry
    <3> QED
      BY <3>1, ServedType
  <2>2. /\ tasks' = [tasks EXCEPT ![p] = t] /\ workers' = workers
        /\ activeSession' = activeSession
    BY <1>2 DEF StartFromCache, StartGuard
  <2> HIDE DEF t
  <2> QED
    BY <2>1, <2>2 DEF LoadingHasWorker, Matches, TypeOK, Worker
<1>3. CASE StartAndSpawn(p)
  <2> DEFINE t == NewTask(p, nextTaskId + 1, resourceRevision + 1)
             w == NewWorker(p, t, incarnation)
  <2>1. t \in Task /\ t.session = activeSession /\ t.status = "loading"
    BY NewTaskType DEF TypeOK
  <2>2. w.parent = p /\ w.id = t.id /\ w.epoch = t.epoch /\ w.session = t.session
    BY <2>1, NewWorkerType DEF TypeOK
  <2>3. /\ tasks' = [tasks EXCEPT ![p] = t] /\ workers' = workers \cup {w}
        /\ activeSession' = activeSession
    BY <1>3 DEF StartAndSpawn, StartGuard
  <2> HIDE DEF t, w
  <2>4. /\ tasks'[p] = t /\ t.status # "none" /\ activeSession' = t.session
        /\ \E u \in workers' : /\ u.parent = p /\ u.id = t.id /\ u.epoch = t.epoch
                              /\ u.session = t.session
    BY <2>1, <2>2, <2>3 DEF TypeOK
  <2>5. \A q \in Parents \ {p} : tasks'[q] = tasks[q]
    BY <2>3 DEF TypeOK
  <2>6. ASSUME NEW q \in Parents \ {p}, tasks'[q].status = "loading"
        PROVE  \E u \in workers' : u.parent = q /\ Matches(u)'
    BY <2>3, <2>5, <2>6 DEF LoadingHasWorker, Matches
  <2>7. \E u \in workers' : u.parent = p /\ Matches(u)'
    BY <2>4 DEF Matches
  <2> QED
    BY <2>6, <2>7 DEF LoadingHasWorker
<1>4. CASE Cancel(p)
  <2> DEFINE t == Abandoned(tasks[p], resourceRevision + 1)
  <2>1. t.status # "loading"
    <3>1. tasks[p] \in Task /\ resourceRevision + 1 \in Nat
      BY DEF TypeOK
    <3>2. t.status \in {"ready", "cancelled"}
      BY <3>1, AbandonedType
    <3> QED
      BY <3>2
  <2>2. /\ tasks' = [tasks EXCEPT ![p] = t] /\ workers' = workers
        /\ activeSession' = activeSession
    BY <1>4 DEF Cancel, threads
  <2> HIDE DEF t
  <2> QED
    BY <2>1, <2>2 DEF LoadingHasWorker, Matches, TypeOK, Worker
<1> QED
  BY <1>1, <1>2, <1>3, <1>4

LEMMA LoadingWorker ==
    ASSUME TypeOK, LoadingHasWorker, NEW w \in workers, WorkerNext(w)
    PROVE  LoadingHasWorker'
<1>0. w \in Worker /\ w.parent \in Parents
  BY WorkerFields
<1>1. CASE Quiet /\ ~Matches(w) /\ Exit(w)
  BY <1>1 DEF Quiet, Exit, LoadingHasWorker, Matches
<1>2. CASE Quiet /\ \E v \in Worker :
             /\ Step(w, v)
             /\ v.parent = w.parent /\ v.id = w.id /\ v.epoch = w.epoch
             /\ v.session = w.session /\ v.inc = w.inc
  <2>1. PICK v \in Worker :
             /\ Step(w, v)
             /\ v.parent = w.parent /\ v.id = w.id /\ v.epoch = w.epoch
             /\ v.session = w.session
    BY <1>2
  <2>2. \A u \in workers : Matches(u)' = Matches(u)
    BY <1>2 DEF Quiet, Matches
  <2>3. Matches(v)' = Matches(w)
    BY <1>2, <2>1 DEF Quiet, Matches
  <2> QED
    BY <1>2, <2>1, <2>2, <2>3 DEF Quiet, Step, LoadingHasWorker
<1>3. ASSUME NEW t \in Task, Heard(w, t),
             \/ t.status # "loading" /\ Exit(w)
             \/ Step(w, Advanced(w))
      PROVE  LoadingHasWorker'
  <2>1. /\ tasks' = [tasks EXCEPT ![w.parent] = t] /\ activeSession' = activeSession
        /\ Matches(w) /\ t.id = tasks[w.parent].id /\ t.epoch = tasks[w.parent].epoch
        /\ t.session = tasks[w.parent].session /\ t.status # "none"
    BY <1>3 DEF Heard, Write
  <2>2. ASSUME NEW q \in Parents, q # w.parent, tasks'[q].status = "loading"
        PROVE  \E u \in workers' : u.parent = q /\ Matches(u)'
    <3>1. PICK u \in workers : u.parent = q /\ Matches(u)
      BY <2>1, <2>2 DEF LoadingHasWorker, TypeOK
    <3>2. u \in workers'
      BY <1>3, <2>2, <3>1 DEF Exit, Step
    <3>3. Matches(u)'
      BY <2>1, <2>2, <3>1 DEF Matches, TypeOK
    <3> QED
      BY <3>1, <3>2, <3>3
  <2>3. ASSUME t.status = "loading"
        PROVE  \E u \in workers' : u.parent = w.parent /\ Matches(u)'
    <3>1. Step(w, Advanced(w))
      BY <1>3, <2>3
    <3>2. /\ Advanced(w).parent = w.parent /\ Advanced(w).id = w.id
          /\ Advanced(w).epoch = w.epoch /\ Advanced(w).session = w.session
      BY <1>0, AdvancedType
    <3>3. tasks'[w.parent] = t
      BY <1>0, <2>1 DEF TypeOK
    <3>4. Matches(Advanced(w))'
      BY <2>1, <3>2, <3>3 DEF Matches
    <3> QED
      BY <3>1, <3>2, <3>4 DEF Step
  <2>4. tasks'[w.parent] = t
    BY <1>0, <2>1 DEF TypeOK
  <2> QED
    BY <2>2, <2>3, <2>4 DEF LoadingHasWorker
<1> QED
  BY <1>1, <1>2, <1>3, WorkerEffect
LEMMA LoadingMutation ==
    ASSUME TypeOK, LoadingHasWorker, MutationNext
    PROVE  LoadingHasWorker'
<1>1. ASSUME NEW listed \in SUBSET Parents, NEW child \in ListedChildren \cup {NoChild},
             MutationExecutes(listed, child)
      PROVE  LoadingHasWorker'
  BY <1>1 DEF MutationExecutes, store, LoadingHasWorker, Matches
<1>2. CASE MutationChecksSession \/ MutationFails \/ MutationReadsKey \/ MutationMissesStore
  BY <1>2 DEF MutationChecksSession, MutationReadsKey, MutationFails, MutationMissesStore, store,
              LoadingHasWorker, Matches
<1>3. CASE MutationInvalidates
  <2>1. \A p \in Parents : Invalidated(tasks[p], resourceRevision + 1).status # "loading"
    <3> TAKE p \in Parents
    <3>1. tasks[p] \in Task /\ resourceRevision + 1 \in Nat /\ mutationEpoch \in Nat
      BY DEF TypeOK
    <3> QED
      BY <3>1, InvalidatedType
  <2>2. /\ activeSession' = activeSession /\ workers' = workers
        /\ \A p \in Parents : \/ tasks'[p] = tasks[p]
                              \/ tasks'[p] = Invalidated(tasks[p], resourceRevision + 1)
    BY <1>3 DEF MutationInvalidates, TypeOK
  <2>3. ASSUME NEW p \in Parents, tasks'[p].status = "loading"
        PROVE  \E w \in workers' : w.parent = p /\ Matches(w)'
    <3>1. tasks'[p] = tasks[p]
      BY <2>1, <2>2, <2>3
    <3>2. PICK w \in workers : w.parent = p /\ Matches(w)
      BY <2>3, <3>1 DEF LoadingHasWorker
    <3> QED
      BY <2>2, <3>1, <3>2 DEF Matches
  <2> QED
    BY <2>3 DEF LoadingHasWorker
<1> QED
  BY <1>1, <1>2, <1>3 DEF MutationNext

LEMMA LoadingSystem ==
    ASSUME TypeOK, LoadingHasWorker, SystemNext
    PROVE  LoadingHasWorker'
<1>1. CASE RefreshResets \/ AttachResets
  <2>1. \A p \in Parents : tasks'[p].status = "none"
    BY <1>1 DEF RefreshResets, AttachResets, ResetStore, NoTask
  <2> QED
    BY <2>1 DEF LoadingHasWorker
<1>2. CASE RefreshBegins \/ RefreshSetsSnapshot \/ RefreshFails
  BY <1>2 DEF RefreshBegins, RefreshSetsSnapshot, RefreshFails, store, LoadingHasWorker, Matches
<1>3. CASE AttachBegins \/ AttachFails \/ \E s \in Sessions : AttachCompletes(s)
  BY <1>3 DEF AttachBegins, AttachFails, AttachCompletes, store, LoadingHasWorker, Matches
<1> QED
  BY <1>1, <1>2, <1>3 DEF SystemNext

LEMMA LoadingStep == TypeOK /\ LoadingHasWorker /\ [Next]_vars => LoadingHasWorker'
<1> SUFFICES ASSUME TypeOK, LoadingHasWorker, [Next]_vars PROVE LoadingHasWorker'
  OBVIOUS
<1>1. CASE UNCHANGED vars
  BY <1>1 DEF vars, store, threads, LoadingHasWorker, Matches
<1>2. CASE Next
  BY <1>2, NextCases, LoadingStart, LoadingWorker, LoadingMutation, LoadingSystem
<1> QED
  BY <1>1, <1>2

(* A task that says loading always has a worker that will be heard.        *)
THEOREM LoadingAlwaysHasWorker == Spec => []LoadingHasWorker
<1>1. Init => LoadingHasWorker
  BY DEF Init, NoTask, LoadingHasWorker
<1> QED
  BY <1>1, LoadingStep, TypeCorrect, PTL DEF Spec

-----------------------------------------------------------------------------
(* Ids, epochs and revisions never pass the counters they come from, and a *)
(* store without a key has neither tasks nor workers.                      *)
LEMMA CounterReset ==
    ASSUME TypeOK, CounterInv, ResetStore, workers' = workers
    PROVE  CounterInv'
<1>1. /\ \A p \in Parents : tasks'[p] = NoTask
      /\ nextTaskId' = 0 /\ mutationEpoch' = 0 /\ resourceRevision' = 0
  BY DEF ResetStore
<1>2. /\ NoTask.id = 0 /\ NoTask.epoch = 0 /\ NoTask.rev = 0 /\ NoTask.status = "none"
      /\ NoTask.children = <<>>
  BY DEF NoTask
<1>3. \A w \in workers : w.inc < incarnation'
  BY DEF ResetStore, NextIncarnation, CounterInv, CountersBound, KeylessIsEmpty, TypeOK, Worker
<1>4. \A w \in workers : w.inc \in Nat
  BY DEF TypeOK, Worker
<1>5. incarnation' \in Nat
  BY TypeResetStore
<1>6. CountersBound'
  BY <1>1, <1>2, <1>3, <1>4, <1>5 DEF CountersBound
<1>7. KeylessIsEmpty'
  BY <1>1, <1>2, <1>3, <1>4, <1>5 DEF KeylessIsEmpty
<1> QED
  BY <1>6, <1>7 DEF CounterInv
(* What a started task looks like in the store.                            *)
LEMMA StartEffect ==
    ASSUME TypeOK, NEW p \in Parents, StartFromCache(p) \/ StartAndSpawn(p)
    PROVE  \E t \in Task :
              /\ tasks' = [tasks EXCEPT ![p] = t]
              /\ t.id = nextTaskId + 1 /\ t.rev = resourceRevision + 1
              /\ t.epoch = mutationEpoch /\ t.session = activeSession
              /\ t.children = tasks[p].children \/ t.children = cache[p].children
              /\ \/ UNCHANGED workers
                 \/ \E w \in Worker : /\ workers' = workers \cup {w}
                                      /\ w.parent = p /\ w.id = t.id /\ w.epoch = t.epoch
                                      /\ w.inc = incarnation /\ w.pc = "load" /\ w.offset = 0
<1> DEFINE n == NewTask(p, nextTaskId + 1, resourceRevision + 1)
           c == cache[p].children
<1>1. /\ n \in Task /\ n.id = nextTaskId + 1 /\ n.rev = resourceRevision + 1
      /\ n.epoch = mutationEpoch /\ n.session = activeSession
      /\ n.children = tasks[p].children
  BY NewTaskType DEF TypeOK
<1>2. c \in Children
  BY DEF TypeOK, Entry
<1>3. CASE StartFromCache(p)
  <2>1. tasks' = [tasks EXCEPT ![p] = Served(n, c)] /\ UNCHANGED workers
    BY <1>3 DEF StartFromCache
  <2> HIDE DEF n
  <2>2. /\ Served(n, c) \in Task /\ Served(n, c).id = n.id /\ Served(n, c).epoch = n.epoch
        /\ Served(n, c).rev = n.rev /\ Served(n, c).session = n.session
        /\ Served(n, c).children = c
    BY <1>1, <1>2, ServedType
  <2> QED
    BY <1>1, <2>1, <2>2
<1>4. CASE StartAndSpawn(p)
  <2> DEFINE w == NewWorker(p, n, incarnation)
  <2>1. tasks' = [tasks EXCEPT ![p] = n] /\ workers' = workers \cup {w}
    BY <1>4 DEF StartAndSpawn
  <2> HIDE DEF n
  <2>2. /\ w \in Worker /\ w.parent = p /\ w.id = n.id /\ w.epoch = n.epoch
        /\ w.inc = incarnation /\ w.pc = "load" /\ w.offset = 0
    BY <1>1, NewWorkerType DEF TypeOK
  <2> HIDE DEF w
  <2> QED
    BY <1>1, <2>1, <2>2
<1> QED
  BY <1>3, <1>4

LEMMA FirstStartEffect ==
    ASSUME TypeOK, NEW p \in Parents, StartInNewSession(p)
    PROVE  \E t \in Task, w \in Worker :
              /\ tasks' = [q \in Parents |-> IF q = p THEN t ELSE NoTask]
              /\ workers' = workers \cup {w}
              /\ t.id = 1 /\ t.epoch = 0 /\ t.rev = 1 /\ t.children = <<>>
              /\ w.id = 1 /\ w.epoch = 0 /\ w.parent = p
              /\ w.inc = incarnation' /\ w.pc = "load" /\ w.offset = 0
<1> DEFINE t == FirstTask(attached)
           w == NewWorker(p, t, NextIncarnation)
<1>1. /\ t \in Task /\ t.id = 1 /\ t.epoch = 0 /\ t.rev = 1 /\ t.children = <<>>
  BY FirstTaskType DEF TypeOK
<1>2. /\ tasks' = [q \in Parents |-> IF q = p THEN t ELSE NoTask]
      /\ workers' = workers \cup {w} /\ incarnation' = NextIncarnation
  BY DEF StartInNewSession
<1>3. NextIncarnation \in Nat
  BY DEF TypeOK, NextIncarnation
<1> HIDE DEF t
<1>4. /\ w \in Worker /\ w.id = t.id /\ w.epoch = t.epoch /\ w.parent = p
      /\ w.inc = NextIncarnation /\ w.pc = "load" /\ w.offset = 0
  BY <1>1, <1>3, NewWorkerType
<1> HIDE DEF w
<1> QED
  BY <1>1, <1>2, <1>4

LEMMA OlderWorkers ==
    ASSUME TypeOK, CounterInv
    PROVE  \A w \in workers : w.inc < NextIncarnation
BY DEF NextIncarnation, CounterInv, CountersBound, KeylessIsEmpty, TypeOK, Worker

LEMMA CounterStart ==
    ASSUME TypeOK, CounterInv, NEW p \in Parents,
           StartInNewSession(p) \/ StartFromCache(p) \/ StartAndSpawn(p) \/ Cancel(p)
    PROVE  CounterInv'
<1>1. CASE StartInNewSession(p)
  <2>1. PICK t \in Task, w \in Worker :
              /\ tasks' = [q \in Parents |-> IF q = p THEN t ELSE NoTask]
              /\ workers' = workers \cup {w}
              /\ t.id = 1 /\ t.epoch = 0 /\ t.rev = 1 /\ t.children = <<>>
              /\ w.id = 1 /\ w.epoch = 0 /\ w.inc = incarnation'
    BY <1>1, FirstStartEffect
  <2>2. /\ nextTaskId' = 1 /\ mutationEpoch' = 0 /\ resourceRevision' = 1
        /\ activeSession' # NoSession /\ incarnation' = NextIncarnation
    BY <1>1 DEF StartInNewSession
  <2>3. NoTask.id = 0 /\ NoTask.epoch = 0 /\ NoTask.rev = 0
    BY DEF NoTask
  <2>4. \A u \in workers : u.inc < incarnation' /\ u.inc \in Nat
    BY <2>2, OlderWorkers DEF TypeOK, Worker
  <2>5. incarnation' \in Nat
    BY <2>2 DEF NextIncarnation, TypeOK
  <2> QED
    BY <2>1, <2>2, <2>3, <2>4, <2>5 DEF CounterInv, CountersBound, KeylessIsEmpty
<1>2. CASE StartFromCache(p) \/ StartAndSpawn(p)
  <2>1. PICK t \in Task :
              /\ tasks' = [tasks EXCEPT ![p] = t]
              /\ t.id = nextTaskId + 1 /\ t.rev = resourceRevision + 1
              /\ t.epoch = mutationEpoch
              /\ \/ UNCHANGED workers
                 \/ \E w \in Worker : /\ workers' = workers \cup {w}
                                      /\ w.id = t.id /\ w.epoch = t.epoch /\ w.inc = incarnation
    BY <1>2, StartEffect
  <2>2. /\ nextTaskId' = nextTaskId + 1 /\ resourceRevision' = resourceRevision + 1
        /\ UNCHANGED <<activeSession, mutationEpoch, incarnation>>
        /\ activeSession # NoSession
    BY <1>2 DEF StartFromCache, StartAndSpawn, StartGuard, history
  <2>3. \A q \in Parents : tasks[q] \in Task
    BY DEF TypeOK
  <2>4. \A q \in Parents : tasks'[q] = IF q = p THEN t ELSE tasks[q]
    BY <2>1 DEF TypeOK
  <2>5. CountersBound'
    <3>1. \A q \in Parents : /\ tasks'[q].id <= nextTaskId' /\ tasks'[q].epoch <= mutationEpoch'
                             /\ tasks'[q].rev <= resourceRevision'
      BY <2>1, <2>2, <2>3, <2>4 DEF CounterInv, CountersBound, TypeOK, Task
    <3>2. \A u \in workers' : /\ u.inc <= incarnation'
                              /\ u.inc = incarnation' =>
                                    u.id <= nextTaskId' /\ u.epoch <= mutationEpoch'
      BY <2>1, <2>2 DEF CounterInv, CountersBound, TypeOK, Worker
    <3> QED
      BY <3>1, <3>2 DEF CountersBound
  <2> QED
    BY <2>2, <2>5 DEF CounterInv, KeylessIsEmpty
<1>3. CASE Cancel(p)
  <2> DEFINE t == Abandoned(tasks[p], resourceRevision + 1)
  <2>1. /\ t.id = tasks[p].id /\ t.epoch = tasks[p].epoch /\ t.rev = resourceRevision + 1
        /\ t.children = tasks[p].children
    <3>1. tasks[p] \in Task /\ resourceRevision + 1 \in Nat
      BY DEF TypeOK
    <3> QED
      BY <3>1, AbandonedType
  <2>2. /\ tasks' = [tasks EXCEPT ![p] = t] /\ resourceRevision' = resourceRevision + 1
        /\ UNCHANGED <<activeSession, nextTaskId, mutationEpoch, workers, incarnation>>
        /\ tasks[p].status # "none"
    BY <1>3 DEF Cancel, threads, history
  <2> HIDE DEF t
  <2>3. CountersBound'
    BY <2>1, <2>2 DEF CounterInv, CountersBound, TypeOK, Task
  <2>4. KeylessIsEmpty'
    BY <2>1, <2>2 DEF CounterInv, KeylessIsEmpty, TypeOK
  <2> QED
    BY <2>3, <2>4 DEF CounterInv
<1> QED
  BY <1>1, <1>2, <1>3

LEMMA CounterWorker ==
    ASSUME TypeOK, CounterInv, NEW w \in workers, WorkerNext(w)
    PROVE  CounterInv'
<1>0. /\ w \in Worker /\ w.parent \in Parents
      /\ \A q \in Parents : tasks[q] \in Task
      /\ resourceRevision \in Nat /\ nextTaskId \in Nat /\ mutationEpoch \in Nat
  BY WorkerFields DEF TypeOK
<1>1. \A v \in workers' : \E u \in workers : v.id = u.id /\ v.epoch = u.epoch /\ v.inc = u.inc
  <2>1. /\ Advanced(w).id = w.id /\ Advanced(w).epoch = w.epoch /\ Advanced(w).inc = w.inc
    BY <1>0, AdvancedType
  <2> QED
    BY <2>1, WorkerEffect DEF Step, Exit
<1>2. CASE Quiet
  <2>1. CountersBound'
    BY <1>1, <1>2 DEF Quiet, CounterInv, CountersBound
  <2> QED
    BY <1>1, <1>2, <2>1 DEF Quiet, CounterInv, KeylessIsEmpty
<1>3. ASSUME NEW t \in Task, Heard(w, t)
      PROVE  CounterInv'
  <2>1. /\ t.id = tasks[w.parent].id /\ t.epoch = tasks[w.parent].epoch
        /\ t.rev = resourceRevision + 1 /\ resourceRevision' = resourceRevision + 1
        /\ UNCHANGED <<activeSession, nextTaskId, mutationEpoch, incarnation>>
        /\ tasks' = [tasks EXCEPT ![w.parent] = t] /\ tasks[w.parent].status # "none"
    BY <1>3 DEF Heard, Write, Matches
  <2>2. \A q \in Parents : tasks'[q] = IF q = w.parent THEN t ELSE tasks[q]
    BY <2>1 DEF TypeOK
  <2>3. \A q \in Parents : /\ tasks'[q].id <= nextTaskId' /\ tasks'[q].epoch <= mutationEpoch'
                           /\ tasks'[q].rev <= resourceRevision'
    BY <1>0, <2>1, <2>2 DEF CounterInv, CountersBound, Task
  <2>4. CountersBound'
    BY <1>1, <2>1, <2>3 DEF CounterInv, CountersBound
  <2>5. KeylessIsEmpty'
    BY <1>0, <1>1, <2>1, <2>2 DEF CounterInv, KeylessIsEmpty
  <2> QED
    BY <2>4, <2>5 DEF CounterInv
<1> QED
  BY <1>2, <1>3, WorkerEffect
(* What invalidate_related does to a task.                                 *)
LEMMA InvalidateEffect ==
    ASSUME TypeOK, MutationInvalidates, NEW p \in Parents
    PROVE  \/ tasks'[p] = tasks[p]
           \/ /\ tasks[p].status # "none" /\ tasks'[p].status # "none"
              /\ tasks'[p].id = tasks[p].id /\ tasks'[p].epoch = mutationEpoch + 1
              /\ tasks'[p].rev = resourceRevision + 1 /\ tasks'[p].rev = resourceRevision'
              /\ tasks'[p].children = tasks[p].children
<1> DEFINE t == Invalidated(tasks[p], resourceRevision + 1)
           hit == {q \in Parents : tasks[q].status # "none" /\ Impacted(q, tasks[q].children)}
<1>1. /\ t.id = tasks[p].id /\ t.epoch = mutationEpoch + 1 /\ t.rev = resourceRevision + 1
      /\ t.children = tasks[p].children /\ t.status \in {"ready", "cancelled"}
  <2>1. tasks[p] \in Task /\ resourceRevision + 1 \in Nat /\ mutationEpoch \in Nat
    BY DEF TypeOK
  <2> QED
    BY <2>1, InvalidatedType
<1>2. /\ tasks'[p] = IF p \in hit THEN t ELSE tasks[p]
      /\ resourceRevision' = IF hit = {} THEN resourceRevision ELSE resourceRevision + 1
  BY DEF MutationInvalidates
<1>3. p \in hit => tasks[p].status # "none"
  OBVIOUS
<1> HIDE DEF t, hit
<1> QED
  BY <1>1, <1>2, <1>3

LEMMA CounterMutation ==
    ASSUME TypeOK, CounterInv, MutationNext
    PROVE  CounterInv'
<1>1. CASE UNCHANGED <<store, workers, history>>
  BY <1>1 DEF store, history, CounterInv, CountersBound, KeylessIsEmpty
<1>2. CASE MutationInvalidates
  <2>1. /\ UNCHANGED <<activeSession, nextTaskId, workers, incarnation>>
        /\ mutationEpoch' = mutationEpoch + 1
        /\ resourceRevision' = resourceRevision \/ resourceRevision' = resourceRevision + 1
    BY <1>2 DEF MutationInvalidates
  <2>2. \A p \in Parents :
            \/ tasks'[p] = tasks[p]
            \/ /\ tasks[p].status # "none"
               /\ tasks'[p].id = tasks[p].id /\ tasks'[p].epoch = mutationEpoch + 1
               /\ tasks'[p].rev = resourceRevision'
    BY <1>2, InvalidateEffect
  <2>3. /\ \A p \in Parents : tasks[p].epoch \in Nat /\ tasks[p].rev \in Nat
        /\ mutationEpoch \in Nat /\ resourceRevision \in Nat
        /\ \A w \in workers : w.epoch \in Nat
    BY DEF TypeOK, Task, Worker
  <2>4. \A p \in Parents : /\ tasks'[p].id <= nextTaskId' /\ tasks'[p].epoch <= mutationEpoch'
                           /\ tasks'[p].rev <= resourceRevision'
    BY <2>1, <2>2, <2>3 DEF CounterInv, CountersBound
  <2>5. CountersBound'
    BY <2>1, <2>3, <2>4 DEF CounterInv, CountersBound
  <2>6. KeylessIsEmpty'
    BY <2>1, <1>2, InvalidateEffect DEF CounterInv, KeylessIsEmpty
  <2> QED
    BY <2>5, <2>6 DEF CounterInv
<1> QED
  BY <1>1, <1>2 DEF MutationNext, MutationExecutes, MutationChecksSession, MutationReadsKey,
                    MutationFails, MutationMissesStore

LEMMA CounterSystem ==
    ASSUME TypeOK, CounterInv, SystemNext
    PROVE  CounterInv'
<1>1. CASE RefreshResets \/ AttachResets
  BY <1>1, CounterReset DEF RefreshResets, AttachResets
<1>2. CASE UNCHANGED <<store, workers, history>>
  BY <1>2 DEF store, history, CounterInv, CountersBound, KeylessIsEmpty
<1> QED
  BY <1>1, <1>2 DEF SystemNext, RefreshBegins, RefreshSetsSnapshot, RefreshFails, AttachBegins,
                    AttachFails, AttachCompletes

LEMMA CounterStep == TypeOK /\ CounterInv /\ [Next]_vars => CounterInv'
<1> SUFFICES ASSUME TypeOK, CounterInv, [Next]_vars PROVE CounterInv'
  OBVIOUS
<1>1. CASE UNCHANGED vars
  BY <1>1 DEF vars, store, threads, history, CounterInv, CountersBound, KeylessIsEmpty
<1>2. CASE Next
  BY <1>2, NextCases, CounterStart, CounterWorker, CounterMutation, CounterSystem
<1> QED
  BY <1>1, <1>2

LEMMA CounterInit == Init => CounterInv
BY DEF Init, NoTask, CounterInv, CountersBound, KeylessIsEmpty

THEOREM CountersCorrect == Spec => []CounterInv
BY CounterInit, CounterStep, TypeCorrect, PTL DEF Spec

-----------------------------------------------------------------------------
(* Within an incarnation a task only ever changes to a newer one.          *)
Advances ==
    incarnation' = incarnation =>
       \A p \in Parents :
          tasks[p].status # "none" /\ tasks'[p] # tasks[p] => Older(tasks[p], tasks'[p])

LEMMA AdvanceStep == TypeOK /\ CounterInv /\ [Next]_vars => Advances
<1> SUFFICES ASSUME TypeOK, CounterInv, [Next]_vars, incarnation' = incarnation,
                    NEW p \in Parents, tasks[p].status # "none", tasks'[p] # tasks[p]
             PROVE  Older(tasks[p], tasks'[p])
  BY DEF Advances
<1>1. /\ tasks[p].id \in Nat /\ tasks[p].epoch \in Nat /\ tasks[p].rev \in Nat
      /\ tasks[p].id <= nextTaskId /\ tasks[p].epoch <= mutationEpoch
      /\ tasks[p].rev <= resourceRevision
      /\ nextTaskId \in Nat /\ mutationEpoch \in Nat /\ resourceRevision \in Nat
      /\ incarnation \in Nat
  BY DEF TypeOK, Task, CounterInv, CountersBound
<1>2. activeSession # NoSession
  BY DEF CounterInv, KeylessIsEmpty
<1>3. NextIncarnation # incarnation
  BY <1>1, <1>2 DEF NextIncarnation
<1>4. ASSUME NEW q \in Parents, StartFromCache(q) \/ StartAndSpawn(q)
      PROVE  Older(tasks[p], tasks'[p])
  <2>1. PICK t \in Task :
              /\ tasks' = [tasks EXCEPT ![q] = t]
              /\ t.id = nextTaskId + 1 /\ t.epoch = mutationEpoch
    BY <1>4, StartEffect
  <2>2. p = q /\ tasks'[p] = t
    BY <2>1 DEF TypeOK
  <2> QED
    BY <1>1, <2>1, <2>2 DEF Older
<1>5. ASSUME NEW q \in Parents, StartInNewSession(q)
      PROVE  FALSE
  BY <1>3, <1>5 DEF StartInNewSession
<1>6. ASSUME NEW q \in Parents, Cancel(q)
      PROVE  Older(tasks[p], tasks'[p])
  <2> DEFINE t == Abandoned(tasks[q], resourceRevision + 1)
  <2>1. t.id = tasks[q].id /\ t.epoch = tasks[q].epoch /\ t.rev = resourceRevision + 1
    <3>1. tasks[q] \in Task /\ resourceRevision + 1 \in Nat
      BY DEF TypeOK
    <3> QED
      BY <3>1, AbandonedType
  <2>2. tasks' = [tasks EXCEPT ![q] = t]
    BY <1>6 DEF Cancel
  <2> HIDE DEF t
  <2>3. p = q /\ tasks'[p] = t
    BY <2>2 DEF TypeOK
  <2> QED
    BY <1>1, <2>1, <2>3 DEF Older
<1>7. ASSUME NEW w \in workers, WorkerNext(w)
      PROVE  Older(tasks[p], tasks'[p])
  <2>1. PICK t \in Task : Heard(w, t)
    BY <1>7, WorkerEffect DEF Quiet
  <2>2. /\ tasks' = [tasks EXCEPT ![w.parent] = t] /\ t.id = tasks[w.parent].id
        /\ t.epoch = tasks[w.parent].epoch /\ t.rev = resourceRevision + 1
    BY <2>1 DEF Heard, Write
  <2>3. p = w.parent /\ tasks'[p] = t
    BY <2>2 DEF TypeOK
  <2> QED
    BY <1>1, <2>2, <2>3 DEF Older
<1>8. CASE MutationInvalidates
  BY <1>1, <1>8, InvalidateEffect DEF Older
<1>9. CASE UNCHANGED tasks
  BY <1>9
<1>10. ~ResetStore
  BY <1>3 DEF ResetStore
<1>11. CASE MutationNext
  BY <1>8, <1>9, <1>11 DEF MutationNext, MutationExecutes, MutationChecksSession,
                           MutationReadsKey, MutationFails, MutationMissesStore, store
<1>12. CASE SystemNext
  BY <1>9, <1>10, <1>12 DEF SystemNext, RefreshBegins, RefreshSetsSnapshot, RefreshFails,
                RefreshResets, AttachBegins, AttachResets, AttachFails, AttachCompletes, store
<1>13. CASE UNCHANGED vars
  BY <1>9, <1>13 DEF vars, store
<1> QED
  BY <1>4, <1>5, <1>6, <1>7, <1>11, <1>12, <1>13, NextCases

(* No change of a task is lost in the order the scene page discards by.    *)
THEOREM UpdatesAlwaysAdvance == Spec => UpdatesAdvance
<1>1. TypeOK /\ CounterInv /\ [Next]_vars => [Advances]_vars
  BY AdvanceStep
<1> QED
  BY <1>1, TypeCorrect, CountersCorrect, PTL DEF Spec, UpdatesAdvance, Advances

-----------------------------------------------------------------------------
(* One incarnation never runs two workers for one task id.                 *)
LEMMA UniqueStart ==
    ASSUME TypeOK, CounterInv, UniqueWorkers, NEW p \in Parents,
           StartInNewSession(p) \/ StartFromCache(p) \/ StartAndSpawn(p) \/ Cancel(p)
    PROVE  UniqueWorkers'
<1>1. CASE StartInNewSession(p)
  <2>1. PICK w \in Worker : workers' = workers \cup {w}
    BY <1>1, FirstStartEffect
  <2>2. \A u \in workers : u.inc < incarnation' /\ u.inc \in Nat
    BY <1>1, OlderWorkers DEF StartInNewSession, TypeOK, Worker
  <2>3. \A u \in workers : u.inc # incarnation'
    BY <2>2 DEF TypeOK
  <2> QED
    BY <2>1, <2>3 DEF UniqueWorkers
<1>2. CASE StartFromCache(p) \/ StartAndSpawn(p)
  <2>1. incarnation' = incarnation
    BY <1>2 DEF StartFromCache, StartAndSpawn, StartGuard, history
  <2>2. \/ UNCHANGED workers
        \/ \E w \in Worker : /\ workers' = workers \cup {w}
                             /\ w.id = nextTaskId + 1 /\ w.inc = incarnation
    BY <1>2, StartEffect
  <2>3. \A u \in workers : u.inc = incarnation => u.id # nextTaskId + 1
    BY DEF CounterInv, CountersBound, TypeOK, Worker
  <2> QED
    BY <2>1, <2>2, <2>3 DEF UniqueWorkers
<1>3. CASE Cancel(p)
  BY <1>3 DEF Cancel, threads, history, UniqueWorkers
<1> QED
  BY <1>1, <1>2, <1>3

LEMMA UniqueWorker ==
    ASSUME TypeOK, UniqueWorkers, NEW w \in workers, WorkerNext(w)
    PROVE  UniqueWorkers'
<1>1. incarnation' = incarnation
  BY WorkerEffect DEF Quiet, Heard, Write
<1>2. \/ Exit(w)
      \/ \E v \in Worker : Step(w, v) /\ v.id = w.id /\ v.inc = w.inc
  <2>1. /\ Advanced(w) \in Worker /\ Advanced(w).id = w.id /\ Advanced(w).inc = w.inc
    BY WorkerFields, AdvancedType
  <2> QED
    BY <2>1, WorkerEffect
<1> QED
  BY <1>1, <1>2 DEF Exit, Step, UniqueWorkers

LEMMA UniqueStep == TypeOK /\ CounterInv /\ UniqueWorkers /\ [Next]_vars => UniqueWorkers'
<1> SUFFICES ASSUME TypeOK, CounterInv, UniqueWorkers, [Next]_vars PROVE UniqueWorkers'
  OBVIOUS
<1>1. CASE workers' = workers /\ incarnation' = incarnation
  BY <1>1 DEF UniqueWorkers
<1>2. CASE workers' = workers /\ ResetStore
  <2>1. \A u \in workers : u.inc < incarnation' /\ u.inc \in Nat
    BY <1>2, OlderWorkers DEF ResetStore, TypeOK, Worker
  <2>2. incarnation' \in Nat
    BY <1>2, TypeResetStore
  <2> QED
    BY <1>2, <2>1, <2>2 DEF UniqueWorkers
<1>3. CASE MutationNext
  BY <1>1, <1>3 DEF MutationNext, MutationExecutes, MutationChecksSession, MutationReadsKey,
                    MutationInvalidates, MutationFails, MutationMissesStore, history
<1>4. CASE SystemNext
  BY <1>1, <1>2, <1>4 DEF SystemNext, RefreshBegins, RefreshSetsSnapshot, RefreshFails,
         RefreshResets, AttachBegins, AttachResets, AttachFails, AttachCompletes, history
<1>5. CASE UNCHANGED vars
  BY <1>1, <1>5 DEF vars, threads, history
<1> QED
  BY <1>3, <1>4, <1>5, NextCases, UniqueStart, UniqueWorker

-----------------------------------------------------------------------------
(* The page in the hands of a worker is the one at its offset.             *)
AtOffset(w) == w.pc = "apply" => \/ w.page = NoPage
                                 \/ Len(w.page.items) = 1 /\ w.page.items[1].page = w.offset

LEMMA PageStep == TypeOK /\ PageAtOffset /\ [Next]_vars => PageAtOffset'
<1> SUFFICES ASSUME TypeOK, PageAtOffset, [Next]_vars PROVE \A u \in workers' : AtOffset(u)
  BY DEF PageAtOffset, AtOffset
<1>0. \A u \in workers : AtOffset(u)
  BY DEF PageAtOffset, AtOffset
<1>1. ASSUME NEW p \in Parents,
             StartInNewSession(p) \/ StartFromCache(p) \/ StartAndSpawn(p) \/ Cancel(p)
      PROVE  \A u \in workers' : AtOffset(u)
  <2>1. \A u \in workers' : u \in workers \/ u.pc = "load"
    BY <1>1, FirstStartEffect, StartEffect DEF Cancel, threads
  <2> QED
    BY <1>0, <2>1 DEF AtOffset
<1>2. ASSUME NEW w \in workers, WorkerNext(w)
      PROVE  \A u \in workers' : AtOffset(u)
  <2>0. w \in Worker
    BY WorkerFields
  <2>1. CASE WorkerLoads(w)
    <3> DEFINE v == [w EXCEPT !.pc = "apply", !.page = PageRead(w)]
    <3>1. PageRead(w) \in Page /\ v.offset = w.offset /\ v.page = PageRead(w)
      BY <2>0, PageReadType, LoadedType
    <3>2. AtOffset(v)
      BY <2>0, <3>1, PageReadType DEF AtOffset
    <3>3. workers' = (workers \ {w}) \cup {v}
      BY <2>1 DEF WorkerLoads, Step
    <3> HIDE DEF v
    <3> QED
      BY <1>0, <3>2, <3>3
  <2>2. CASE WorkerLoadFails(w)
    <3>1. [w EXCEPT !.pc = "fail"].pc = "fail"
      BY <2>0, FailingType
    <3> QED
      BY <1>0, <2>2, <3>1 DEF WorkerLoadFails, Step, AtOffset
  <2>3. CASE WorkerApplies(w)
    <3>1. Advanced(w).pc # "apply"
      BY DEF Advanced
    <3> QED
      BY <1>0, <2>3, <3>1 DEF WorkerApplies, Step, AtOffset
  <2>4. CASE WorkerCompletes(w) \/ WorkerFails(w) \/ WorkerRejected(w)
    BY <1>0, <2>4 DEF WorkerCompletes, WorkerFails, WorkerRejected, Exit
  <2> QED
    BY <1>2, <2>1, <2>2, <2>3, <2>4 DEF WorkerNext
<1>3. CASE workers' = workers
  BY <1>0, <1>3
<1>4. CASE MutationNext
  BY <1>3, <1>4 DEF MutationNext, MutationExecutes, MutationChecksSession, MutationReadsKey,
                    MutationInvalidates, MutationFails, MutationMissesStore
<1>5. CASE SystemNext
  BY <1>3, <1>5 DEF SystemNext, RefreshBegins, RefreshSetsSnapshot, RefreshFails,
         RefreshResets, AttachBegins, AttachResets, AttachFails, AttachCompletes
<1>6. CASE UNCHANGED vars
  BY <1>3, <1>6 DEF vars, threads
<1> QED
  BY <1>1, <1>2, <1>4, <1>5, <1>6, NextCases
-----------------------------------------------------------------------------
(* Pages arrive in order: how a contiguous list grows.                     *)
LEMMA ContiguousEmpty == Contiguous(<<>>)
BY DEF Contiguous

LEMMA ContiguousAppend ==
    ASSUME NEW s \in Children, NEW i \in Children, Contiguous(s),
           Len(i) = 1, i[1].page = Len(s)
    PROVE  Contiguous(s \o i) /\ Len(s \o i) = Len(s) + 1
<1>1. Len(s) \in Nat /\ Len(s \o i) = Len(s) + 1
  <2>1. Len(s) \in Nat /\ Len(s \o i) = Len(s) + Len(i)
    BY ConcatProperties, LenProperties DEF Children
  <2> QED
    BY <2>1
<1>2. ASSUME NEW k \in 1..Len(s \o i) PROVE (s \o i)[k].page = k - 1
  <2>1. CASE k <= Len(s)
    <3>1. (s \o i)[k] = s[k] /\ k \in DOMAIN s
      BY <1>1, <1>2, <2>1 DEF Children
    <3> QED
      BY <3>1 DEF Contiguous
  <2>2. CASE k = Len(s) + 1
    <3>1. (s \o i)[k] = i[1]
      BY <1>1, <2>2 DEF Children
    <3> QED
      BY <1>1, <2>2, <3>1
  <2> QED
    BY <1>1, <1>2, <2>1, <2>2
<1>3. DOMAIN (s \o i) = 1..Len(s \o i)
  BY DEF Children
<1> QED
  BY <1>1, <1>2, <1>3 DEF Contiguous

LEMMA ContiguousFirst ==
    ASSUME NEW i \in Children, Len(i) = 1, i[1].page = 0
    PROVE  Contiguous(i)
BY DEF Contiguous, Children

(* The list a worker leaves behind and where it goes on.                   *)
LEMMA AppliedContiguous ==
    ASSUME NEW t \in Task, NEW w \in Worker, NEW rev \in Nat, Contiguous(t.children),
           \/ w.page = NoPage
           \/ Len(w.page.items) = 1 /\ w.page.items[1].page = w.offset,
           w.offset # 0 => w.offset = Len(t.children)
    PROVE  LET c == Applied(t, w.offset, w.page, rev).children
           IN  /\ Contiguous(c)
               /\ Advanced(w).pc # "complete" => Advanced(w).offset = Len(c)
<1> DEFINE c == Applied(t, w.offset, w.page, rev).children
           i == w.page.items
<1>1. /\ w.page \in Page /\ w.offset \in Nat /\ i \in Children /\ t.children \in Children
  BY DEF Worker, Page, Task
<1>2. c = IF w.offset = 0 THEN i ELSE t.children \o i
  BY <1>1, AppliedChildren
<1>3. CASE w.page = NoPage
  <2>1. i = <<>> /\ w.page.more = FALSE
    BY <1>3 DEF NoPage
  <2>2. c = <<>> \/ c = t.children
    <3>1. t.children \o <<>> = t.children
      BY <1>1 DEF Children
    <3> QED
      BY <1>2, <2>1, <3>1
  <2>3. Advanced(w).pc = "complete"
    BY <2>1, AdvancedType
  <2>4. Contiguous(c)
    BY <2>2, ContiguousEmpty
  <2> QED
    BY <2>3, <2>4
<1>4. CASE Len(i) = 1 /\ i[1].page = w.offset
  <2>1. Contiguous(c) /\ Len(c) = w.offset + 1
    <3>1. CASE w.offset = 0
      BY <1>1, <1>2, <1>4, <3>1, ContiguousFirst
    <3>2. CASE w.offset # 0
      BY <1>1, <1>2, <1>4, <3>2, ContiguousAppend
    <3> QED
      BY <3>1, <3>2
  <2>2. Advanced(w).offset = w.offset + 1
    BY AdvancedType
  <2> QED
    BY <2>1, <2>2
<1> QED
  BY <1>3, <1>4

(* OffsetAtEnd of one worker, PagesContiguous of one parent.               *)
AtEnd(w) ==
    /\ w.inc = incarnation /\ Matches(w) /\ w.parent \notin foreign
    /\ w.pc # "complete" /\ w.offset # 0
    => w.offset = Len(tasks[w.parent].children)

InOrder(p) == p \notin foreign => Contiguous(tasks[p].children) /\ Contiguous(cache[p].children)

Ordered == (\A w \in workers : AtEnd(w)) /\ (\A p \in Parents : InOrder(p))

LEMMA OrderedIsInv == Ordered <=> OffsetAtEnd /\ PagesContiguous
BY DEF Ordered, AtEnd, InOrder, OffsetAtEnd, PagesContiguous

LEMMA OrderedReset ==
    ASSUME TypeOK, Ordered,
           \A p \in Parents : tasks'[p] = NoTask /\ cache'[p] = NoEntry,
           workers' = workers
    PROVE  Ordered'
<1>1. NoTask.children = <<>> /\ NoEntry.children = <<>> /\ NoTask.status = "none"
  BY DEF NoTask, NoEntry
<1>2. \A w \in workers : w.parent \in Parents
  BY DEF TypeOK, Worker
<1>3. \A w \in workers' : AtEnd(w)'
  BY <1>1, <1>2 DEF AtEnd, Matches
<1>4. \A p \in Parents : InOrder(p)'
  BY <1>1, ContiguousEmpty DEF InOrder
<1> QED
  BY <1>3, <1>4 DEF Ordered

LEMMA OrderedStart ==
    ASSUME TypeOK, CounterInv, Ordered, NEW p \in Parents,
           StartInNewSession(p) \/ StartFromCache(p) \/ StartAndSpawn(p) \/ Cancel(p)
    PROVE  Ordered'
<1>0. \A u \in workers : /\ u \in Worker /\ u.parent \in Parents
                         /\ u.id \in Nat /\ u.inc \in Nat
  BY DEF TypeOK, Worker
<1>1. CASE StartInNewSession(p)
  <2>1. PICK t \in Task, w \in Worker :
              /\ tasks' = [q \in Parents |-> IF q = p THEN t ELSE NoTask]
              /\ workers' = workers \cup {w}
              /\ t.children = <<>> /\ w.offset = 0
    BY <1>1, FirstStartEffect
  <2>2. cache' = [q \in Parents |-> NoEntry] /\ incarnation' = NextIncarnation
    BY <1>1 DEF StartInNewSession
  <2>3. \A u \in workers : u.inc # incarnation'
    BY <1>0, <2>2, OlderWorkers DEF TypeOK, NextIncarnation
  <2>4. NoTask.children = <<>> /\ NoEntry.children = <<>>
    BY DEF NoTask, NoEntry
  <2>5. \A u \in workers' : AtEnd(u)'
    BY <2>1, <2>3 DEF AtEnd
  <2>6. \A q \in Parents : InOrder(q)'
    BY <2>1, <2>2, <2>4, ContiguousEmpty DEF InOrder
  <2> QED
    BY <2>5, <2>6 DEF Ordered
<1>2. CASE StartFromCache(p) \/ StartAndSpawn(p)
  <2>1. PICK t \in Task :
              /\ tasks' = [tasks EXCEPT ![p] = t] /\ t.id = nextTaskId + 1
              /\ t.children = tasks[p].children \/ t.children = cache[p].children
              /\ \/ UNCHANGED workers
                 \/ \E w \in Worker : workers' = workers \cup {w} /\ w.offset = 0
    BY <1>2, StartEffect
  <2>2. UNCHANGED <<activeSession, cache, incarnation, foreign>>
    BY <1>2 DEF StartFromCache, StartAndSpawn, StartGuard, history
  <2>3. \A q \in Parents : tasks'[q] = IF q = p THEN t ELSE tasks[q]
    BY <2>1 DEF TypeOK
  <2>4. \A u \in workers : u.inc = incarnation => u.id # t.id
    BY <1>0, <2>1 DEF CounterInv, CountersBound, TypeOK
  <2>5. ASSUME NEW u \in workers PROVE AtEnd(u)'
    <3>1. CASE u.parent = p
      BY <1>0, <2>2, <2>3, <2>4, <3>1 DEF AtEnd, Matches
    <3>2. CASE u.parent # p
      BY <1>0, <2>2, <2>3, <3>2 DEF AtEnd, Matches, Ordered
    <3> QED
      BY <3>1, <3>2
  <2>6. \A u \in workers' : AtEnd(u)'
    BY <2>1, <2>5 DEF AtEnd
  <2>7. \A q \in Parents : InOrder(q)'
    BY <2>1, <2>2, <2>3 DEF InOrder, Ordered
  <2> QED
    BY <2>6, <2>7 DEF Ordered
<1>3. CASE Cancel(p)
  <2> DEFINE t == Abandoned(tasks[p], resourceRevision + 1)
  <2>1. /\ t.id = tasks[p].id /\ t.epoch = tasks[p].epoch /\ t.session = tasks[p].session
        /\ t.children = tasks[p].children
    <3>1. tasks[p] \in Task /\ resourceRevision + 1 \in Nat
      BY DEF TypeOK
    <3> QED
      BY <3>1, AbandonedType
  <2>2. /\ tasks' = [tasks EXCEPT ![p] = t] /\ tasks[p].status # "none"
        /\ UNCHANGED <<activeSession, cache, workers, incarnation, foreign>>
    BY <1>3 DEF Cancel, threads, history
  <2> HIDE DEF t
  <2>3. \A q \in Parents : tasks'[q] = IF q = p THEN t ELSE tasks[q]
    BY <2>2 DEF TypeOK
  <2>4. \A u \in workers' : AtEnd(u)'
    BY <1>0, <2>1, <2>2, <2>3 DEF AtEnd, Matches, Ordered
  <2>5. \A q \in Parents : InOrder(q)'
    BY <2>1, <2>2, <2>3 DEF InOrder, Ordered
  <2> QED
    BY <2>4, <2>5 DEF Ordered
<1> QED
  BY <1>1, <1>2, <1>3
(* A write by w leaves the other workers of its incarnation where they are.*)
LEMMA OthersUnmoved ==
    ASSUME TypeOK, UniqueWorkers, Ordered, NEW w \in workers, NEW t \in Task, Heard(w, t),
           NEW u \in workers, u # w
    PROVE  AtEnd(u)'
<1>1. /\ tasks' = [tasks EXCEPT ![w.parent] = t] /\ t.id = tasks[w.parent].id
      /\ UNCHANGED <<activeSession, incarnation>>
      /\ tasks[w.parent].id = w.id /\ foreign \subseteq foreign'
      /\ w.inc # incarnation => w.parent \in foreign'
  BY DEF Heard, Write, Matches
<1>2. w.parent \in Parents /\ u.parent \in Parents
  BY WorkerFields
<1>3. \A q \in Parents : tasks'[q] = IF q = w.parent THEN t ELSE tasks[q]
  BY <1>1 DEF TypeOK
<1>4. AtEnd(u)
  BY DEF Ordered
<1>5. CASE u.parent = w.parent
  <2>1. u.inc = incarnation /\ u.id = w.id => w.inc # incarnation
    BY DEF UniqueWorkers
  <2> QED
    BY <1>1, <1>2, <1>3, <1>5, <2>1 DEF AtEnd, Matches
<1>6. CASE u.parent # w.parent
  BY <1>1, <1>2, <1>3, <1>4, <1>6 DEF AtEnd, Matches
<1> QED
  BY <1>5, <1>6

LEMMA OrderedWorker ==
    ASSUME TypeOK, UniqueWorkers, PageAtOffset, Ordered, NEW w \in workers, WorkerNext(w)
    PROVE  Ordered'
<1>0. /\ w \in Worker /\ w.parent \in Parents /\ tasks[w.parent] \in Task
      /\ resourceRevision + 1 \in Nat
  BY WorkerFields
<1>1. CASE WorkerLoads(w) \/ WorkerLoadFails(w) \/ WorkerRejected(w)
  <2>1. UNCHANGED <<activeSession, tasks, cache, incarnation, foreign>>
    BY <1>1 DEF WorkerLoads, WorkerLoadFails, WorkerRejected, store, history
  <2>2. \A u \in workers' : \/ u \in workers
                            \/ /\ u.parent = w.parent /\ u.id = w.id /\ u.epoch = w.epoch
                               /\ u.session = w.session /\ u.inc = w.inc
                               /\ u.offset = w.offset /\ w.pc # "complete"
    <3>1. CASE WorkerLoads(w)
      <4> DEFINE v == [w EXCEPT !.pc = "apply", !.page = PageRead(w)]
      <4>1. /\ v.parent = w.parent /\ v.id = w.id /\ v.epoch = w.epoch
            /\ v.session = w.session /\ v.inc = w.inc /\ v.offset = w.offset
        BY <1>0, PageReadType, LoadedType
      <4>2. workers' = (workers \ {w}) \cup {v} /\ w.pc # "complete"
        BY <3>1 DEF WorkerLoads, Step
      <4> HIDE DEF v
      <4> QED
        BY <4>1, <4>2
    <3>2. CASE WorkerLoadFails(w)
      <4> DEFINE v == [w EXCEPT !.pc = "fail"]
      <4>1. /\ v.parent = w.parent /\ v.id = w.id /\ v.epoch = w.epoch
            /\ v.session = w.session /\ v.inc = w.inc /\ v.offset = w.offset
        BY <1>0, FailingType
      <4>2. workers' = (workers \ {w}) \cup {v} /\ w.pc # "complete"
        BY <3>2 DEF WorkerLoadFails, Step
      <4> HIDE DEF v
      <4> QED
        BY <4>1, <4>2
    <3>3. CASE WorkerRejected(w)
      BY <3>3 DEF WorkerRejected, Exit
    <3> QED
      BY <1>1, <3>1, <3>2, <3>3
  <2>3. ASSUME NEW u \in workers' PROVE AtEnd(u)'
    <3>1. AtEnd(w) /\ (u \in workers => AtEnd(u))
      BY DEF Ordered
    <3> QED
      BY <2>1, <2>2, <3>1 DEF AtEnd, Matches
  <2>4. \A q \in Parents : InOrder(q)'
    BY <2>1 DEF InOrder, Ordered
  <2> QED
    BY <2>3, <2>4 DEF Ordered
<1>2. CASE WorkerApplies(w)
  <2> DEFINE t == Applied(tasks[w.parent], w.offset, w.page, resourceRevision + 1)
             v == Advanced(w)
  <2>1. /\ Matches(w) /\ w.pc = "apply" /\ Write(w, t) /\ cache' = cache
        /\ workers' = (workers \ {w}) \cup {v}
    BY <1>2 DEF WorkerApplies, Step
  <2>2. t \in Task /\ Heard(w, t)
    BY <1>2, <2>1, AppliedHeard
  <2>3. v.parent = w.parent /\ v.inc = w.inc
    BY <1>0, AdvancedType
  <2>4. ASSUME w.parent \notin foreign'
        PROVE  /\ Contiguous(t.children)
               /\ v.pc # "complete" => v.offset = Len(t.children)
    <3>1. w.inc = incarnation /\ w.parent \notin foreign
      BY <2>1, <2>4 DEF Write
    <3>2. Contiguous(tasks[w.parent].children)
      BY <1>0, <3>1 DEF Ordered, InOrder
    <3>3. w.offset # 0 => w.offset = Len(tasks[w.parent].children)
      BY <2>1, <3>1 DEF Ordered, AtEnd
    <3>4. \/ w.page = NoPage
          \/ Len(w.page.items) = 1 /\ w.page.items[1].page = w.offset
      BY <2>1 DEF PageAtOffset
    <3> QED
      BY <1>0, <3>2, <3>3, <3>4, AppliedContiguous
  <2> HIDE DEF t, v
  <2>5. /\ tasks' = [tasks EXCEPT ![w.parent] = t] /\ foreign \subseteq foreign'
        /\ incarnation' = incarnation
    BY <2>1 DEF Write
  <2>6. \A q \in Parents : tasks'[q] = IF q = w.parent THEN t ELSE tasks[q]
    BY <2>5 DEF TypeOK
  <2>7. \A u \in workers' : u # v => AtEnd(u)'
    BY <2>1, <2>2, OthersUnmoved
  <2>8. \A u : u = v => AtEnd(u)'
    BY <1>0, <2>3, <2>4, <2>6 DEF AtEnd
  <2>9. \A q \in Parents : InOrder(q)'
    BY <2>1, <2>4, <2>5, <2>6 DEF InOrder, Ordered
  <2> QED
    BY <2>7, <2>8, <2>9 DEF Ordered
<1>3. CASE WorkerCompletes(w) \/ WorkerFails(w)
  <2>1. PICK t \in Task : Heard(w, t) /\ Exit(w) /\ t.children = tasks[w.parent].children
    BY <1>0, <1>3, LastHeard
  <2>2. \A q \in Parents : cache'[q].children \in {cache[q].children, tasks[q].children}
    BY <1>0, <1>3 DEF WorkerCompletes, WorkerFails, TypeOK
  <2>3. tasks' = [tasks EXCEPT ![w.parent] = t] /\ foreign \subseteq foreign'
    BY <2>1 DEF Heard, Write
  <2>4. \A q \in Parents : tasks'[q].children = tasks[q].children
    BY <2>1, <2>3 DEF TypeOK
  <2>5. \A u \in workers' : AtEnd(u)'
    BY <2>1, OthersUnmoved DEF Exit
  <2>6. \A q \in Parents : InOrder(q)'
    BY <2>2, <2>3, <2>4 DEF InOrder, Ordered
  <2> QED
    BY <2>5, <2>6 DEF Ordered
<1> QED
  BY <1>1, <1>2, <1>3 DEF WorkerNext
LEMMA OrderedMutation ==
    ASSUME TypeOK, CounterInv, Ordered, MutationNext
    PROVE  Ordered'
<1>0. \A u \in workers : u.parent \in Parents /\ u.epoch \in Nat
  BY DEF TypeOK, Worker
<1>1. CASE UNCHANGED <<store, workers, history>>
  BY <1>1 DEF store, history, Ordered, AtEnd, InOrder, Matches
<1>2. CASE MutationInvalidates
  <2>1. /\ UNCHANGED <<activeSession, workers, incarnation, foreign>>
        /\ \A p \in Parents : cache'[p] = cache[p] \/ cache'[p] = NoEntry
    BY <1>2 DEF MutationInvalidates
  <2>2. \A p \in Parents :
            \/ tasks'[p] = tasks[p]
            \/ /\ tasks'[p].epoch = mutationEpoch + 1
               /\ tasks'[p].children = tasks[p].children
    BY <1>2, InvalidateEffect
  <2>3. \A u \in workers : u.inc = incarnation => u.epoch # mutationEpoch + 1
    BY <1>0 DEF CounterInv, CountersBound, TypeOK
  <2>4. ASSUME NEW u \in workers PROVE AtEnd(u)'
    <3>1. CASE tasks'[u.parent] = tasks[u.parent]
      BY <2>1, <3>1 DEF AtEnd, Matches, Ordered
    <3>2. CASE tasks'[u.parent].epoch = mutationEpoch + 1
      BY <2>1, <2>3, <3>2 DEF AtEnd, Matches
    <3> QED
      BY <1>0, <2>2, <3>1, <3>2
  <2>5. NoEntry.children = <<>>
    BY DEF NoEntry
  <2>6. \A q \in Parents : InOrder(q)'
    BY <2>1, <2>2, <2>5, ContiguousEmpty DEF InOrder, Ordered
  <2> QED
    BY <2>1, <2>4, <2>6 DEF Ordered
<1> QED
  BY <1>1, <1>2 DEF MutationNext, MutationExecutes, MutationChecksSession, MutationReadsKey,
                    MutationFails, MutationMissesStore

LEMMA OrderedSystem ==
    ASSUME TypeOK, Ordered, SystemNext
    PROVE  Ordered'
<1>1. CASE RefreshResets \/ AttachResets
  BY <1>1, OrderedReset DEF RefreshResets, AttachResets, ResetStore
<1>2. CASE UNCHANGED <<store, workers, history>>
  BY <1>2 DEF store, history, Ordered, AtEnd, InOrder, Matches
<1> QED
  BY <1>1, <1>2 DEF SystemNext, RefreshBegins, RefreshSetsSnapshot, RefreshFails, AttachBegins,
                    AttachFails, AttachCompletes

LEMMA OrderedStep ==
    TypeOK /\ CounterInv /\ UniqueWorkers /\ PageAtOffset /\ Ordered /\ [Next]_vars => Ordered'
<1> SUFFICES ASSUME TypeOK, CounterInv, UniqueWorkers, PageAtOffset, Ordered, [Next]_vars
             PROVE  Ordered'
  OBVIOUS
<1>1. CASE UNCHANGED vars
  BY <1>1 DEF vars, store, threads, history, Ordered, AtEnd, InOrder, Matches
<1>2. CASE Next
  BY <1>2, NextCases, OrderedStart, OrderedWorker, OrderedMutation, OrderedSystem
<1> QED
  BY <1>1, <1>2

(* The inductive invariant behind the order of the pages.                  *)
THEOREM ContiguityCorrect == Spec => []ContiguityInv
<1>1. Init => UniqueWorkers /\ PageAtOffset /\ Ordered
  <2>1. ASSUME Init PROVE Ordered
    <3>1. NoTask.children = <<>> /\ NoEntry.children = <<>>
      BY DEF NoTask, NoEntry
    <3> QED
      BY <2>1, <3>1, ContiguousEmpty DEF Init, Ordered, InOrder
  <2> QED
    BY <2>1 DEF Init, UniqueWorkers, PageAtOffset
<1>2. Spec => [](UniqueWorkers /\ PageAtOffset /\ Ordered)
  BY <1>1, UniqueStep, PageStep, OrderedStep, TypeCorrect, CountersCorrect, PTL DEF Spec
<1>3. UniqueWorkers /\ PageAtOffset /\ Ordered => ContiguityInv
  BY OrderedIsInv DEF ContiguityInv
<1> QED
  BY <1>2, <1>3, PTL

(* A list of children has no gap and no repeated page.                     *)
THEOREM PagesAlwaysContiguous == Spec => []PagesContiguous
<1>1. ContiguityInv => PagesContiguous
  BY DEF ContiguityInv
<1> QED
  BY <1>1, ContiguityCorrect, PTL

-----------------------------------------------------------------------------
(* What is labelled fresh is current: it was read after every mutation     *)
(* that named it.                                                          *)

(* What the label of a written task is.                                    *)
LEMMA AbandonedLabel ==
    ASSUME NEW t \in Task, NEW rev \in Nat
    PROVE  Abandoned(t, rev).freshness # "fresh"
BY DEF Abandoned, Task, Retained

LEMMA FailedLabel ==
    ASSUME NEW t \in Task, NEW rev \in Nat
    PROVE  Failed(t, rev).freshness # "fresh"
BY DEF Failed, Task

LEMMA InvalidatedLabel ==
    ASSUME NEW t \in Task, NEW rev \in Nat
    PROVE  Invalidated(t, rev).freshness # "fresh"
BY DEF Invalidated, Task, Retained

LEMMA NewTaskLabel ==
    ASSUME NEW p \in Parents, NEW id \in Nat, NEW rev \in Nat
    PROVE  NewTask(p, id, rev).freshness # "fresh"
BY DEF NewTask

LEMMA DefaultLabels ==
    /\ NoTask.status = "none" /\ NoTask.freshness # "fresh" /\ NoTask.children = <<>>
    /\ NoEntry.present = FALSE /\ NoPage.items = <<>>
BY DEF NoTask, NoEntry, NoPage

-----------------------------------------------------------------------------
(* How a current list grows.                                               *)
LEMMA CurrentEmpty == \A p \in Parents : Current(<<>>, p)
BY DEF Current

LEMMA CurrentAppend ==
    ASSUME NEW p \in Parents, NEW s \in Children, NEW i \in Children,
           Current(s, p), Current(i, p)
    PROVE  Current(s \o i, p)
<1>1. /\ Len(s) \in Nat /\ Len(i) \in Nat /\ Len(s \o i) = Len(s) + Len(i)
      /\ DOMAIN s = 1..Len(s) /\ DOMAIN i = 1..Len(i) /\ DOMAIN (s \o i) = 1..Len(s \o i)
  BY ConcatProperties, LenProperties DEF Children
<1>2. ASSUME NEW k \in 1..Len(s \o i) PROVE (s \o i)[k].ver >= invalidated[p]
  <2>1. CASE k <= Len(s)
    <3>1. (s \o i)[k] = s[k] /\ k \in DOMAIN s
      BY <1>1, <1>2, <2>1 DEF Children
    <3> QED
      BY <3>1 DEF Current
  <2>2. CASE ~(k <= Len(s))
    <3>1. (s \o i)[k] = i[k - Len(s)] /\ k - Len(s) \in DOMAIN i
      BY <1>1, <1>2, <2>2 DEF Children
    <3> QED
      BY <3>1 DEF Current
  <2> QED
    BY <2>1, <2>2
<1> QED
  BY <1>1, <1>2 DEF Current

LEMMA AppliedCurrent ==
    ASSUME TypeOK, NEW w \in workers, NEW rev \in Nat,
           Current(w.page.items, w.parent),
           w.offset # 0 => Current(tasks[w.parent].children, w.parent)
    PROVE  Current(Applied(tasks[w.parent], w.offset, w.page, rev).children, w.parent)
<1> DEFINE old == tasks[w.parent]
           i == w.page.items
<1>1. /\ w.parent \in Parents /\ old \in Task /\ w.page \in Page /\ i \in Children
      /\ old.children \in Children /\ w.offset \in Nat
  BY WorkerFields DEF Page
<1>2. Applied(old, w.offset, w.page, rev).children =
          IF w.offset = 0 THEN i ELSE old.children \o i
  BY <1>1, AppliedChildren
<1>3. w.offset # 0 => Current(old.children \o i, w.parent)
  BY <1>1, CurrentAppend
<1> QED
  BY <1>2, <1>3

LEMMA PageIsCurrent ==
    ASSUME TypeOK, ListingIsNewest, NEW w \in workers
    PROVE  Current(PageRead(w).items, w.parent)
<1> DEFINE p == w.parent
<1>1. p \in Parents /\ invalidated[p] <= listing[p].ver
  BY WorkerFields DEF ListingIsNewest
<1>2. invalidated[p] \in Nat /\ listing[p].ver \in Nat
  BY <1>1 DEF TypeOK
<1>3. PageRead(w).items =
          IF w.offset < listing[p].count
          THEN <<[page |-> w.offset, ver |-> listing[p].ver]>> ELSE <<>>
  BY DEF PageRead
<1> QED
  BY <1>1, <1>2, <1>3 DEF Current

-----------------------------------------------------------------------------
(* HeardIsCurrent of one worker; FreshIsCurrent, CacheIsCurrent and        *)
(* AbsentIsNotFresh of one parent.                                         *)
Holds(w) ==
    w.inc = incarnation /\ Matches(w) /\ w.parent \notin foreign =>
        /\ Current(w.page.items, w.parent)
        /\ w.offset # 0 => Current(tasks[w.parent].children, w.parent)
        /\ w.pc = "complete" => w.offset # 0

Shows(p) ==
    /\ tasks[p].status = "none" => tasks[p].freshness # "fresh"
    /\ p \notin foreign =>
          /\ tasks[p].freshness = "fresh" => Current(tasks[p].children, p)
          /\ cache[p].present => Current(cache[p].children, p)

Labelled == (\A w \in workers : Holds(w)) /\ (\A p \in Parents : Shows(p))

LEMMA LabelledIsInv == Labelled /\ ListingIsNewest <=> FreshnessInv
BY DEF Labelled, Holds, Shows, FreshnessInv, FreshIsCurrent, HeardIsCurrent, CacheIsCurrent,
       AbsentIsNotFresh

(* The listing is newer than what an invalidation covers.                  *)
LEMMA ListingStep == TypeOK /\ ListingIsNewest /\ [Next]_vars => ListingIsNewest'
<1> SUFFICES ASSUME TypeOK, ListingIsNewest, [Next]_vars PROVE ListingIsNewest'
  OBVIOUS
<1>0. /\ gameVersion \in Nat
      /\ \A p \in Parents : invalidated[p] \in Nat /\ listing[p].ver \in Nat
  BY DEF TypeOK
<1>1. CASE UNCHANGED <<game, invalidated>>
  BY <1>1 DEF game, ListingIsNewest
<1>2. ASSUME NEW listed \in SUBSET Parents, NEW child \in ListedChildren \cup {NoChild},
             MutationExecutes(listed, child)
      PROVE  ListingIsNewest'
  <2>1. gameVersion' = gameVersion + 1 /\ invalidated' = invalidated
    BY <1>2 DEF MutationExecutes, history
  <2>2. \A p \in Parents : listing'[p] = listing[p] \/ listing'[p].ver = gameVersion + 1
    BY <1>2 DEF MutationExecutes
  <2> QED
    BY <1>0, <2>1, <2>2 DEF ListingIsNewest
<1>3. CASE MutationInvalidates
  <2>1. UNCHANGED <<listing, gameVersion>>
    BY <1>3 DEF MutationInvalidates, game
  <2>2. \A p \in Parents : invalidated'[p] = invalidated[p] \/ invalidated'[p] = listing[p].ver
    BY <1>3 DEF MutationInvalidates
  <2> QED
    BY <1>0, <2>1, <2>2 DEF ListingIsNewest
<1>4. CASE UNCHANGED vars
  BY <1>1, <1>4 DEF vars, history
<1>5. ASSUME NEW p \in Parents,
             StartInNewSession(p) \/ StartFromCache(p) \/ StartAndSpawn(p) \/ Cancel(p)
      PROVE  UNCHANGED <<game, invalidated>>
  BY <1>5 DEF StartInNewSession, StartFromCache, StartAndSpawn, StartGuard, Cancel, history
<1>6. ASSUME NEW w \in workers, WorkerNext(w)
      PROVE  UNCHANGED <<game, invalidated>>
  BY <1>6 DEF WorkerNext, WorkerLoads, WorkerLoadFails, WorkerApplies, WorkerCompletes,
              WorkerFails, WorkerRejected, Write, history
<1>7. CASE MutationChecksSession \/ MutationFails \/ MutationReadsKey \/ MutationMissesStore
  BY <1>1, <1>7 DEF MutationChecksSession, MutationReadsKey, MutationFails,
                    MutationMissesStore, history
<1>8. CASE SystemNext
  BY <1>1, <1>8 DEF SystemNext, RefreshBegins, RefreshSetsSnapshot, RefreshFails, RefreshResets,
                    AttachBegins, AttachResets, AttachFails, AttachCompletes, history
<1> QED
  BY <1>1, <1>2, <1>3, <1>4, <1>5, <1>6, <1>7, <1>8, NextCases DEF MutationNext

-----------------------------------------------------------------------------
(* What a start puts into the store.                                       *)
LEMMA StartedLabel ==
    ASSUME TypeOK, NEW p \in Parents, StartFromCache(p) \/ StartAndSpawn(p)
    PROVE  \E t \in Task :
              /\ tasks' = [tasks EXCEPT ![p] = t]
              /\ t.id = nextTaskId + 1 /\ t.status # "none"
              /\ \/ /\ cache[p].present /\ t.children = cache[p].children
                    /\ UNCHANGED workers
                 \/ /\ t.freshness # "fresh"
                    /\ \E w \in Worker : /\ workers' = workers \cup {w}
                                         /\ w.page = NoPage /\ w.offset = 0 /\ w.pc = "load"
<1> DEFINE n == NewTask(p, nextTaskId + 1, resourceRevision + 1)
           c == cache[p].children
<1>1. /\ n \in Task /\ n.id = nextTaskId + 1 /\ n.status = "loading"
      /\ n.freshness # "fresh"
  BY NewTaskType, NewTaskLabel DEF TypeOK
<1>2. c \in Children
  BY DEF TypeOK, Entry
<1>3. CASE StartFromCache(p)
  <2>1. /\ tasks' = [tasks EXCEPT ![p] = Served(n, c)] /\ UNCHANGED workers
        /\ cache[p].present
    BY <1>3 DEF StartFromCache, Cached
  <2> HIDE DEF n
  <2>2. /\ Served(n, c) \in Task /\ Served(n, c).id = n.id
        /\ Served(n, c).status = "ready" /\ Served(n, c).children = c
    BY <1>1, <1>2, ServedType
  <2> QED
    BY <1>1, <2>1, <2>2
<1>4. CASE StartAndSpawn(p)
  <2> DEFINE w == NewWorker(p, n, incarnation)
  <2>1. tasks' = [tasks EXCEPT ![p] = n] /\ workers' = workers \cup {w}
    BY <1>4 DEF StartAndSpawn
  <2> HIDE DEF n
  <2>2. /\ w \in Worker /\ w.page = NoPage /\ w.offset = 0 /\ w.pc = "load"
    BY <1>1, NewWorkerType DEF TypeOK
  <2> HIDE DEF w
  <2> QED
    BY <1>1, <2>1, <2>2
<1> QED
  BY <1>3, <1>4

LEMMA FirstStartedLabel ==
    ASSUME TypeOK, NEW p \in Parents, StartInNewSession(p)
    PROVE  \E t \in Task, w \in Worker :
              /\ tasks' = [q \in Parents |-> IF q = p THEN t ELSE NoTask]
              /\ workers' = workers \cup {w}
              /\ t.status # "none" /\ t.freshness # "fresh"
              /\ w.page = NoPage /\ w.offset = 0 /\ w.pc = "load"
<1> DEFINE t == FirstTask(attached)
           w == NewWorker(p, t, NextIncarnation)
<1>1. t \in Task /\ t.status = "loading" /\ t.freshness # "fresh"
  BY FirstTaskType DEF TypeOK, FirstTask, NoTask
<1>2. /\ tasks' = [q \in Parents |-> IF q = p THEN t ELSE NoTask]
      /\ workers' = workers \cup {w}
  BY DEF StartInNewSession
<1>3. NextIncarnation \in Nat
  BY DEF TypeOK, NextIncarnation
<1> HIDE DEF t
<1>4. w \in Worker /\ w.page = NoPage /\ w.offset = 0 /\ w.pc = "load"
  BY <1>1, <1>3, NewWorkerType
<1> HIDE DEF w
<1> QED
  BY <1>1, <1>2, <1>4

LEMMA LabelledReset ==
    ASSUME TypeOK, Labelled,
           \A p \in Parents : tasks'[p] = NoTask /\ cache'[p] = NoEntry,
           workers' = workers
    PROVE  Labelled'
<1>1. \A w \in workers : w.parent \in Parents
  BY DEF TypeOK, Worker
<1>2. \A w \in workers' : Holds(w)'
  BY <1>1, DefaultLabels DEF Holds, Matches
<1>3. \A p \in Parents : Shows(p)'
  BY DefaultLabels DEF Shows
<1> QED
  BY <1>2, <1>3 DEF Labelled

(* A worker that has just been spawned holds nothing.                      *)
LEMMA NewHolds ==
    ASSUME NEW w, w.page = NoPage, w.offset = 0, w.pc = "load"
    PROVE  Holds(w)'
BY DefaultLabels DEF Holds, Current

LEMMA LabelledStart ==
    ASSUME TypeOK, CounterInv, Labelled, NEW p \in Parents,
           StartInNewSession(p) \/ StartFromCache(p) \/ StartAndSpawn(p) \/ Cancel(p)
    PROVE  Labelled'
<1>0. \A u \in workers : /\ u \in Worker /\ u.parent \in Parents
                         /\ u.id \in Nat /\ u.inc \in Nat
  BY DEF TypeOK, Worker
<1>1. CASE StartInNewSession(p)
  <2>1. PICK t \in Task, w \in Worker :
              /\ tasks' = [q \in Parents |-> IF q = p THEN t ELSE NoTask]
              /\ workers' = workers \cup {w}
              /\ t.status # "none" /\ t.freshness # "fresh"
              /\ w.page = NoPage /\ w.offset = 0 /\ w.pc = "load"
    BY <1>1, FirstStartedLabel
  <2>2. cache' = [q \in Parents |-> NoEntry] /\ incarnation' = NextIncarnation
    BY <1>1 DEF StartInNewSession
  <2>3. \A u \in workers : u.inc # incarnation'
    BY <1>0, <2>2, OlderWorkers DEF TypeOK, NextIncarnation
  <2>4. \A u \in workers : Holds(u)'
    BY <2>3 DEF Holds
  <2>5. \A q \in Parents : Shows(q)'
    BY <2>1, <2>2, DefaultLabels DEF Shows
  <2> QED
    BY <2>1, <2>4, <2>5, NewHolds DEF Labelled
<1>2. CASE StartFromCache(p) \/ StartAndSpawn(p)
  <2>1. PICK t \in Task :
              /\ tasks' = [tasks EXCEPT ![p] = t]
              /\ t.id = nextTaskId + 1 /\ t.status # "none"
              /\ \/ /\ cache[p].present /\ t.children = cache[p].children
                    /\ UNCHANGED workers
                 \/ /\ t.freshness # "fresh"
                    /\ \E w \in Worker : /\ workers' = workers \cup {w}
                                         /\ w.page = NoPage /\ w.offset = 0 /\ w.pc = "load"
    BY <1>2, StartedLabel
  <2>2. UNCHANGED <<activeSession, cache, incarnation, foreign, invalidated>>
    BY <1>2 DEF StartFromCache, StartAndSpawn, StartGuard, history
  <2>3. \A q \in Parents : tasks'[q] = IF q = p THEN t ELSE tasks[q]
    BY <2>1 DEF TypeOK
  <2>4. \A u \in workers : u.inc = incarnation => u.id # t.id
    BY <1>0, <2>1 DEF CounterInv, CountersBound, TypeOK
  <2>5. ASSUME NEW u \in workers PROVE Holds(u)'
    <3>1. CASE u.parent = p
      BY <1>0, <2>2, <2>3, <2>4, <3>1 DEF Holds, Matches
    <3>2. CASE u.parent # p
      BY <1>0, <2>2, <2>3, <3>2 DEF Holds, Matches, Labelled, Current
    <3> QED
      BY <3>1, <3>2
  <2>6. \A u \in workers' : Holds(u)'
    BY <2>1, <2>5, NewHolds
  <2>7. Shows(p)'
    <3>1. cache[p].present /\ p \notin foreign => Current(cache[p].children, p)
      BY DEF Labelled, Shows
    <3>2. Current(cache[p].children, p)' = Current(cache[p].children, p)
      BY <2>2 DEF Current
    <3>3. tasks'[p] = t
      BY <2>3
    <3>4. t.freshness = "fresh" => cache[p].present /\ t.children = cache[p].children
      BY <2>1
    <3>5. t.children = cache[p].children =>
             Current(t.children, p)' = Current(cache[p].children, p)
      BY <2>2 DEF Current
    <3> QED
      BY <2>1, <2>2, <3>1, <3>2, <3>3, <3>4, <3>5 DEF Shows
  <2>8. \A q \in Parents : q # p => Shows(q)'
    BY <2>2, <2>3 DEF Shows, Labelled, Current
  <2> QED
    BY <2>6, <2>7, <2>8 DEF Labelled
<1>3. CASE Cancel(p)
  <2> DEFINE t == Abandoned(tasks[p], resourceRevision + 1)
  <2>1. /\ t.id = tasks[p].id /\ t.epoch = tasks[p].epoch /\ t.session = tasks[p].session
        /\ t.children = tasks[p].children /\ t.freshness # "fresh"
    <3>1. tasks[p] \in Task /\ resourceRevision + 1 \in Nat
      BY DEF TypeOK
    <3> QED
      BY <3>1, AbandonedType, AbandonedLabel
  <2>2. /\ tasks' = [tasks EXCEPT ![p] = t] /\ tasks[p].status # "none"
        /\ UNCHANGED <<activeSession, cache, workers, incarnation, foreign, invalidated>>
    BY <1>3 DEF Cancel, threads, history
  <2> HIDE DEF t
  <2>3. \A q \in Parents : tasks'[q] = IF q = p THEN t ELSE tasks[q]
    BY <2>2 DEF TypeOK
  <2>4. \A u \in workers' : Holds(u)'
    BY <1>0, <2>1, <2>2, <2>3 DEF Holds, Matches, Labelled, Current
  <2>5. \A q \in Parents : Shows(q)'
    BY <2>1, <2>2, <2>3 DEF Shows, Labelled, Current
  <2> QED
    BY <2>4, <2>5 DEF Labelled
<1> QED
  BY <1>1, <1>2, <1>3

-----------------------------------------------------------------------------
(* A worker that only moves on keeps what it holds.                        *)
LEMMA LabelledQuiet ==
    ASSUME TypeOK, Labelled, ListingIsNewest, NEW w \in workers,
           WorkerLoads(w) \/ WorkerLoadFails(w) \/ WorkerRejected(w)
    PROVE  Labelled'
<1>0. w \in Worker /\ w.parent \in Parents
  BY WorkerFields
<1>1. UNCHANGED <<activeSession, tasks, cache, incarnation, foreign, invalidated>>
  BY DEF WorkerLoads, WorkerLoadFails, WorkerRejected, store, history
<1>2. \A u \in workers' : \/ u \in workers
                          \/ /\ u.parent = w.parent /\ u.id = w.id /\ u.epoch = w.epoch
                             /\ u.session = w.session /\ u.inc = w.inc
                             /\ u.offset = w.offset /\ u.pc # "complete"
                             /\ \/ u.page = w.page
                                \/ Current(u.page.items, w.parent)
  <2>1. CASE WorkerLoads(w)
    <3> DEFINE v == [w EXCEPT !.pc = "apply", !.page = PageRead(w)]
    <3>1. /\ v.parent = w.parent /\ v.id = w.id /\ v.epoch = w.epoch
          /\ v.session = w.session /\ v.inc = w.inc /\ v.offset = w.offset
          /\ v.pc = "apply" /\ v.page = PageRead(w)
      BY <1>0, PageReadType, LoadedType
    <3>2. Current(v.page.items, w.parent)
      BY <3>1, PageIsCurrent
    <3>3. workers' = (workers \ {w}) \cup {v}
      BY <2>1 DEF WorkerLoads, Step
    <3> HIDE DEF v
    <3> QED
      BY <3>1, <3>2, <3>3
  <2>2. CASE WorkerLoadFails(w)
    <3> DEFINE v == [w EXCEPT !.pc = "fail"]
    <3>1. /\ v.parent = w.parent /\ v.id = w.id /\ v.epoch = w.epoch
          /\ v.session = w.session /\ v.inc = w.inc /\ v.offset = w.offset
          /\ v.pc = "fail"
      BY <1>0, FailingType
    <3>2. v.page = w.page
      BY <1>0 DEF Worker
    <3>3. workers' = (workers \ {w}) \cup {v}
      BY <2>2 DEF WorkerLoadFails, Step
    <3> HIDE DEF v
    <3> QED
      BY <3>1, <3>2, <3>3
  <2>3. CASE WorkerRejected(w)
    BY <2>3 DEF WorkerRejected, Exit
  <2> QED
    BY <2>1, <2>2, <2>3
<1>3. ASSUME NEW u \in workers' PROVE Holds(u)'
  <2>1. Holds(w) /\ (u \in workers => Holds(u))
    BY DEF Labelled
  <2> QED
    BY <1>1, <1>2, <2>1 DEF Holds, Matches, Current
<1>4. \A q \in Parents : Shows(q)'
  BY <1>1 DEF Shows, Labelled, Current
<1> QED
  BY <1>3, <1>4 DEF Labelled

(* A write by w leaves what the other workers hold.                        *)
LEMMA OthersHold ==
    ASSUME TypeOK, UniqueWorkers, Labelled, NEW w \in workers, NEW t \in Task, Heard(w, t),
           NEW u \in workers, u # w
    PROVE  Holds(u)'
<1>1. /\ tasks' = [tasks EXCEPT ![w.parent] = t] /\ t.id = tasks[w.parent].id
      /\ UNCHANGED <<activeSession, incarnation, invalidated>>
      /\ tasks[w.parent].id = w.id /\ foreign \subseteq foreign'
      /\ w.inc # incarnation => w.parent \in foreign'
  BY DEF Heard, Write, Matches
<1>2. w.parent \in Parents /\ u.parent \in Parents
  BY WorkerFields
<1>3. \A q \in Parents : tasks'[q] = IF q = w.parent THEN t ELSE tasks[q]
  BY <1>1 DEF TypeOK
<1>4. Holds(u)
  BY DEF Labelled
<1>5. CASE u.parent = w.parent
  <2>1. u.inc = incarnation /\ u.id = w.id => w.inc # incarnation
    BY DEF UniqueWorkers
  <2> QED
    BY <1>1, <1>2, <1>3, <1>5, <2>1 DEF Holds, Matches
<1>6. CASE u.parent # w.parent
  BY <1>1, <1>2, <1>3, <1>4, <1>6 DEF Holds, Matches, Current
<1> QED
  BY <1>5, <1>6

LEMMA LabelledWorker ==
    ASSUME TypeOK, UniqueWorkers, Labelled, ListingIsNewest, NEW w \in workers, WorkerNext(w)
    PROVE  Labelled'
<1>0. /\ w \in Worker /\ w.parent \in Parents /\ tasks[w.parent] \in Task
      /\ resourceRevision + 1 \in Nat /\ w.offset \in Nat
  BY WorkerFields
<1>1. CASE WorkerLoads(w) \/ WorkerLoadFails(w) \/ WorkerRejected(w)
  BY <1>1, LabelledQuiet
<1>2. CASE WorkerApplies(w)
  <2> DEFINE t == Applied(tasks[w.parent], w.offset, w.page, resourceRevision + 1)
             v == Advanced(w)
  <2>1. /\ Matches(w) /\ Write(w, t) /\ cache' = cache
        /\ workers' = (workers \ {w}) \cup {v}
    BY <1>2 DEF WorkerApplies, Step
  <2>2. t \in Task /\ Heard(w, t)
    BY <1>2, AppliedHeard
  <2>3. v.parent = w.parent /\ v.offset # 0 /\ v.page.items = <<>>
    BY <1>0, AdvancedType, DefaultLabels
  <2>4. w.parent \notin foreign' => Current(t.children, w.parent)
    <3>1. ASSUME w.parent \notin foreign'
          PROVE  /\ Current(w.page.items, w.parent)
                 /\ w.offset # 0 => Current(tasks[w.parent].children, w.parent)
      BY <2>1, <3>1 DEF Write, Labelled, Holds
    <3> QED
      BY <1>0, <3>1, AppliedCurrent
  <2> HIDE DEF t, v
  <2>5. /\ tasks' = [tasks EXCEPT ![w.parent] = t] /\ foreign \subseteq foreign'
        /\ invalidated' = invalidated /\ t.status # "none"
    BY <2>1, <2>2 DEF Write, Heard
  <2>6. \A q \in Parents : tasks'[q] = IF q = w.parent THEN t ELSE tasks[q]
    BY <2>5 DEF TypeOK
  <2>7. \A u \in workers' : u # v => Holds(u)'
    BY <2>1, <2>2, OthersHold
  <2>8. ASSUME NEW u, u = v PROVE Holds(u)'
    BY <1>0, <2>3, <2>4, <2>5, <2>6, <2>8, CurrentEmpty DEF Holds, Current
  <2>9. \A q \in Parents : Shows(q)'
    BY <2>1, <2>4, <2>5, <2>6 DEF Shows, Labelled, Current
  <2> QED
    BY <2>7, <2>8, <2>9 DEF Labelled
<1>3. CASE WorkerCompletes(w)
  <2>1. PICK t \in Task : Heard(w, t) /\ Exit(w) /\ t.children = tasks[w.parent].children
    BY <1>0, <1>3, LastHeard
  <2>2. /\ tasks' = [tasks EXCEPT ![w.parent] = t] /\ foreign \subseteq foreign'
        /\ invalidated' = invalidated /\ t.status # "none"
    BY <2>1 DEF Heard, Write
  <2>3. \A q \in Parents : tasks'[q] = IF q = w.parent THEN t ELSE tasks[q]
    BY <2>2 DEF TypeOK
  <2>4. w.parent \notin foreign' => Current(tasks[w.parent].children, w.parent)
    BY <1>3, <2>1 DEF Heard, Write, WorkerCompletes, Labelled, Holds
  <2>5. \A q \in Parents : \/ cache'[q] = cache[q]
                           \/ /\ q = w.parent
                              /\ cache'[q].children = tasks[w.parent].children
    BY <1>0, <1>3 DEF WorkerCompletes, TypeOK
  <2>6. \A u \in workers' : Holds(u)'
    BY <2>1, OthersHold DEF Exit
  <2>7. \A q \in Parents : Shows(q)'
    BY <2>1, <2>2, <2>3, <2>4, <2>5 DEF Shows, Labelled, Current
  <2> QED
    BY <2>6, <2>7 DEF Labelled
<1>4. CASE WorkerFails(w)
  <2>1. PICK t \in Task : Heard(w, t) /\ Exit(w)
    BY <1>0, <1>4, LastHeard
  <2>2. /\ tasks' = [tasks EXCEPT ![w.parent] = t] /\ foreign \subseteq foreign'
        /\ invalidated' = invalidated /\ cache' = cache
    BY <1>4, <2>1 DEF Heard, Write, WorkerFails
  <2>3. \A q \in Parents : tasks'[q] = IF q = w.parent THEN t ELSE tasks[q]
    BY <2>2 DEF TypeOK
  <2>4. t.freshness # "fresh"
    <3>1. tasks' = [tasks EXCEPT ![w.parent] = Failed(tasks[w.parent], resourceRevision + 1)]
      BY <1>4 DEF WorkerFails, Write
    <3>2. t = Failed(tasks[w.parent], resourceRevision + 1)
      BY <1>0, <2>3, <3>1 DEF TypeOK
    <3> QED
      BY <1>0, <3>2, FailedLabel
  <2>5. \A u \in workers' : Holds(u)'
    BY <2>1, OthersHold DEF Exit
  <2>6. \A q \in Parents : Shows(q)'
    BY <2>2, <2>3, <2>4 DEF Shows, Labelled, Current
  <2> QED
    BY <2>5, <2>6 DEF Labelled
<1> QED
  BY <1>1, <1>2, <1>3, <1>4 DEF WorkerNext

-----------------------------------------------------------------------------
(* A parent whose listing the mutation names: all that is known of it goes *)
(* stale in the step that raises `invalidated'.                            *)
LEMMA CoveredEffect ==
    ASSUME TypeOK, MutationInvalidates, NEW p \in Parents
    PROVE  /\ \/ /\ invalidated'[p] = invalidated[p]
                 /\ tasks'[p] = tasks[p] \/ tasks'[p].freshness # "fresh"
                 /\ cache'[p] = cache[p] \/ cache'[p] = NoEntry
              \/ /\ cache'[p] = NoEntry
                 /\ \/ tasks[p].status = "none" /\ tasks'[p] = tasks[p]
                    \/ /\ tasks'[p].freshness # "fresh"
                       /\ tasks'[p].epoch = mutationEpoch + 1
<1> DEFINE t == Invalidated(tasks[p], resourceRevision + 1)
           hit == {q \in Parents : tasks[q].status # "none" /\ Impacted(q, tasks[q].children)}
           all == AllListings(mutation.listed, mutation.child)
<1>1. t.freshness # "fresh" /\ t.epoch = mutationEpoch + 1
  <2>1. tasks[p] \in Task /\ resourceRevision + 1 \in Nat /\ mutationEpoch \in Nat
    BY DEF TypeOK
  <2> QED
    BY <2>1, InvalidatedType, InvalidatedLabel
<1>2. /\ tasks'[p] = IF p \in hit THEN t ELSE tasks[p]
      /\ cache'[p] = IF Impacted(p, cache[p].children) THEN NoEntry ELSE cache[p]
      /\ invalidated'[p] = IF all \/ p \in mutation.listed THEN listing[p].ver ELSE invalidated[p]
  BY DEF MutationInvalidates
<1>3. all \/ p \in mutation.listed =>
          /\ Impacted(p, cache[p].children)
          /\ p \in hit <=> tasks[p].status # "none"
  BY DEF Impacted
<1> HIDE DEF t, hit, all
<1> QED
  BY <1>1, <1>2, <1>3

LEMMA LabelledMutation ==
    ASSUME TypeOK, CounterInv, Labelled, MutationNext
    PROVE  Labelled'
<1>0. \A u \in workers : u.parent \in Parents /\ u.epoch \in Nat
  BY DEF TypeOK, Worker
<1>1. CASE UNCHANGED <<store, workers, history>>
  BY <1>1 DEF store, history, Labelled, Holds, Shows, Matches, Current
<1>2. CASE MutationInvalidates
  <2>1. UNCHANGED <<activeSession, workers, incarnation, foreign>>
    BY <1>2 DEF MutationInvalidates
  <2>2. \A u \in workers : u.inc = incarnation => u.epoch # mutationEpoch + 1
    BY <1>0 DEF CounterInv, CountersBound, TypeOK
  <2>3. ASSUME NEW u \in workers PROVE Holds(u)'
    <3> DEFINE p == u.parent
    <3>1. /\ p \in Parents
          /\ \/ tasks'[p].epoch = mutationEpoch + 1
             \/ tasks'[p] = tasks[p]
      BY <1>0, <1>2, InvalidateEffect
    <3>2. CASE tasks'[p].epoch = mutationEpoch + 1
      BY <2>1, <2>2, <3>2 DEF Holds, Matches
    <3>3. CASE tasks'[p] = tasks[p] /\ tasks[p].status = "none"
      BY <3>3 DEF Holds, Matches
    <3>4. CASE tasks'[p] = tasks[p] /\ invalidated'[p] = invalidated[p]
      <4>1. Holds(u)
        BY DEF Labelled
      <4> QED
        BY <2>1, <3>4, <4>1 DEF Holds, Matches, Current
    <3>5. tasks'[p].epoch = mutationEpoch + 1 \/ invalidated'[p] = invalidated[p]
              \/ tasks[p].status = "none"
      BY <1>2, <3>1, CoveredEffect
    <3> QED
      BY <3>1, <3>2, <3>3, <3>4, <3>5
  <2>4. ASSUME NEW p \in Parents PROVE Shows(p)'
    <3>1. Shows(p) /\ NoEntry.present = FALSE
      BY DefaultLabels DEF Labelled
    <3>2. CASE /\ invalidated'[p] = invalidated[p]
               /\ tasks'[p] = tasks[p] \/ tasks'[p].freshness # "fresh"
               /\ cache'[p] = cache[p] \/ cache'[p] = NoEntry
      BY <2>1, <3>1, <3>2 DEF Shows, Current
    <3>3. CASE /\ cache'[p] = NoEntry
               /\ \/ tasks[p].status = "none" /\ tasks'[p] = tasks[p]
                  \/ tasks'[p].freshness # "fresh"
      BY <3>1, <3>3 DEF Shows
    <3> QED
      BY <1>2, <3>2, <3>3, CoveredEffect
  <2> QED
    BY <2>1, <2>3, <2>4 DEF Labelled
<1> QED
  BY <1>1, <1>2 DEF MutationNext, MutationExecutes, MutationChecksSession, MutationReadsKey,
                    MutationFails, MutationMissesStore

LEMMA LabelledSystem ==
    ASSUME TypeOK, Labelled, SystemNext
    PROVE  Labelled'
<1>1. CASE RefreshResets \/ AttachResets
  BY <1>1, LabelledReset DEF RefreshResets, AttachResets, ResetStore
<1>2. CASE UNCHANGED <<store, workers, history>>
  BY <1>2 DEF store, history, Labelled, Holds, Shows, Matches, Current
<1> QED
  BY <1>1, <1>2 DEF SystemNext, RefreshBegins, RefreshSetsSnapshot, RefreshFails, AttachBegins,
                    AttachFails, AttachCompletes

LEMMA LabelledStep ==
    /\ TypeOK /\ CounterInv /\ UniqueWorkers /\ ListingIsNewest /\ Labelled
    /\ [Next]_vars
    => Labelled'
<1> SUFFICES ASSUME TypeOK, CounterInv, UniqueWorkers, ListingIsNewest, Labelled, [Next]_vars
             PROVE  Labelled'
  OBVIOUS
<1>1. CASE UNCHANGED vars
  BY <1>1 DEF vars, store, threads, history, Labelled, Holds, Shows, Matches, Current
<1>2. CASE Next
  BY <1>2, NextCases, LabelledStart, LabelledWorker, LabelledMutation, LabelledSystem
<1> QED
  BY <1>1, <1>2

(* The inductive invariant behind the label "fresh": what a worker that    *)
(* will be heard holds, and what the cache keeps, is current.              *)
THEOREM FreshnessCorrect == Spec => []FreshnessInv
<1>1. Init => ListingIsNewest /\ Labelled
  <2>1. ASSUME Init PROVE ListingIsNewest
    <3>1. ASSUME NEW p \in Parents
          PROVE  invalidated[p] = 0 /\ listing[p].ver = 0 /\ gameVersion = 0
      BY <2>1, BoundAssumption DEF Init
    <3> QED
      BY <3>1 DEF ListingIsNewest
  <2>2. ASSUME Init PROVE Labelled
    <3>1. workers = {} /\ \A p \in Parents : tasks[p] = NoTask /\ cache[p] = NoEntry
      BY <2>2 DEF Init
    <3> QED
      BY <3>1, DefaultLabels DEF Labelled, Shows
  <2> QED
    BY <2>1, <2>2
<1>2. Spec => [](ListingIsNewest /\ Labelled)
  <2>1. ContiguityInv => UniqueWorkers
    BY DEF ContiguityInv
  <2> QED
    BY <1>1, <2>1, ListingStep, LabelledStep, TypeCorrect, CountersCorrect, ContiguityCorrect,
       PTL DEF Spec
<1>3. ListingIsNewest /\ Labelled => FreshnessInv
  BY LabelledIsInv
<1> QED
  BY <1>2, <1>3, PTL

(* A list of children labelled fresh was read after the last completed     *)
(* mutation that named its parent, whatever the interleaving.              *)
THEOREM FreshAlwaysCurrent == Spec => []FreshIsCurrent
<1>1. FreshnessInv => FreshIsCurrent
  BY DEF FreshnessInv
<1> QED
  BY <1>1, FreshnessCorrect, PTL
=============================================================================
