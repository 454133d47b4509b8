------------------------ MODULE ScenePageSync_proofs ------------------------
(***************************************************************************)
(* Proofs about the page's copy of the scene.  They follow "Seen", what    *)
(* the page is once React has evaluated everything dispatched so far: a    *)
(* render does not change it, whichever updates it skips or evaluates      *)
(* again, and a dispatch changes it by what is dispatched.                 *)
(***************************************************************************)
EXTENDS ScenePageSync, InductionLemmas, SequenceTheorems, TLAPS

-----------------------------------------------------------------------------
\* What React makes of a sequence of updates.

\* What a render makes of one update.
Step(q, u, all) == IF all \/ IsUrgent(u) THEN Applied(q, u) ELSE q

\* f says what the page is after each of the first n updates.
Evaluates(f, p, sent, all, n) ==
  f = [i \in 0..n |-> IF i = 0 THEN p ELSE Step(f[i - 1], sent[i], all)]

\* There is one evaluation of the first n updates.
LEMMA EvaluationExists ==
  ASSUME NEW p, NEW sent, NEW all, NEW n \in Nat
  PROVE  \E f : Evaluates(f, p, sent, all, n)
<1> DEFINE P == {m \in Nat : \E f : Evaluates(f, p, sent, all, m)}
<1>1. 0 \in P
  <2> DEFINE f == [i \in 0..0 |-> p]
  <2>1. f = [i \in 0..0 |-> IF i = 0 THEN p ELSE Step(f[i - 1], sent[i], all)]
    <3>1. \A i \in 0..0 : i = 0
      OBVIOUS
    <3> QED BY <3>1
  <2> HIDE DEF f
  <2>2. Evaluates(f, p, sent, all, 0)
    BY <2>1 DEF Evaluates
  <2> QED BY <2>2
<1>2. ASSUME NEW m \in P PROVE m + 1 \in P
  <2>1. m \in Nat
    OBVIOUS
  <2>2. PICK f : Evaluates(f, p, sent, all, m)
    OBVIOUS
  <2> DEFINE g == [i \in 0..(m + 1) |-> IF i = m + 1 THEN Step(f[m], sent[m + 1], all) ELSE f[i]]
  <2>3. ASSUME NEW i \in 0..(m + 1)
        PROVE g[i] = IF i = 0 THEN p ELSE Step(g[i - 1], sent[i], all)
    <3>1. CASE i = m + 1
      <4>1. g[i] = Step(f[m], sent[m + 1], all) /\ i # 0 /\ i - 1 = m
        BY <3>1, <2>1
      <4>2. m \in 0..(m + 1) /\ m # m + 1
        BY <2>1
      <4>3. g[m] = f[m]
        BY <4>2
      <4> QED BY <3>1, <4>1, <4>3
    <3>2. CASE i # m + 1
      <4>1. i \in 0..m /\ g[i] = f[i]
        BY <3>2, <2>1
      <4>2. f[i] = IF i = 0 THEN p ELSE Step(f[i - 1], sent[i], all)
        BY <2>2, <4>1 DEF Evaluates
      <4>3. CASE i = 0
        BY <4>1, <4>2, <4>3
      <4>4. CASE i # 0
        <5>1. i - 1 \in 0..(m + 1) /\ i - 1 # m + 1
          BY <4>1, <4>4, <2>1
        <5>2. g[i - 1] = f[i - 1]
          BY <5>1
        <5> QED BY <4>1, <4>2, <4>4, <5>2
      <4> QED BY <4>3, <4>4
    <3> QED BY <3>1, <3>2
  <2>4. DOMAIN g = 0..(m + 1) /\ g = [i \in 0..(m + 1) |-> g[i]]
    OBVIOUS
  <2> HIDE DEF g
  <2>5. Evaluates(g, p, sent, all, m + 1)
    BY <2>3, <2>4 DEF Evaluates
  <2> QED BY <2>1, <2>5
<1>3. P = Nat
  <2>1. P \subseteq Nat
    OBVIOUS
  <2> HIDE DEF P
  <2> QED BY <1>1, <1>2, <2>1, Induct
<1> QED BY <1>3

\* The evaluation starts with the page and goes on update by update.
LEMMA EvaluationIs ==
  ASSUME NEW p, NEW sent, NEW all, Len(sent) \in Nat
  PROVE  /\ Evaluation(p, sent, all)[0] = p
         /\ \A i \in 1..Len(sent) :
              Evaluation(p, sent, all)[i] = Step(Evaluation(p, sent, all)[i - 1], sent[i], all)
<1> DEFINE after == CHOOSE f : f = [i \in 0..Len(sent) |->
                      IF i = 0 THEN p
                      ELSE IF all \/ IsUrgent(sent[i]) THEN Applied(f[i - 1], sent[i]) ELSE f[i - 1]]
<1>1. PICK f : Evaluates(f, p, sent, all, Len(sent))
  BY EvaluationExists
<1>2. f = [i \in 0..Len(sent) |->
             IF i = 0 THEN p
             ELSE IF all \/ IsUrgent(sent[i]) THEN Applied(f[i - 1], sent[i]) ELSE f[i - 1]]
  BY <1>1 DEF Evaluates, Step
<1>3. after = [i \in 0..Len(sent) |->
                 IF i = 0 THEN p
                 ELSE IF all \/ IsUrgent(sent[i]) THEN Applied(after[i - 1], sent[i])
                      ELSE after[i - 1]]
  BY <1>2
<1>4. Evaluation(p, sent, all) = after
  BY DEF Evaluation
<1> HIDE DEF after
<1>5. 0 \in 0..Len(sent) /\ \A i \in 1..Len(sent) : i \in 0..Len(sent) /\ i # 0
  OBVIOUS
<1>6. after[0] = p
  BY <1>3, <1>5
<1>7. \A i \in 1..Len(sent) : after[i] = Step(after[i - 1], sent[i], all)
  BY <1>3, <1>5 DEF Step
<1> QED BY <1>4, <1>6, <1>7

\* Whatever each update keeps is kept by all of them.
LEMMA EvaluationStays ==
  ASSUME NEW p, NEW sent, NEW all, Len(sent) \in Nat, NEW C,
         NEW m \in Nat, NEW n \in Nat, m <= n, n <= Len(sent),
         Evaluation(p, sent, all)[m] \in C,
         \A i \in (m + 1)..n : \A q \in C : Step(q, sent[i], all) \in C
  PROVE  Evaluation(p, sent, all)[n] \in C
<1> DEFINE f == Evaluation(p, sent, all)
           P == {j \in Nat : m + j <= n => f[m + j] \in C}
<1>1. 0 \in P
  OBVIOUS
<1>2. ASSUME NEW j \in P PROVE j + 1 \in P
  <2> SUFFICES ASSUME m + (j + 1) <= n PROVE f[m + (j + 1)] \in C
    OBVIOUS
  <2>1. j \in Nat /\ m + j <= n
    OBVIOUS
  <2>2. f[m + j] \in C
    BY <2>1
  <2>3. /\ m + (j + 1) \in 1..Len(sent) /\ m + (j + 1) \in (m + 1)..n
        /\ (m + (j + 1)) - 1 = m + j
    BY <2>1
  <2>4. f[m + (j + 1)] = Step(f[m + j], sent[m + (j + 1)], all)
    BY <2>3, EvaluationIs
  <2> QED BY <2>2, <2>3, <2>4
<1>3. P = Nat
  <2>1. P \subseteq Nat
    OBVIOUS
  <2> HIDE DEF P
  <2> QED BY <1>1, <1>2, <2>1, Induct
<1>4. n - m \in Nat /\ m + (n - m) = n
  OBVIOUS
<1>5. f[m + (n - m)] \in C
  <2>1. \A j \in Nat : m + j <= n => f[m + j] \in C
    BY <1>3
  <2> QED BY <1>4, <2>1
<1> QED BY <1>4, <1>5

\* The first n updates of t are those of s after the first m.
Part(t, n, s, m) ==
  /\ Len(s) \in Nat /\ Len(t) \in Nat /\ m \in Nat /\ n \in Nat
  /\ n <= Len(t) /\ m + n <= Len(s)
  /\ \A i \in 1..n : t[i] = s[m + i]

\* An evaluation that starts at another's m-th page meets it n updates later.
GoesOn(p, s, t, all, m, n) ==
  Evaluation(Evaluation(p, s, all)[m], t, all)[n] = Evaluation(p, s, all)[m + n]

\* It does, if it is of the updates that follow there.
LEMMA EvaluationGoesOn ==
  ASSUME NEW p, NEW s, NEW t, NEW all, NEW m, NEW n, Part(t, n, s, m)
  PROVE  GoesOn(p, s, t, all, m, n)
<1> DEFINE f == Evaluation(p, s, all)
           g == Evaluation(f[m], t, all)
           P == {j \in Nat : j <= n => g[j] = f[m + j]}
<1>0. /\ Len(s) \in Nat /\ Len(t) \in Nat /\ m \in Nat /\ n \in Nat
      /\ n <= Len(t) /\ m + n <= Len(s)
      /\ \A i \in 1..n : t[i] = s[m + i]
  BY DEF Part
<1>1. 0 \in P
  <2>1. g[0] = f[m] /\ m + 0 = m
    BY <1>0, EvaluationIs
  <2> QED BY <2>1
<1>2. ASSUME NEW j \in P PROVE j + 1 \in P
  <2> SUFFICES ASSUME j + 1 <= n PROVE g[j + 1] = f[m + (j + 1)]
    OBVIOUS
  <2>0. j \in Nat /\ j <= n
    BY <1>0
  <2>1. g[j] = f[m + j]
    BY <2>0
  <2>2. /\ j + 1 \in 1..Len(t) /\ j + 1 \in 1..n /\ (j + 1) - 1 = j
        /\ m + (j + 1) \in 1..Len(s) /\ (m + (j + 1)) - 1 = m + j
    BY <1>0, <2>0
  <2>3. g[j + 1] = Step(g[j], t[j + 1], all)
    BY <1>0, <2>2, EvaluationIs
  <2>4. f[m + (j + 1)] = Step(f[m + j], s[m + (j + 1)], all)
    BY <1>0, <2>2, EvaluationIs
  <2>5. t[j + 1] = s[m + (j + 1)]
    BY <1>0, <2>2
  <2> QED BY <2>1, <2>3, <2>4, <2>5
<1>3. P = Nat
  <2>1. P \subseteq Nat
    OBVIOUS
  <2> HIDE DEF P
  <2> QED BY <1>1, <1>2, <2>1, Induct
<1> QED BY <1>0, <1>3 DEF GoesOn

\* The first of two sequences is evaluated as if it were alone, and the second on top.
LEMMA EvaluationMore ==
  ASSUME NEW U, NEW p, NEW s \in Seq(U), NEW t \in Seq(U), NEW all
  PROVE  /\ \A i \in 0..Len(s) : Evaluation(p, s \o t, all)[i] = Evaluation(p, s, all)[i]
         /\ Evaluation(p, s \o t, all)[Len(s) + Len(t)]
              = Evaluation(Evaluation(p, s, all)[Len(s)], t, all)[Len(t)]
<1> DEFINE r == s \o t
<1>1. /\ Len(s) \in Nat /\ Len(t) \in Nat /\ Len(r) = Len(s) + Len(t) /\ Len(r) \in Nat
      /\ \A i \in 1..Len(s) : s[i] = r[i]
      /\ \A i \in 1..Len(t) : t[i] = r[Len(s) + i]
  OBVIOUS
<1> HIDE DEF r
<1>2. ASSUME NEW i \in 0..Len(s)
      PROVE  Evaluation(p, r, all)[i] = Evaluation(p, s, all)[i]
  <2>1. \A j \in 1..i : s[j] = r[0 + j]
    <3> TAKE j \in 1..i
    <3>1. j \in 1..Len(s) /\ 0 + j = j
      BY <1>1
    <3> QED BY <1>1, <3>1
  <2>2. Part(s, i, r, 0) /\ 0 + i = i
    BY <1>1, <2>1 DEF Part
  <2>3. Evaluation(p, r, all)[0] = p
    BY <1>1, EvaluationIs
  <2>4. Evaluation(Evaluation(p, r, all)[0], s, all)[i] = Evaluation(p, r, all)[0 + i]
    <3>1. GoesOn(p, r, s, all, 0, i)
      BY <2>2, EvaluationGoesOn
    <3> QED BY <3>1 DEF GoesOn
  <2> QED BY <2>2, <2>3, <2>4
<1>3. Evaluation(Evaluation(p, r, all)[Len(s)], t, all)[Len(t)]
        = Evaluation(p, r, all)[Len(s) + Len(t)]
  <2>1. Part(t, Len(t), r, Len(s))
    BY <1>1 DEF Part
  <2>2. GoesOn(p, r, t, all, Len(s), Len(t))
    BY <2>1, EvaluationGoesOn
  <2> QED BY <2>2 DEF GoesOn
<1>4. Evaluation(p, r, all)[Len(s)] = Evaluation(p, s, all)[Len(s)]
  BY <1>1, <1>2
<1> QED BY <1>2, <1>3, <1>4 DEF r


-----------------------------------------------------------------------------
\* What one update does.

USE DEF NoSession

\* The updates that are not of a resource.
LEMMA KindsAreNot ==
  ASSUME NEW k \in Kinds
  PROVE  k \notin {"scene", "loading", "reset", "refreshing", "error", "refresh", "catalog"}
BY ConstantsAssumption

\* Each update keeps the types of the page.
LEMMA EmptyPageType == EmptyPage \in Pages
<1>1. EmptyCatalog(NoSession) \in Scenes
  BY DEF EmptyCatalog, Scenes
<1> QED BY <1>1 DEF EmptyPage, Pages

\* An update of the scene replaces it.
LEMMA AppliedScene ==
  ASSUME NEW p \in Pages, NEW c \in Scenes
  PROVE  /\ ToScene(c) \in Updates
         /\ Applied(p, ToScene(c)) = [p EXCEPT !.scene = c]
         /\ Applied(p, ToScene(c)) \in Pages
<1>1. ToScene(c).to = "scene" /\ ToScene(c).state = c
  BY DEF ToScene
<1>2. Applied(p, ToScene(c)) = [p EXCEPT !.scene = c]
  BY <1>1 DEF Applied
<1> QED BY <1>2 DEF Pages, ToScene, Updates

\* An update of a task replaces that task only.
LEMMA AppliedTask ==
  ASSUME NEW p \in Pages, NEW k \in Kinds, NEW t \in Tasks
  PROVE  /\ ToTask(k, t) \in Updates
         /\ Applied(p, ToTask(k, t)).scene = p.scene
         /\ \A j \in Kinds : Applied(p, ToTask(k, t)).tasks[j] = (IF j = k THEN t ELSE p.tasks[j])
         /\ \A j \in Kinds : Applied(p, ToTask(k, t)).loading[j]
                               = (IF j = k THEN t.status = "loading" ELSE p.loading[j])
         /\ Applied(p, ToTask(k, t)) \in Pages
<1>1. ToTask(k, t).to = k /\ ToTask(k, t).state = t
  BY DEF ToTask
<1>2. Applied(p, ToTask(k, t)) =
        [p EXCEPT !.tasks[k] = t, !.loading[k] = (t.status = "loading")]
  BY <1>1, KindsAreNot DEF Applied
<1>3. ToTask(k, t) \in Updates
  BY DEF ToTask, Updates
<1>4. (t.status = "loading") \in BOOLEAN
  OBVIOUS
<1>5. p = [scene |-> p.scene, tasks |-> p.tasks, loading |-> p.loading]
      /\ p.scene \in Scenes
      /\ p.tasks \in [Kinds -> Tasks \cup {NoTask}] /\ p.loading \in [Kinds -> BOOLEAN]
  BY DEF Pages
<1>6. [p.tasks EXCEPT ![k] = t] \in [Kinds -> Tasks \cup {NoTask}]
      /\ [p.loading EXCEPT ![k] = (t.status = "loading")] \in [Kinds -> BOOLEAN]
  BY <1>4, <1>5
<1>7. Applied(p, ToTask(k, t)) =
        [scene |-> p.scene, tasks |-> [p.tasks EXCEPT ![k] = t],
         loading |-> [p.loading EXCEPT ![k] = (t.status = "loading")]]
  BY <1>2, <1>5
<1> QED BY <1>3, <1>5, <1>6, <1>7 DEF Pages

\* A mark of loading changes neither scene nor tasks.
LEMMA AppliedLoading ==
  ASSUME NEW p \in Pages, NEW k \in Kinds
  PROVE  /\ ToLoading(k) \in Updates
         /\ Applied(p, ToLoading(k)).scene = p.scene
         /\ Applied(p, ToLoading(k)).tasks = p.tasks
         /\ \A j \in Kinds \ {k} : Applied(p, ToLoading(k)).loading[j] = p.loading[j]
         /\ Applied(p, ToLoading(k)) \in Pages
<1>1. ToLoading(k).to = "loading" /\ ToLoading(k).kind = k
  BY DEF ToLoading
<1>2. Applied(p, ToLoading(k)) = [p EXCEPT !.loading[k] = TRUE]
  BY <1>1 DEF Applied
<1> QED BY <1>2 DEF Pages, ToLoading, Updates

\* A reset empties the page.
LEMMA AppliedReset ==
  ASSUME NEW p
  PROVE  Reset \in Updates /\ Applied(p, Reset) = EmptyPage
<1>1. Reset.to = "reset"
  BY DEF Reset
<1> QED BY <1>1 DEF Applied, Updates

\* The page shows a refresh, in the same version.
LEMMA AppliedOptimistic ==
  ASSUME NEW p \in Pages
  PROVE  /\ Optimistic \in Updates
         /\ Applied(p, Optimistic).tasks = p.tasks /\ Applied(p, Optimistic).loading = p.loading
         /\ Applied(p, Optimistic).scene.key = p.scene.key
         /\ VersionOf(Applied(p, Optimistic).scene) = VersionOf(p.scene)
         /\ Applied(p, Optimistic).scene.status = "refreshing"
         /\ Applied(p, Optimistic) \in Pages
<1>1. Optimistic.to = "refreshing"
  BY DEF Optimistic
<1>2. Applied(p, Optimistic) =
        [p EXCEPT !.scene.status = "refreshing",
                  !.scene.fresh = IF p.scene.snap THEN "refreshing" ELSE @]
  BY <1>1 DEF Applied
<1> DEFINE fresh == IF p.scene.snap THEN "refreshing" ELSE p.scene.fresh
           scene == [p.scene EXCEPT !.status = "refreshing", !.fresh = fresh]
<1>3. p = [scene |-> p.scene, tasks |-> p.tasks, loading |-> p.loading]
      /\ p.scene \in Scenes
      /\ p.tasks \in [Kinds -> Tasks \cup {NoTask}] /\ p.loading \in [Kinds -> BOOLEAN]
  BY DEF Pages
<1>4. fresh \in {"empty", "refreshing", "fresh", "stale", "error"}
  BY <1>3 DEF Scenes
<1>5. Applied(p, Optimistic) = [scene |-> scene, tasks |-> p.tasks, loading |-> p.loading]
  BY <1>2, <1>3
<1>6. /\ scene \in Scenes
      /\ scene.key = p.scene.key /\ scene.rev = p.scene.rev /\ scene.epoch = p.scene.epoch
      /\ scene.status = "refreshing"
  <2> HIDE DEF fresh
  <2> QED BY <1>3, <1>4 DEF Scenes
<1> HIDE DEF scene
<1> QED BY <1>3, <1>5, <1>6 DEF Pages, Updates, VersionOf

\* The page shows an error, in the same version.
LEMMA AppliedFailure ==
  ASSUME NEW p \in Pages
  PROVE  /\ Failure \in Updates
         /\ Applied(p, Failure).tasks = p.tasks /\ Applied(p, Failure).loading = p.loading
         /\ Applied(p, Failure).scene.key = p.scene.key
         /\ VersionOf(Applied(p, Failure).scene) = VersionOf(p.scene)
         /\ Applied(p, Failure).scene.status = "error"
         /\ Applied(p, Failure) \in Pages
<1>1. Failure.to = "error"
  BY DEF Failure
<1>2. Applied(p, Failure) = [p EXCEPT !.scene.status = "error"]
  BY <1>1 DEF Applied
<1> QED BY <1>2 DEF Pages, Scenes, Updates, VersionOf

\* The pages a step of an update stays among, by the kind of the update.
LEMMA UpdateCases ==
  ASSUME NEW u \in Updates
  PROVE  \/ \E c \in Scenes : u = ToScene(c) /\ u.to = "scene" /\ u.state = c
         \/ \E k \in Kinds, t \in Tasks : u = ToTask(k, t) /\ u.to = k /\ u.state = t
         \/ \E k \in Kinds : u = ToLoading(k) /\ u.to = "loading"
         \/ u = Reset /\ u.to = "reset"
         \/ u = Optimistic /\ u.to = "refreshing"
         \/ u = Failure /\ u.to = "error"
<1>1. CASE u \in [to : {"scene"}, state : Scenes]
  <2>1. u = [to |-> u.to, state |-> u.state] /\ u.to = "scene" /\ u.state \in Scenes
    BY <1>1
  <2> QED BY <2>1 DEF ToScene
<1>2. CASE u \in [to : Kinds, state : Tasks]
  <2>1. u = [to |-> u.to, state |-> u.state] /\ u.to \in Kinds /\ u.state \in Tasks
    BY <1>2
  <2> QED BY <2>1 DEF ToTask
<1>3. CASE u \in [to : {"loading"}, kind : Kinds]
  <2>1. u = [to |-> u.to, kind |-> u.kind] /\ u.to = "loading" /\ u.kind \in Kinds
    BY <1>3
  <2> QED BY <2>1 DEF ToLoading
<1>4. CASE u \in {Reset, Optimistic, Failure}
  BY <1>4 DEF Reset, Optimistic, Failure
<1> QED BY <1>1, <1>2, <1>3, <1>4 DEF Updates

\* What an update does to the scene and to the tasks, in a render of any kind.
LEMMA StepIs ==
  ASSUME NEW p \in Pages, NEW u \in Updates, NEW all \in BOOLEAN
  PROVE  /\ Step(p, u, all) \in Pages
         /\ u.to = "scene" => u.state \in Scenes /\ Step(p, u, all).scene = u.state
         /\ u.to = "reset" => Step(p, u, all) = EmptyPage
         /\ u.to \in {"refreshing", "error"} =>
              /\ Step(p, u, all).scene.key = p.scene.key
              /\ VersionOf(Step(p, u, all).scene) = VersionOf(p.scene)
         /\ u.to \notin {"scene", "reset", "refreshing", "error"} => Step(p, u, all).scene = p.scene
         /\ u.to \in Kinds =>
              \A k \in Kinds : Step(p, u, all).tasks[k] \in {p.tasks[k], u.state}
         /\ u.to \notin Kinds \cup {"reset"} => Step(p, u, all).tasks = p.tasks
<1>1. ASSUME NEW c \in Scenes, u.to = "scene", u.state = c, u = ToScene(c)
      PROVE  Step(p, u, all) = [p EXCEPT !.scene = c] /\ Step(p, u, all) \in Pages
  <2>1. IsUrgent(u)
    BY <1>1, KindsAreNot DEF IsUrgent
  <2> QED BY <1>1, <2>1, AppliedScene DEF Step
<1>2. ASSUME NEW k \in Kinds, NEW t \in Tasks, u.to = k, u.state = t, u = ToTask(k, t)
      PROVE  /\ Step(p, u, all).scene = p.scene /\ Step(p, u, all) \in Pages
             /\ \A j \in Kinds : Step(p, u, all).tasks[j] \in {p.tasks[j], t}
  <2>1. CASE all \/ IsUrgent(u)
    <3>1. Step(p, u, all) = Applied(p, ToTask(k, t))
      BY <1>2, <2>1 DEF Step
    <3> QED BY <3>1, AppliedTask
  <2>2. CASE ~(all \/ IsUrgent(u))
    BY <2>2 DEF Step
  <2> QED BY <2>1, <2>2
<1>3. ASSUME u.to \notin Kinds PROVE Step(p, u, all) = Applied(p, u)
  BY <1>3 DEF Step, IsUrgent
<1>4. CASE u.to = "scene"
  <2>1. PICK c \in Scenes : u = ToScene(c) /\ u.state = c
    BY <1>4, UpdateCases, KindsAreNot
  <2>2. Step(p, u, all).scene = c /\ Step(p, u, all).tasks = p.tasks
    BY <1>1, <1>4, <2>1 DEF Pages
  <2> QED BY <1>1, <1>4, <2>1, <2>2, KindsAreNot
<1>5. CASE u.to \in Kinds
  <2>1. PICK k \in Kinds, t \in Tasks : u = ToTask(k, t) /\ u.to = k /\ u.state = t
    BY <1>5, UpdateCases, KindsAreNot
  <2> QED BY <1>2, <1>5, <2>1, KindsAreNot
<1>6. CASE u.to = "loading"
  <2>1. PICK k \in Kinds : u = ToLoading(k)
    BY <1>6, UpdateCases, KindsAreNot
  <2>2. u.to \notin Kinds
    BY <1>6, KindsAreNot
  <2> QED BY <1>3, <1>6, <2>1, <2>2, AppliedLoading
<1>7. CASE u.to = "reset"
  <2>1. u = Reset /\ u.to \notin Kinds
    BY <1>7, UpdateCases, KindsAreNot
  <2> QED BY <1>3, <1>7, <2>1, AppliedReset, EmptyPageType
<1>8. CASE u.to = "refreshing"
  <2>1. u = Optimistic /\ u.to \notin Kinds
    BY <1>8, UpdateCases, KindsAreNot
  <2> QED BY <1>3, <1>8, <2>1, AppliedOptimistic
<1>9. CASE u.to = "error"
  <2>1. u = Failure /\ u.to \notin Kinds
    BY <1>9, UpdateCases, KindsAreNot
  <2> QED BY <1>3, <1>9, <2>1, AppliedFailure
<1> QED BY <1>4, <1>5, <1>6, <1>7, <1>8, <1>9, UpdateCases

\* Two pages with the same scene.
Alike(p, q) == p \in Pages /\ q \in Pages /\ p.scene = q.scene

\* An update makes the same scene of them, skipped or not.
LEMMA StepAlike ==
  ASSUME NEW p, NEW q, Alike(p, q), NEW u \in Updates, NEW a \in BOOLEAN, NEW b \in BOOLEAN
  PROVE  Alike(Step(p, u, a), Step(q, u, b))
<1>0. p \in Pages /\ q \in Pages /\ p.scene = q.scene
  BY DEF Alike
<1>1. Step(p, u, a) \in Pages /\ Step(q, u, b) \in Pages
  BY <1>0, StepIs
<1>2. Step(p, u, a).scene = Step(q, u, b).scene
  <2>1. CASE u.to \in {"refreshing", "error"}
    <3>1. IsUrgent(u)
      BY <2>1, KindsAreNot DEF IsUrgent
    <3>2. Step(p, u, a) = Applied(p, u) /\ Step(q, u, b) = Applied(q, u)
      BY <3>1 DEF Step
    <3>3. CASE u.to = "refreshing"
      <4>1. ASSUME NEW r \in Pages
            PROVE  Applied(r, u).scene =
                     [r.scene EXCEPT !.status = "refreshing",
                                     !.fresh = IF r.scene.snap THEN "refreshing" ELSE @]
        BY <3>3 DEF Applied, Pages
      <4> QED BY <1>0, <3>2, <4>1
    <3>4. CASE u.to = "error"
      <4>1. ASSUME NEW r \in Pages
            PROVE  Applied(r, u).scene = [r.scene EXCEPT !.status = "error"]
        BY <3>4 DEF Applied, Pages
      <4> QED BY <1>0, <3>2, <4>1
    <3> QED BY <2>1, <3>3, <3>4
  <2>2. CASE u.to = "reset"
    <3>1. Step(p, u, a) = EmptyPage
      BY <1>0, <2>2, StepIs
    <3>2. Step(q, u, b) = EmptyPage
      BY <1>0, <2>2, StepIs
    <3> QED BY <3>1, <3>2
  <2>3. CASE u.to = "scene"
    <3>1. Step(p, u, a).scene = u.state
      BY <1>0, <2>3, StepIs
    <3>2. Step(q, u, b).scene = u.state
      BY <1>0, <2>3, StepIs
    <3> QED BY <3>1, <3>2
  <2>4. CASE u.to \notin {"scene", "reset", "refreshing", "error"}
    <3>1. Step(p, u, a).scene = p.scene
      BY <1>0, <2>4, StepIs
    <3>2. Step(q, u, b).scene = q.scene
      BY <1>0, <2>4, StepIs
    <3> QED BY <1>0, <3>1, <3>2
  <2> QED BY <2>1, <2>2, <2>3, <2>4
<1> QED BY <1>1, <1>2 DEF Alike

\* A render that skips the transitions goes through the same scenes as one that does not.
LEMMA EvaluationAlike ==
  ASSUME NEW p, NEW q, Alike(p, q), NEW sent \in Seq(Updates), NEW a \in BOOLEAN, NEW b \in BOOLEAN,
         NEW n \in Nat, n <= Len(sent)
  PROVE  Alike(Evaluation(p, sent, a)[n], Evaluation(q, sent, b)[n])
<1> DEFINE f == Evaluation(p, sent, a)
           g == Evaluation(q, sent, b)
           P == {i \in Nat : i <= Len(sent) => Alike(f[i], g[i])}
<1>0. Len(sent) \in Nat /\ \A i \in 1..Len(sent) : sent[i] \in Updates
  OBVIOUS
<1>4. f[0] = p /\ \A i \in 1..Len(sent) : f[i] = Step(f[i - 1], sent[i], a)
  BY <1>0, EvaluationIs
<1>5. g[0] = q /\ \A i \in 1..Len(sent) : g[i] = Step(g[i - 1], sent[i], b)
  BY <1>0, EvaluationIs
<1> HIDE DEF f, g
<1>1. 0 \in P
  BY <1>4, <1>5
<1>2. ASSUME NEW i \in P PROVE i + 1 \in P
  <2>1. CASE i + 1 <= Len(sent)
    <3>1. i \in Nat /\ i <= Len(sent) /\ i + 1 \in 1..Len(sent) /\ (i + 1) - 1 = i
      BY <1>0, <2>1
    <3>2. f[i + 1] = Step(f[i], sent[i + 1], a) /\ g[i + 1] = Step(g[i], sent[i + 1], b)
      BY <1>4, <1>5, <3>1
    <3>3. Alike(Step(f[i], sent[i + 1], a), Step(g[i], sent[i + 1], b))
      BY <1>0, <3>1, StepAlike
    <3> QED BY <3>1, <3>2, <3>3
  <2>2. CASE ~(i + 1 <= Len(sent))
    BY <2>2
  <2> QED BY <2>1, <2>2
<1>3. P = Nat
  <2>1. P \subseteq Nat
    OBVIOUS
  <2> HIDE DEF P
  <2> QED BY <1>1, <1>2, <2>1, Induct
<1> QED BY <1>3 DEF f, g

-----------------------------------------------------------------------------
\* What a sequence of updates makes of a page.

Then(p, sent, all) == Evaluation(p, sent, all)[Len(sent)]

\* ... of none, of one, and of one sequence after another.
LEMMA ThenNone ==
  ASSUME NEW p, NEW all
  PROVE  Then(p, <<>>, all) = p
BY EvaluationIs DEF Then

\* ... one update makes its step,
LEMMA ThenOne ==
  ASSUME NEW p, NEW u, NEW all
  PROVE  Then(p, <<u>>, all) = Step(p, u, all)
<1> DEFINE s == <<u>>
<1>1. Len(s) = 1 /\ s[1] = u /\ 1 \in 1..1 /\ 1 - 1 = 0
  OBVIOUS
<1> HIDE DEF s
<1>2. Evaluation(p, s, all)[0] = p /\ Evaluation(p, s, all)[1] = Step(Evaluation(p, s, all)[1 - 1], s[1], all)
  BY <1>1, EvaluationIs
<1>3. Then(p, s, all) = Step(p, u, all)
  BY <1>1, <1>2 DEF Then
<1> QED BY <1>3 DEF s

\* ... and the second of two sequences goes on where the first ends.
LEMMA ThenMore ==
  ASSUME NEW U, NEW p, NEW s \in Seq(U), NEW t \in Seq(U), NEW all
  PROVE  Then(p, s \o t, all) = Then(Then(p, s, all), t, all)
<1>1. Len(s \o t) = Len(s) + Len(t)
  OBVIOUS
<1> QED BY <1>1, EvaluationMore DEF Then

At(p, sent, i, all) == Evaluation(p, sent, all)[i]

\* The first of two sequences is evaluated as if it were alone.
LEMMA AtFirst ==
  ASSUME NEW U, NEW p, NEW s \in Seq(U), NEW t \in Seq(U), NEW all, NEW i \in 0..Len(s)
  PROVE  At(p, s \o t, i, all) = At(p, s, i, all)
BY EvaluationMore DEF At

\* What every update keeps the sequence keeps.
LEMMA ThenStays ==
  ASSUME NEW p, NEW sent, NEW all, Len(sent) \in Nat, NEW C, p \in C,
         \A i \in 1..Len(sent) : \A q \in C : Step(q, sent[i], all) \in C
  PROVE  Then(p, sent, all) \in C
<1>1. Evaluation(p, sent, all)[0] \in C
  BY EvaluationIs
<1>2. \A i \in (0 + 1)..Len(sent) : \A q \in C : Step(q, sent[i], all) \in C
  OBVIOUS
<1>3. Evaluation(p, sent, all)[Len(sent)] \in C
  BY <1>1, <1>2, EvaluationStays
<1> QED BY <1>3 DEF Then

\* The marks of loading leave scene and tasks alone.
LEMMA LoadsAre ==
  ASSUME NEW K
  PROVE  /\ K \subseteq Kinds => Loads(K) \in Seq(Updates)
         /\ Len(Loads(K)) \in Nat
         /\ \A i \in 1..Len(Loads(K)) : Loads(K)[i].to = "loading"
<1> DEFINE U == {u \in {ToLoading(k) : k \in K} : u.to = "loading"}
           M(k) == IF k \in K THEN <<ToLoading(k)>> ELSE <<>>
<1>1. \A k : M(k) \in Seq(U)
  <2> TAKE k
  <2>1. CASE k \in K
    <3>1. ToLoading(k) \in U
      BY <2>1 DEF ToLoading
    <3> QED BY <2>1, <3>1
  <2> QED BY <2>1
<1>2. Loads(K) = (M("header") \o M("children")) \o M("components")
  BY DEF Loads
<1> HIDE DEF M
<1>3. Loads(K) \in Seq(U)
  <2>1. M("header") \o M("children") \in Seq(U)
    BY <1>1
  <2> HIDE DEF U
  <2> QED BY <1>1, <1>2, <2>1
<1>4. K \subseteq Kinds => U \subseteq Updates
  BY DEF ToLoading, Updates
<1>5. \A u \in U : u.to = "loading"
  OBVIOUS
<1> HIDE DEF U
<1> QED BY <1>3, <1>4, <1>5

\* Neither does a sequence of them.
LEMMA ThenLoads ==
  ASSUME NEW p \in Pages, NEW K \in SUBSET Kinds, NEW all \in BOOLEAN
  PROVE  /\ Then(p, Loads(K), all) \in Pages
         /\ Then(p, Loads(K), all).scene = p.scene
         /\ Then(p, Loads(K), all).tasks = p.tasks
<1> DEFINE C == {q \in Pages : q.scene = p.scene /\ q.tasks = p.tasks}
           s == Loads(K)
<1>1. s \in Seq(Updates) /\ Len(s) \in Nat /\ \A i \in 1..Len(s) : s[i].to = "loading"
  BY LoadsAre
<1> HIDE DEF s
<1>2. \A i \in 1..Len(s) : \A q \in C : Step(q, s[i], all) \in C
  <2> SUFFICES ASSUME NEW i \in 1..Len(s), NEW q \in C PROVE Step(q, s[i], all) \in C
    OBVIOUS
  <2>1. s[i] \in Updates /\ s[i].to = "loading" /\ s[i].to \notin Kinds
    BY <1>1, KindsAreNot
  <2> QED BY <2>1, StepIs
<1>3. p \in C
  OBVIOUS
<1> HIDE DEF C
<1>4. Then(p, s, all) \in C
  BY <1>1, <1>2, <1>3, ThenStays
<1> QED BY <1>4 DEF C, s

\* A sequence of updates makes a page of a page.
LEMMA ThenTyped ==
  ASSUME NEW p \in Pages, NEW sent \in Seq(Updates), NEW all \in BOOLEAN
  PROVE  Then(p, sent, all) \in Pages
<1>1. Len(sent) \in Nat /\ \A i \in 1..Len(sent) : sent[i] \in Updates
  OBVIOUS
<1>2. \A i \in 1..Len(sent) : \A q \in Pages : Step(q, sent[i], all) \in Pages
  BY <1>1, StepIs
<1> QED BY <1>1, <1>2, ThenStays

-----------------------------------------------------------------------------
\* What a dispatch and a render do to what the page is going to be.

\* The two kinds of renders, as constants of their own.
Everything == TRUE
UrgentOnly == FALSE

\* Both say whether all updates are evaluated.
LEMMA Renderings == Everything \in BOOLEAN /\ UrgentOnly \in BOOLEAN
BY DEF Everything, UrgentOnly

PageOK ==
  /\ page \in Pages /\ base \in Pages
  /\ updates \in Seq(Updates)
  /\ done \in 0..Len(updates)

\* Both renders show pages, with the same scene.
LEMMA SeenIs ==
  ASSUME PageOK
  PROVE  /\ Shown = Then(base, updates, UrgentOnly) /\ Seen = Then(base, updates, Everything)
         /\ Shown \in Pages /\ Seen \in Pages /\ Shown.scene = Seen.scene
         /\ \A i \in 0..Len(updates) : Evaluation(base, updates, UrgentOnly)[i] \in Pages
<1>1. base \in Pages /\ updates \in Seq(Updates) /\ Alike(base, base) /\ Len(updates) \in Nat
  BY DEF PageOK, Alike
<1>2. ASSUME NEW i \in 0..Len(updates)
      PROVE  Alike(Evaluation(base, updates, UrgentOnly)[i], Evaluation(base, updates, Everything)[i])
  BY <1>1, EvaluationAlike, Renderings
<1>3. Alike(Shown, Seen)
  <2>1. Alike(Evaluation(base, updates, UrgentOnly)[Len(updates)],
              Evaluation(base, updates, Everything)[Len(updates)])
    BY <1>1, <1>2
  <2> QED BY <2>1 DEF Shown, Seen, Everything, UrgentOnly
<1>4. Shown = Then(base, updates, UrgentOnly) /\ Seen = Then(base, updates, Everything)
  BY DEF Shown, Seen, Then, Everything, UrgentOnly
<1> QED BY <1>2, <1>3, <1>4 DEF Alike

\* What is dispatched comes after all that waits.
LEMMA DispatchSees ==
  ASSUME PageOK, NEW sent \in Seq(Updates), updates' = updates \o sent, base' = base
  PROVE  /\ updates' \in Seq(Updates)
         /\ Len(updates') = Len(updates) + Len(sent)
         /\ Seen' = Then(Seen, sent, Everything) /\ Shown' = Then(Shown, sent, UrgentOnly)
         /\ \A i \in 0..Len(updates) :
              Evaluation(base', updates', UrgentOnly)[i] = Evaluation(base, updates, UrgentOnly)[i]
<1> DEFINE s == updates
           p == base
<1>1. s \in Seq(Updates) /\ updates' = s \o sent /\ Len(updates') = Len(s) + Len(sent)
  BY DEF PageOK
<1>2. \A i \in 0..Len(s) : Evaluation(p, s \o sent, UrgentOnly)[i] = Evaluation(p, s, UrgentOnly)[i]
  <2> TAKE i \in 0..Len(s)
  <2>1. At(p, s \o sent, i, UrgentOnly) = At(p, s, i, UrgentOnly)
    BY <1>1, AtFirst
  <2> QED BY <2>1 DEF At
<1>3. Then(p, s \o sent, UrgentOnly) = Then(Then(p, s, UrgentOnly), sent, UrgentOnly)
  BY <1>1, ThenMore
<1>4. Then(p, s \o sent, Everything) = Then(Then(p, s, Everything), sent, Everything)
  BY <1>1, ThenMore
<1>5. Seen' = Then(p, s \o sent, Everything) /\ Shown' = Then(p, s \o sent, UrgentOnly)
  BY <1>1 DEF Seen, Shown, Then, Everything, UrgentOnly
<1>6. Seen = Then(p, s, Everything) /\ Shown = Then(p, s, UrgentOnly)
  BY DEF Seen, Shown, Then, Everything, UrgentOnly
<1>7. Seen' = Then(Seen, sent, Everything)
  BY <1>4, <1>5, <1>6
<1>8. Shown' = Then(Shown, sent, UrgentOnly)
  BY <1>3, <1>5, <1>6
<1> QED BY <1>1, <1>2, <1>7, <1>8

\* The updates ahead of all transitions.
LEMMA AheadIs ==
  ASSUME PageOK
  PROVE  /\ Ahead \in 0..Len(updates)
         /\ \A i \in 1..Ahead : IsUrgent(updates[i])
<1> DEFINE waiting == {i \in 1..Len(updates) : ~IsUrgent(updates[i])}
<1>1. Len(updates) \in Nat
  BY DEF PageOK
<1>2. CASE waiting = {}
  BY <1>1, <1>2 DEF Ahead
<1>3. CASE waiting # {}
  <2>1. waiting \subseteq Nat
    BY <1>1
  <2>2. PICK m \in waiting : \A j \in waiting : m <= j
    <3> HIDE DEF waiting
    <3> QED BY <1>3, <2>1, Least
  <2>3. Min(waiting) \in waiting /\ \A j \in waiting : Min(waiting) <= j
    <3> HIDE DEF waiting
    <3> QED BY <2>2 DEF Min
  <2>4. Ahead = Min(waiting) - 1
    BY <1>3 DEF Ahead
  <2> DEFINE n == Min(waiting)
  <2>5. n \in 1..Len(updates) /\ Ahead = n - 1 /\ \A j \in waiting : n <= j
    BY <2>3, <2>4
  <2> HIDE DEF n
  <2> QED BY <1>1, <2>5
<1> QED BY <1>2, <1>3

\* A render of what is urgent leaves what the page is going to be, and is its first part.
LEMMA CommitsSees ==
  ASSUME PageOK, NEW sent \in Seq(Updates), Commits(sent)
  PROVE  /\ page' = Shown /\ base' \in Pages
         /\ updates' \in Seq(Updates) /\ done' \in 0..Len(updates')
         /\ Len(updates') = done' + Len(sent) /\ \A i \in 1..Len(sent) : updates'[done' + i] = sent[i]
         /\ Seen' = Then(Seen, sent, Everything) /\ Shown' = Then(Shown, sent, UrgentOnly)
         /\ Evaluation(base', updates', UrgentOnly)[done'] = Shown
<1> DEFINE s == updates
           p == base
           n == Ahead
           t == SubSeq(s, n + 1, Len(s))
           q == Evaluation(p, s, UrgentOnly)[n]
<1>1. s \in Seq(Updates) /\ Len(s) \in Nat /\ n \in 0..Len(s) /\ \A i \in 1..n : IsUrgent(s[i])
  BY AheadIs DEF PageOK
<1>2. page' = Shown /\ base' = q /\ updates' = t \o sent /\ done' = Len(t)
  BY DEF Commits, Behind, UrgentOnly
<1>3. t \in Seq(Updates) /\ Len(t) = Len(s) - n /\ \A i \in 1..Len(t) : t[i] = s[n + i]
  BY <1>1
<1>4. Evaluation(p, s, Everything)[n] = q
  <2> DEFINE f == Evaluation(p, s, Everything)
             g == Evaluation(p, s, UrgentOnly)
             P == {i \in Nat : i <= n => f[i] = g[i]}
  <2>1. f[0] = p /\ \A i \in 1..Len(s) : f[i] = Step(f[i - 1], s[i], Everything)
    BY <1>1, EvaluationIs
  <2>2. g[0] = p /\ \A i \in 1..Len(s) : g[i] = Step(g[i - 1], s[i], UrgentOnly)
    BY <1>1, EvaluationIs
  <2> HIDE DEF f, g, n, s
  <2>3. 0 \in P
    BY <2>1, <2>2
  <2>4. ASSUME NEW i \in P PROVE i + 1 \in P
    <3>1. CASE i + 1 <= n
      <4>1. i \in Nat /\ i <= n /\ i + 1 \in 1..Len(s) /\ i + 1 \in 1..n /\ (i + 1) - 1 = i
        BY <1>1, <3>1
      <4>2. f[i + 1] = Step(f[i], s[i + 1], Everything) /\ g[i + 1] = Step(g[i], s[i + 1], UrgentOnly)
        BY <2>1, <2>2, <4>1
      <4>3. f[i + 1] = g[i + 1]
        BY <1>1, <4>1, <4>2 DEF Step, Everything, UrgentOnly
      <4> QED BY <4>1, <4>3
    <3> QED BY <3>1
  <2>5. P = Nat
    <3>1. P \subseteq Nat
      OBVIOUS
    <3> HIDE DEF P
    <3> QED BY <2>3, <2>4, <3>1, Induct
  <2>6. f[n] = g[n]
    BY <1>1, <2>5
  <2> QED BY <2>6 DEF f, g, s
<1>5. Part(t, Len(t), s, n) /\ n + Len(t) = Len(s)
  <2> HIDE DEF t, n, s
  <2> QED BY <1>1, <1>3 DEF Part
<1>6. ASSUME NEW all, Evaluation(p, s, all)[n] = q
      PROVE  Then(q, t, all) = Then(p, s, all)
  <2> HIDE DEF t, n, s, q, p
  <2>1. GoesOn(p, s, t, all, n, Len(t))
    BY <1>5, EvaluationGoesOn
  <2> QED BY <1>5, <1>6, <2>1 DEF GoesOn, Then
<1>7. Then(q, t, UrgentOnly) = Shown /\ Then(q, t, Everything) = Seen
  <2>1. Then(q, t, UrgentOnly) = Then(p, s, UrgentOnly)
    BY <1>6
  <2>2. Then(q, t, Everything) = Then(p, s, Everything)
    BY <1>4, <1>6
  <2> QED BY <2>1, <2>2 DEF Shown, Seen, Then, Everything, UrgentOnly
<1>8. q \in Pages
  BY <1>1, SeenIs
<1> HIDE DEF q, t, s, n, p
<1>9. Then(q, t \o sent, UrgentOnly) = Then(Then(q, t, UrgentOnly), sent, UrgentOnly)
  BY <1>3, ThenMore
<1>10. Then(q, t \o sent, Everything) = Then(Then(q, t, Everything), sent, Everything)
  BY <1>3, ThenMore
<1>11. Shown' = Then(q, t \o sent, UrgentOnly) /\ Seen' = Then(q, t \o sent, Everything)
  BY <1>2 DEF Shown, Seen, Then, Everything, UrgentOnly
<1>12. Evaluation(q, t \o sent, UrgentOnly)[Len(t)] = Shown
  <2>1. Evaluation(q, t \o sent, UrgentOnly)[Len(t)] = Evaluation(q, t, UrgentOnly)[Len(t)]
    <3>1. Len(t) \in 0..Len(t)
      BY <1>3
    <3>2. At(q, t \o sent, Len(t), UrgentOnly) = At(q, t, Len(t), UrgentOnly)
      BY <1>3, <3>1, AtFirst
    <3> QED BY <3>2 DEF At
  <2> QED BY <1>7, <2>1 DEF Then
<1>13. /\ t \o sent \in Seq(Updates) /\ Len(t \o sent) = Len(t) + Len(sent)
       /\ Len(t) \in 0..Len(t \o sent)
       /\ \A i \in 1..Len(sent) : (t \o sent)[Len(t) + i] = sent[i]
  BY <1>3
<1> QED BY <1>2, <1>7, <1>8, <1>9, <1>10, <1>11, <1>12, <1>13

\* A render of all that waits, too.
Finishes == page' = Seen /\ base' = page' /\ updates' = <<>> /\ done' = 0

\* A render of all that waits shows what was to be seen.
LEMMA FinishesSees ==
  ASSUME PageOK, Finishes
  PROVE  /\ PageOK'
         /\ Seen' = Seen /\ Shown' = Seen
         /\ Evaluation(base', updates', UrgentOnly)[done'] = Seen
<1>1. Seen \in Pages
  BY SeenIs
<1>2. base' = Seen /\ updates' = <<>> /\ done' = 0 /\ page' = Seen /\ Len(<<>>) = 0
  BY DEF Finishes
<1>3. Seen' = Then(Seen, <<>>, Everything) /\ Shown' = Then(Seen, <<>>, UrgentOnly)
  BY <1>2 DEF Seen, Shown, Then, Everything, UrgentOnly
<1>4. Evaluation(base', updates', UrgentOnly)[done'] = Then(Seen, <<>>, UrgentOnly)
  BY <1>2 DEF Then
<1>5. Then(Seen, <<>>, UrgentOnly) = Seen /\ Then(Seen, <<>>, Everything) = Seen
  BY ThenNone
<1>6. PageOK'
  BY <1>1, <1>2 DEF PageOK
<1> QED BY <1>3, <1>4, <1>5, <1>6

-----------------------------------------------------------------------------
\* Types of what the backend makes.

Keys == {NoSession} \cup Sessions

\* Each change of the catalog keeps its types.
LEMMA CatalogTypes ==
  ASSUME catalog \in Scenes, NEW key \in Keys
  PROVE  /\ EmptyCatalog(key) \in Scenes
         /\ Refreshing(key) \in Scenes
         /\ Loaded(key) \in Scenes
         /\ FailedRefresh(key) \in Scenes
         /\ Mutated(key) \in Scenes
<1>1. EmptyCatalog(key) \in Scenes
  BY DEF EmptyCatalog, Scenes, Keys
<1>2. \A c \in Scenes : c.rev + 1 \in Nat /\ c.epoch + 1 \in Nat
  BY DEF Scenes
<1>3. Refreshing(key) \in Scenes
  <2> DEFINE own == IF catalog.key = key THEN catalog ELSE EmptyCatalog(key)
  <2>1. own \in Scenes
    BY <1>1
  <2>2. Refreshing(key) =
          [own EXCEPT !.status = "refreshing", !.fresh = "refreshing", !.rev = own.rev + 1]
    BY DEF Refreshing
  <2>3. ASSUME NEW c \in Scenes, NEW n \in Nat
        PROVE  [c EXCEPT !.status = "refreshing", !.fresh = "refreshing", !.rev = n] \in Scenes
    BY DEF Scenes
  <2> HIDE DEF own
  <2> QED BY <1>2, <2>1, <2>2, <2>3
<1>4. Loaded(key) \in Scenes
  <2>1. ASSUME NEW c \in Scenes, NEW n \in Nat
        PROVE  [c EXCEPT !.status = "ready", !.fresh = "fresh", !.rev = n, !.snap = TRUE] \in Scenes
    BY DEF Scenes
  <2> QED BY <1>2, <2>1 DEF Loaded
<1>5. FailedRefresh(key) \in Scenes
  <2> DEFINE f == IF catalog.snap THEN "stale" ELSE "error"
             n == catalog.rev + 1
  <2>1. f \in {"stale", "error"} /\ n \in Nat
    BY <1>2
  <2>2. FailedRefresh(key) = IF catalog.key # key THEN catalog
          ELSE [catalog EXCEPT !.status = "error", !.rev = n, !.fresh = f]
    BY DEF FailedRefresh
  <2> HIDE DEF f, n
  <2>3. [catalog EXCEPT !.status = "error", !.rev = n, !.fresh = f] \in Scenes
    BY <2>1 DEF Scenes
  <2> QED BY <2>2, <2>3
<1>6. Mutated(key) \in Scenes
  <2> DEFINE f == IF catalog.status = "refreshing" THEN "refreshing"
                  ELSE IF catalog.snap THEN "stale" ELSE "empty"
             m == catalog.epoch + 1
             n == catalog.rev + 1
  <2>1. f \in {"refreshing", "stale", "empty"} /\ m \in Nat /\ n \in Nat
    BY <1>2
  <2>2. Mutated(key) = IF catalog.key # key THEN catalog
          ELSE [catalog EXCEPT !.epoch = m, !.rev = n, !.fresh = f]
    BY DEF Mutated
  <2> HIDE DEF f, m, n
  <2>3. [catalog EXCEPT !.epoch = m, !.rev = n, !.fresh = f] \in Scenes
    BY <2>1 DEF Scenes
  <2> QED BY <2>2, <2>3
<1> QED BY <1>1, <1>3, <1>4, <1>5, <1>6

\* The stores after a reset have their types.
LEMMA EmptyStoresType == EmptyStores \in [Kinds -> Stores]
BY DEF EmptyStores, EmptyStore, Stores

\* Each change of a task store keeps its types.
LEMMA StartedType ==
  ASSUME NEW s \in Stores, NEW key \in Sessions
  PROVE  Started(s, key) \in Stores /\ Started(s, key).task \in Tasks
<1> DEFINE own == IF s.key = key THEN s ELSE [EmptyStore EXCEPT !.key = key]
           data == own.task # NoTask /\ own.task.data
           f == IF data THEN "refreshing" ELSE "empty"
           t == [key |-> key, epoch |-> own.epoch, id |-> own.id + 1, rev |-> own.rev + 1,
                 status |-> "loading", data |-> data, fresh |-> f]
<1>1. own \in Stores
  BY DEF EmptyStore, Stores
<1>2. own.task # NoTask => own.task \in Tasks
  BY <1>1 DEF Stores
<1>3. data \in BOOLEAN
  BY <1>2 DEF Tasks
<1>4. Started(s, key) = IF Current(own) THEN own
        ELSE [own EXCEPT !.id = @ + 1, !.rev = @ + 1, !.task = t]
  BY DEF Started
<1> HIDE DEF own, data
<1>5. t \in Tasks
  <2>1. own.epoch \in Nat /\ own.id + 1 \in Nat \ {0} /\ own.rev + 1 \in Nat \ {0}
    BY <1>1 DEF Stores
  <2> QED BY <1>3, <2>1 DEF Tasks
<1> HIDE DEF t
<1>6. CASE Current(own)
  BY <1>1, <1>2, <1>4, <1>6 DEF Current
<1>7. CASE ~Current(own)
  <2> DEFINE m == own.id + 1
             n == own.rev + 1
             d == [own EXCEPT !.id = m, !.rev = n, !.task = t]
  <2>1. m \in Nat /\ n \in Nat
    BY <1>1 DEF Stores
  <2>2. Started(s, key) = d
    BY <1>4, <1>7
  <2> HIDE DEF m, n
  <2>3. d \in Stores /\ d.task = t
    BY <1>1, <1>5, <2>1 DEF Stores
  <2> QED BY <1>5, <2>2, <2>3
<1> QED BY <1>6, <1>7

\* A worker finishes a loading task with its data.
LEMMA FinishedType ==
  ASSUME NEW s \in Stores, s.task # NoTask, s.task.status = "loading"
  PROVE  Finished(s) \in Stores /\ Finished(s).task \in Tasks
<1> DEFINE t == [s.task EXCEPT !.rev = s.rev + 1, !.status = "ready", !.fresh = "fresh",
                               !.data = TRUE]
<1>1. s.task \in Tasks /\ s.rev \in Nat
  BY DEF Stores
<1>2. t \in Tasks
  <2>1. ASSUME NEW c \in Tasks, NEW n \in Nat \ {0}
        PROVE  [c EXCEPT !.rev = n, !.status = "ready", !.fresh = "fresh", !.data = TRUE] \in Tasks
    BY DEF Tasks
  <2>2. s.rev + 1 \in Nat \ {0}
    BY <1>1
  <2> QED BY <1>1, <2>1, <2>2
<1>3. Finished(s) = [s EXCEPT !.rev = s.rev + 1, !.task = t]
  BY DEF Finished
<1> HIDE DEF t
<1> DEFINE n == s.rev + 1
           d == [s EXCEPT !.rev = n, !.task = t]
<1>4. n \in Nat /\ Finished(s) = d
  BY <1>1, <1>3
<1> HIDE DEF n
<1>5. d \in Stores /\ d.task = t
  BY <1>2, <1>4 DEF Stores
<1> QED BY <1>2, <1>4, <1>5

\* An invalidated store still has a task, if it had one.
LEMMA InvalidatedType ==
  ASSUME NEW s \in Stores, NEW key
  PROVE  /\ Invalidated(s, key) \in Stores
         /\ s.key = key /\ s.task # NoTask => Invalidated(s, key).task \in Tasks
<1> DEFINE status == IF s.task.data THEN "ready" ELSE "cancelled"
           f == IF s.task.data THEN "stale" ELSE "empty"
           t == [s.task EXCEPT !.epoch = s.epoch + 1, !.rev = s.rev + 1, !.status = status,
                               !.fresh = f]
<1>1. s.epoch \in Nat /\ s.rev \in Nat
  BY DEF Stores
<1>2. CASE s.key = key /\ s.task # NoTask
  <2>1. s.task \in Tasks
    BY <1>2 DEF Stores
  <2>2. ASSUME NEW c \in Tasks, NEW e \in Nat, NEW n \in Nat \ {0}
        PROVE  [c EXCEPT !.epoch = e, !.rev = n, !.status = IF c.data THEN "ready" ELSE "cancelled",
                         !.fresh = IF c.data THEN "stale" ELSE "empty"] \in Tasks
    <3>1. CASE c.data
      BY <3>1 DEF Tasks
    <3>2. CASE ~c.data
      BY <3>2 DEF Tasks
    <3> QED BY <3>1, <3>2
  <2>3. s.epoch + 1 \in Nat /\ s.rev + 1 \in Nat \ {0}
    BY <1>1
  <2>4. t \in Tasks
    BY <2>1, <2>2, <2>3
  <2>5. Invalidated(s, key) = [s EXCEPT !.epoch = s.epoch + 1, !.rev = s.rev + 1, !.task = t]
    BY <1>2 DEF Invalidated
  <2> HIDE DEF t
  <2> DEFINE m == s.epoch + 1
             n == s.rev + 1
             d == [s EXCEPT !.epoch = m, !.rev = n, !.task = t]
  <2>6. m \in Nat /\ n \in Nat /\ Invalidated(s, key) = d
    BY <2>3, <2>5
  <2> HIDE DEF m, n
  <2>7. d \in Stores /\ d.task = t
    BY <2>4, <2>6 DEF Stores
  <2> QED BY <2>4, <2>6, <2>7
<1>3. CASE ~(s.key = key /\ s.task # NoTask)
  BY <1>3 DEF Invalidated, Stores
<1> QED BY <1>2, <1>3

-----------------------------------------------------------------------------
\* Types.

VersionType == [rev : Nat, epoch : Nat]
CountType == [attaches : Nat, actions : Nat, misjudged : BOOLEAN, mixed : BOOLEAN]

\* The types, by the part of the system that changes.
BackendOK ==
  /\ attached \in Keys
  /\ catalog \in Scenes
  /\ store \in [Kinds -> Stores]
  /\ \A r \in refreshes : r.stage # "asked" => r.stage = "loading" /\ r.key \in Sessions
  /\ mutation \in [running : BOOLEAN, told : Seq(TaskEvents)]
  /\ events \in Seq(Events)
  /\ asked \subseteq Kinds \cup {"catalog"}
  /\ \A a \in answers : AnswerOK(a)

RefsOK ==
  /\ life \in [key : Keys, able : BOOLEAN, snap : BOOLEAN]
  /\ known \in Pages
  /\ version \in VersionType

CountOK == count \in CountType

\* The type invariant is that of its parts ...
LEMMA TypedParts == TypeOK <=> BackendOK /\ PageOK /\ RefsOK /\ CountOK
BY DEF TypeOK, BackendOK, PageOK, RefsOK, CountOK, Keys, VersionType, CountType

\* ... and so it is after a step.
LEMMA TypedPartsNext == TypeOK' <=> BackendOK' /\ PageOK' /\ RefsOK' /\ CountOK'
BY DEF TypeOK, BackendOK, PageOK, RefsOK, CountOK, Keys, VersionType, CountType

\* The initial state has its types.
LEMMA InitTyped == Init => TypeOK
<1> SUFFICES ASSUME Init PROVE TypeOK
  OBVIOUS
<1>1. catalog \in Scenes /\ NoSession \in Keys
  BY DEF Init, EmptyCatalog, Scenes, Keys
<1>2. mutation \in [running : BOOLEAN, told : Seq(TaskEvents)]
      /\ events \in Seq(Events) /\ updates \in Seq(Updates) /\ Len(updates) = 0
  BY DEF Init, NoMutation
<1>3. BackendOK
  BY <1>1, <1>2, EmptyStoresType DEF Init, BackendOK
<1>4. PageOK
  BY <1>2, EmptyPageType DEF Init, PageOK
<1>5. RefsOK /\ CountOK
  BY <1>1, EmptyPageType DEF Init, RefsOK, CountOK, NoLife, NoVersion, VersionType, CountType
<1> QED BY <1>3, <1>4, <1>5, TypedParts

\* Nothing of the page changes.
Kept == UNCHANGED <<life, react>>

\* A step that leaves the page alone keeps its types.
LEMMA KeptTyped ==
  ASSUME PageOK, RefsOK, Kept
  PROVE  PageOK' /\ RefsOK'
BY DEF PageOK, RefsOK, Kept, react

\* A step that is counted keeps the types of the counts.
LEMMA ActsTyped ==
  ASSUME CountOK, Acts \/ count' = count
  PROVE  CountOK'
<1>1. CASE Acts
  <2> DEFINE n == count.actions + 1
  <2>1. count' = [count EXCEPT !.actions = n] /\ n \in Nat
    BY <1>1 DEF Acts, CountOK, CountType
  <2> HIDE DEF n
  <2> QED BY <2>1 DEF CountOK, CountType
<1>2. CASE count' = count
  BY <1>2 DEF CountOK
<1> QED BY <1>1, <1>2

\* What is told of the catalog.
LEMMA CatalogEventTyped ==
  ASSUME NEW c \in Scenes, NEW s \in Seq(Events)
  PROVE  CatalogEvent(c) \in Events /\ Append(s, CatalogEvent(c)) \in Seq(Events)
<1>1. CatalogEvent(c) \in Events
  BY DEF CatalogEvent, Events
<1> QED BY <1>1

\* What is told of a task.
LEMMA TaskEventTyped ==
  ASSUME NEW k \in Kinds, NEW t \in Tasks, NEW s \in Seq(Events)
  PROVE  TaskEvent(k, t) \in TaskEvents /\ Append(s, TaskEvent(k, t)) \in Seq(Events)
<1>1. TaskEvent(k, t) \in TaskEvents /\ TaskEvent(k, t) \in Events
  BY DEF TaskEvent, TaskEvents, Events
<1> QED BY <1>1

\* The actions of the backend.
BackendStep ==
  \/ \E r \in refreshes : RefreshBegins(r) \/ RefreshLoads(r) \/ RefreshFails(r)
  \/ MutationMarks
  \/ \E k \in Kinds \cup {"catalog"} : Handles(k)
  \/ \E k \in Kinds : WorkerFinishes(k)
  \/ \E kinds \in SUBSET Kinds : MutationInvalidates(kinds)
  \/ \E key \in Sessions : AttachCompletes(key)

\* A step of the backend keeps the types of its state ...
LEMMA BackendStepTyped ==
  ASSUME BackendOK, BackendStep
  PROVE  BackendOK'
<1>1. ASSUME NEW r \in refreshes, RefreshBegins(r) PROVE BackendOK'
  <2>1. CASE attached = NoSession
    <3>1. AnswerOK([about |-> "refresh", n |-> r.n, failed |-> TRUE])
      BY DEF AnswerOK
    <3> QED BY <1>1, <2>1, <3>1 DEF RefreshBegins, BackendOK
  <2>2. CASE attached # NoSession
    <3>1. attached \in Sessions /\ catalog' = Refreshing(attached) /\ catalog' \in Scenes
      BY <1>1, <2>2, CatalogTypes DEF RefreshBegins, BackendOK, Keys
    <3>2. events' \in Seq(Events)
      <4>1. events \in Seq(Events) /\ events' = Append(events, CatalogEvent(catalog'))
        BY <1>1, <2>2 DEF RefreshBegins, BackendOK
      <4> QED BY <3>1, <4>1, CatalogEventTyped
    <3>3. \A q \in refreshes' : q.stage # "asked" => q.stage = "loading" /\ q.key \in Sessions
      BY <1>1, <2>2, <3>1 DEF RefreshBegins, BackendOK
    <3> QED BY <1>1, <2>2, <3>1, <3>2, <3>3 DEF RefreshBegins, BackendOK
  <2> QED BY <2>1, <2>2
<1>2. ASSUME NEW r \in refreshes, RefreshLoads(r) PROVE BackendOK'
  <2>1. r.key \in Sessions /\ r.key \in Keys
    BY <1>2 DEF RefreshLoads, BackendOK, Keys
  <2>2. catalog' = Loaded(r.key) /\ catalog' \in Scenes
    BY <1>2, <2>1, CatalogTypes DEF RefreshLoads, BackendOK
  <2>3. events' \in Seq(Events)
    BY <1>2, <2>2, CatalogEventTyped DEF RefreshLoads, BackendOK
  <2>4. store' \in [Kinds -> Stores]
    BY <1>2, EmptyStoresType DEF RefreshLoads, CompletesRefresh, BackendOK
  <2>5. AnswerOK([about |-> "refresh", n |-> r.n, failed |-> FALSE, state |-> catalog'])
    BY <2>2 DEF AnswerOK
  <2>6. \A a \in answers' : AnswerOK(a)
    <3>1. answers' = answers \cup
                      {[about |-> "refresh", n |-> r.n, failed |-> FALSE, state |-> catalog']}
      BY <1>2 DEF RefreshLoads
    <3> QED BY <2>5, <3>1 DEF BackendOK
  <2> QED BY <1>2, <2>2, <2>3, <2>4, <2>6 DEF RefreshLoads, BackendOK
<1>3. ASSUME NEW r \in refreshes, RefreshFails(r) PROVE BackendOK'
  <2>1. r.key \in Sessions /\ r.key \in Keys
    BY <1>3 DEF RefreshFails, BackendOK, Keys
  <2>2. catalog' = FailedRefresh(r.key) /\ catalog' \in Scenes
    BY <1>3, <2>1, CatalogTypes DEF RefreshFails, BackendOK
  <2>3. events' \in Seq(Events)
    BY <1>3, <2>2, CatalogEventTyped DEF RefreshFails, BackendOK
  <2>4. AnswerOK([about |-> "refresh", n |-> r.n, failed |-> TRUE])
    BY DEF AnswerOK
  <2> QED BY <1>3, <2>2, <2>3, <2>4 DEF RefreshFails, BackendOK
<1>4. ASSUME MutationMarks PROVE BackendOK'
  <2>1. catalog' = Mutated(attached) /\ catalog' \in Scenes
    BY <1>4, CatalogTypes DEF MutationMarks, BackendOK
  <2>2. events' \in Seq(Events)
    <3>1. mutation.told \in Seq(Events) /\ events \in Seq(Events)
      <4>1. TaskEvents \subseteq Events
        BY DEF Events
      <4>2. mutation.told \in Seq(TaskEvents) /\ events \in Seq(Events)
        BY DEF BackendOK
      <4> QED BY <4>1, <4>2
    <3>2. CatalogEvent(catalog') \in Events
      BY <2>1, CatalogEventTyped, <3>1
    <3>3. events' = (events \o <<CatalogEvent(catalog')>>) \o mutation.told
      BY <1>4 DEF MutationMarks
    <3>4. events \o <<CatalogEvent(catalog')>> \in Seq(Events)
      BY <3>1, <3>2
    <3> QED BY <3>1, <3>3, <3>4
  <2>3. mutation' \in [running : BOOLEAN, told : Seq(TaskEvents)]
    BY <1>4 DEF MutationMarks, NoMutation
  <2> QED BY <1>4, <2>1, <2>2, <2>3 DEF MutationMarks, BackendOK
<1>5. ASSUME NEW k \in Kinds \cup {"catalog"}, Handles(k) PROVE BackendOK'
  <2>1. CASE k = "catalog"
    <3> DEFINE c == IF catalog.key = attached THEN catalog ELSE EmptyCatalog(attached)
    <3>1. c \in Scenes
      BY CatalogTypes DEF BackendOK
    <3>2. answers' = answers \cup {[about |-> "catalog", state |-> c]} /\ store' = store
         /\ events' = events
      BY <1>5, <2>1 DEF Handles
    <3> HIDE DEF c
    <3>3. AnswerOK([about |-> "catalog", state |-> c])
      BY <3>1 DEF AnswerOK
    <3> QED BY <1>5, <3>2, <3>3 DEF Handles, BackendOK
  <2>2. CASE k # "catalog" /\ attached = NoSession
    <3>1. AnswerOK([about |-> k, state |-> NoTask])
      BY <2>2 DEF AnswerOK
    <3> QED BY <1>5, <2>2, <3>1 DEF Handles, BackendOK
  <2>3. CASE k # "catalog" /\ attached # NoSession
    <3>1. k \in Kinds /\ attached \in Sessions /\ store[k] \in Stores
      BY <2>3 DEF BackendOK, Keys
    <3>2. store' = [store EXCEPT ![k] = Started(store[k], attached)]
      BY <1>5, <2>3 DEF Handles
    <3>3. store' \in [Kinds -> Stores] /\ store'[k].task \in Tasks
      BY <3>1, <3>2, StartedType DEF BackendOK
    <3>4. AnswerOK([about |-> k, state |-> store'[k].task])
      BY <3>1, <3>3 DEF AnswerOK
    <3>5. answers' = answers \cup {[about |-> k, state |-> store'[k].task]}
      BY <1>5, <2>3 DEF Handles
    <3>6. \A a \in answers' : AnswerOK(a)
      BY <3>4, <3>5 DEF BackendOK
    <3>7. events' \in Seq(Events)
      BY <1>5, <2>3, <3>1, <3>3, TaskEventTyped DEF Handles, BackendOK
    <3> QED BY <1>5, <3>3, <3>6, <3>7 DEF Handles, BackendOK
  <2> QED BY <2>1, <2>2, <2>3
<1>6. ASSUME NEW k \in Kinds, WorkerFinishes(k) PROVE BackendOK'
  <2>1. store[k] \in Stores /\ store' = [store EXCEPT ![k] = Finished(store[k])]
    BY <1>6 DEF WorkerFinishes, BackendOK
  <2>2. store' \in [Kinds -> Stores] /\ store'[k].task \in Tasks
    BY <1>6, <2>1, FinishedType DEF WorkerFinishes, BackendOK
  <2>3. events' \in Seq(Events)
    BY <1>6, <2>2, TaskEventTyped DEF WorkerFinishes, BackendOK
  <2> QED BY <1>6, <2>2, <2>3 DEF WorkerFinishes, BackendOK
<1>7. ASSUME NEW kinds \in SUBSET Kinds, MutationInvalidates(kinds) PROVE BackendOK'
  <2>1. store' = [k \in Kinds |-> IF k \in kinds THEN Invalidated(store[k], attached) ELSE store[k]]
    BY <1>7 DEF MutationInvalidates
  <2>2. store' \in [Kinds -> Stores]
    BY <2>1, InvalidatedType DEF BackendOK
  <2> DEFINE Tells(k) == IF k \in kinds /\ store[k].key = attached /\ store[k].task # NoTask
                         THEN <<TaskEvent(k, store'[k].task)>> ELSE <<>>
  <2>3. \A k : Tells(k) \in Seq(TaskEvents)
    <3> TAKE k
    <3>1. CASE k \in kinds /\ store[k].key = attached /\ store[k].task # NoTask
      <4>1. store'[k].task \in Tasks
        BY <2>1, <3>1, InvalidatedType DEF BackendOK
      <4>2. TaskEvent(k, store'[k].task) \in TaskEvents
        BY <3>1, <4>1, TaskEventTyped DEF BackendOK
      <4> QED BY <3>1, <4>2
    <3>2. CASE ~(k \in kinds /\ store[k].key = attached /\ store[k].task # NoTask)
      BY <3>2
    <3> QED BY <3>1, <3>2
  <2>4. mutation' = [running |-> TRUE, told |-> (Tells("children") \o Tells("header"))
                                               \o Tells("components")]
    BY <1>7 DEF MutationInvalidates
  <2> HIDE DEF Tells
  <2>5. Tells("children") \o Tells("header") \in Seq(TaskEvents)
    BY <2>3
  <2>6. mutation' \in [running : BOOLEAN, told : Seq(TaskEvents)]
    BY <2>3, <2>4, <2>5
  <2> QED BY <1>7, <2>2, <2>6 DEF MutationInvalidates, BackendOK
<1>8. ASSUME NEW key \in Sessions, AttachCompletes(key) PROVE BackendOK'
  <2>1. catalog' \in Scenes /\ store' \in [Kinds -> Stores] /\ attached' \in Keys
    BY <1>8, CatalogTypes, EmptyStoresType DEF AttachCompletes, BackendOK, Keys
  <2> QED BY <1>8, <2>1 DEF AttachCompletes, BackendOK, transit
<1> QED BY <1>1, <1>2, <1>3, <1>4, <1>5, <1>6, <1>7, <1>8 DEF BackendStep

\* ... and touches nothing of the page.
LEMMA BackendStepKeeps ==
  ASSUME BackendStep
  PROVE  Kept /\ (Acts \/ count' = count)
BY DEF BackendStep, RefreshBegins, RefreshLoads, RefreshFails, MutationMarks, Handles,
       WorkerFinishes, MutationInvalidates, AttachCompletes, Kept

\* A set of numbers that are at most n has a greatest element.
LEMMA Greatest ==
  ASSUME NEW n \in Nat, NEW T, T \subseteq 1..n, T # {}
  PROVE  Max(T) \in T /\ \A y \in T : Max(T) >= y
<1> DEFINE D == {n - y : y \in T}
<1>1. D \subseteq Nat /\ D # {}
  <2>1. \A y \in T : n - y \in Nat
    OBVIOUS
  <2>2. PICK y \in T : TRUE
    OBVIOUS
  <2>3. n - y \in D
    OBVIOUS
  <2> QED BY <2>1, <2>3
<1>2. PICK d \in D : \A e \in D : d <= e
  <2> HIDE DEF D
  <2> QED BY <1>1, Least
<1>3. PICK x \in T : d = n - x
  OBVIOUS
<1>4. \A y \in T : n - y \in D
  OBVIOUS
<1>5. \A y \in T : d <= n - y /\ x \in Nat /\ y \in Nat
  BY <1>2, <1>4
<1>6. \A y \in T : x >= y
  BY <1>3, <1>5
<1> QED BY <1>6 DEF Max

\* The kinds of updates that leave a version in the ref.
Writers == {"scene", "refreshing", "error"}

\* A render leaves the version of the last of them, if it evaluates one.
LEMMA WrittenIs ==
  ASSUME PageOK
  PROVE  \/ /\ Written = version
            /\ \A i \in 1..Len(updates) : updates[i].to \notin Writers
         \/ \E m \in 1..Len(updates) :
              /\ Written = VersionOf(Evaluation(base, updates, UrgentOnly)[m].scene)
              /\ \A i \in (m + 1)..Len(updates) : updates[i].to \notin Writers
<1> DEFINE scenes == {i \in 1..Len(updates) : updates[i].to \in Writers}
<1>1. Written = IF scenes = {} THEN version
                ELSE VersionOf(Evaluation(base, updates, UrgentOnly)[Max(scenes)].scene)
  BY DEF Written, Writers, UrgentOnly
<1>2. Len(updates) \in Nat
  BY DEF PageOK
<1>3. CASE scenes = {}
  BY <1>1, <1>3
<1>4. CASE scenes # {}
  <2> DEFINE m == Max(scenes)
  <2>1. m \in scenes /\ \A y \in scenes : m >= y
    <3>1. scenes \subseteq 1..Len(updates)
      OBVIOUS
    <3> HIDE DEF scenes
    <3> QED BY <1>2, <1>4, <3>1, Greatest
  <2>2. Written = VersionOf(Evaluation(base, updates, UrgentOnly)[m].scene)
    BY <1>1, <1>4
  <2> HIDE DEF m
  <2>3. m \in 1..Len(updates) /\ \A i \in (m + 1)..Len(updates) : updates[i].to \notin Writers
    BY <1>2, <2>1
  <2> QED BY <2>2, <2>3
<1> QED BY <1>3, <1>4

\* A scene has a version ...
LEMMA VersionTyped == \A c \in Scenes : VersionOf(c) \in VersionType
BY DEF Scenes, VersionOf, VersionType

\* ... a render leaves one in the ref ...
LEMMA WrittenTyped ==
  ASSUME PageOK, RefsOK
  PROVE  Written \in VersionType
<1>1. ASSUME NEW m \in 1..Len(updates) PROVE Evaluation(base, updates, UrgentOnly)[m] \in Pages
  <2>1. m \in 0..Len(updates)
    BY DEF PageOK
  <2> QED BY <2>1, SeenIs
<1>2. ASSUME NEW q \in Pages PROVE VersionOf(q.scene) \in VersionType
  BY VersionTyped DEF Pages
<1> QED BY <1>1, <1>2, WrittenIs DEF RefsOK

\* ... and so does an effect.
LEMMA EffectedTyped ==
  ASSUME RefsOK, NEW p \in Pages, NEW before \in VersionType
  PROVE  Effected(p, before) \in VersionType /\ Effected(p, before) \in {VersionOf(p.scene), before}
BY VersionTyped DEF Pages, Effected

\* What is to be loaded are kinds of resources.
LEMMA WantedTyped == \A p, able, again, epoch : Wanted(p, able, again, epoch) \subseteq Kinds
BY DEF Wanted

\* Whatever the page dispatches has its types, the page of a dispatch too ...
LEMMA DispatchTyped ==
  ASSUME PageOK, NEW sent \in Seq(Updates), updates' = updates \o sent, UNCHANGED <<page, base, done>>
  PROVE  PageOK'
<1>1. updates' \in Seq(Updates) /\ Len(updates') = Len(updates) + Len(sent)
  BY DispatchSees
<1>2. Len(sent) \in Nat /\ Len(updates) \in Nat /\ done \in 0..Len(updates)
  BY DEF PageOK
<1>3. done \in 0..Len(updates')
  BY <1>1, <1>2
<1> QED BY <1>1, <1>3 DEF PageOK

\* ... and that of a render.
LEMMA CommitsTyped ==
  ASSUME PageOK, NEW sent \in Seq(Updates), Commits(sent)
  PROVE  PageOK'
<1>1. page' = Shown /\ base' \in Pages /\ updates' \in Seq(Updates) /\ done' \in 0..Len(updates')
  BY CommitsSees
<1>2. Shown \in Pages
  BY SeenIs
<1> QED BY <1>1, <1>2 DEF PageOK

\* The state a message brings.
LEMMA BroughtTyped ==
  ASSUME BackendOK
  PROVE  /\ events # <<>> =>
              /\ Tail(events) \in Seq(Events)
              /\ Head(events).about = "catalog" => Head(events).state \in Scenes
              /\ Head(events).about # "catalog" =>
                   Head(events).about \in Kinds /\ Head(events).state \in Tasks
         /\ \A a \in answers :
              /\ a.about \in Kinds /\ a.state # NoTask => a.state \in Tasks
              /\ a.about = "refresh" /\ ~a.failed => a.state \in Scenes
              /\ a.about = "catalog" => a.state \in Scenes
<1>1. ASSUME events # <<>>
      PROVE  /\ Tail(events) \in Seq(Events)
             /\ Head(events).about = "catalog" => Head(events).state \in Scenes
             /\ Head(events).about # "catalog" =>
                  Head(events).about \in Kinds /\ Head(events).state \in Tasks
  <2>1. events \in Seq(Events)
    BY DEF BackendOK
  <2>2. Tail(events) \in Seq(Events) /\ Head(events) \in Events
    BY <1>1, <2>1
  <2> DEFINE e == Head(events)
  <2>3. e \in Events
    BY <2>2
  <2> HIDE DEF e
  <2>4. /\ e.about = "catalog" => e.state \in Scenes
        /\ e.about # "catalog" => e.about \in Kinds /\ e.state \in Tasks
    BY <2>3, KindsAreNot DEF Events, TaskEvents
  <2> QED BY <2>2, <2>4 DEF e
<1>2. ASSUME NEW a \in answers
      PROVE  /\ a.about \in Kinds /\ a.state # NoTask => a.state \in Tasks
             /\ a.about = "refresh" /\ ~a.failed => a.state \in Scenes
             /\ a.about = "catalog" => a.state \in Scenes
  BY KindsAreNot DEF BackendOK, AnswerOK
<1> QED BY <1>1, <1>2

-----------------------------------------------------------------------------
\* What a step does to the page.

\* What is dispatched unless the page is reset.
Fits(u) ==
  /\ u.to # "reset"
  /\ u.to = "scene" => AcceptsScene(u.state)
  /\ u.to \in Kinds => u.state.key = life.key
Fit(sent) == sent \in Seq(Updates) /\ \A i \in 1..Len(sent) : Fits(sent[i])

Dispatches ==
  \E sent : /\ Fit(sent)
            /\ updates' = updates \o sent
            /\ UNCHANGED <<page, base, done, life>>
            /\ version' \in {version, VersionOf(page.scene)}
Rendered ==
  \E K \in SUBSET Kinds : /\ Commits(Loads(K))
                          /\ life'.key = life.key
                          /\ version' \in {Written, VersionOf(Shown.scene)}
RenderedAll == Finishes /\ life' = life /\ version' = Written
Leaves ==
  \E K \in SUBSET Kinds : Commits(<<Reset>> \o Loads(K)) /\ version' = NoVersion

PageStep == Dispatches \/ Rendered \/ RenderedAll \/ Leaves
TypedRest == BackendOK' /\ RefsOK' /\ CountOK'

\* Nothing fits ...
LEMMA FitNone == Fit(<<>>)
BY DEF Fit

\* ... and so does one update that fits ...
LEMMA FitOne ==
  ASSUME NEW u \in Updates, Fits(u)
  PROVE  Fit(<<u>>)
BY DEF Fit

\* ... and the marks of loading.
LEMMA FitLoads ==
  ASSUME NEW K \in SUBSET Kinds
  PROVE  Fit(Loads(K))
<1>1. Loads(K) \in Seq(Updates) /\ \A i \in 1..Len(Loads(K)) : Loads(K)[i].to = "loading"
  BY LoadsAre
<1>2. \A u : u.to = "loading" => Fits(u)
  BY KindsAreNot DEF Fits
<1> QED BY <1>1, <1>2 DEF Fit

\* Nothing to load is not marked.
LEMMA LoadsNone == Loads({}) = <<>>
<1> DEFINE none == <<>>
<1>1. Loads({}) = (none \o none) \o none
  BY DEF Loads
<1> QED BY <1>1

\* Nothing is dispatched.
LEMMA KeptPage ==
  ASSUME PageOK, UNCHANGED <<page, base, updates, done, life, version>>
  PROVE  Dispatches
<1>1. updates \in Seq(Updates)
  BY DEF PageOK
<1>2. updates' = updates \o <<>>
  BY <1>1
<1> QED BY <1>2, FitNone DEF Dispatches

\* A state of the catalog, if it is accepted.
LEMMA FitDispatched ==
  ASSUME NEW c \in Scenes
  PROVE  Fit(Dispatched(c)) /\ Dispatched(c) \in Seq(Updates)
<1>1. ToScene(c) \in Updates /\ ToScene(c).to = "scene" /\ ToScene(c).state = c
  BY EmptyPageType, AppliedScene DEF ToScene
<1>2. AcceptsScene(c) => Fits(ToScene(c))
  BY <1>1, KindsAreNot DEF Fits
<1> QED BY <1>1, <1>2, FitNone, FitOne DEF Dispatched, Fit

\* A task, if it is.
LEMMA FitTask ==
  ASSUME PageOK, NEW k \in Kinds, NEW t, t # NoTask => t \in Tasks,
         updates' = IF t # NoTask /\ AcceptsTask(k, t) THEN Append(updates, ToTask(k, t)) ELSE updates
  PROVE  \E sent : Fit(sent) /\ updates' = updates \o sent
<1>1. updates \in Seq(Updates)
  BY DEF PageOK
<1>2. CASE t # NoTask /\ AcceptsTask(k, t)
  <2> DEFINE u == ToTask(k, t)
  <2>1. u \in Updates /\ u.to = k /\ u.state = t
    BY <1>2, EmptyPageType, AppliedTask DEF ToTask
  <2>2. Fits(u)
    BY <1>2, <2>1, KindsAreNot DEF Fits, AcceptsTask
  <2> HIDE DEF u
  <2>3. Append(updates, u) = updates \o <<u>>
    BY <1>1, <2>1
  <2>4. updates' = updates \o <<u>>
    BY <1>2, <2>3 DEF u
  <2> QED BY <2>1, <2>2, <2>4, FitOne
<1>3. CASE ~(t # NoTask /\ AcceptsTask(k, t))
  <2>1. updates' = updates \o <<>>
    BY <1>1, <1>3
  <2> QED BY <2>1, FitNone
<1> QED BY <1>2, <1>3

\* A refresh, after a state of the catalog.
LEMMA FitRefresh ==
  ASSUME PageOK, NEW sent, Fit(sent), Refresh(sent)
  PROVE  \E more : /\ Fit(more) /\ updates' = updates \o more
                   /\ \/ more = sent /\ refreshes' = refreshes
                      \/ /\ more = sent \o <<Optimistic>>
                         /\ \E n : refreshes' = refreshes \cup {[n |-> n, stage |-> "asked"]}
<1>1. CASE known.scene.status = "refreshing" \/ known.scene.fresh = "refreshing"
  BY <1>1 DEF Refresh
<1>2. CASE ~(known.scene.status = "refreshing" \/ known.scene.fresh = "refreshing")
  <2>1. /\ updates' = (updates \o sent) \o <<Optimistic>>
        /\ refreshes' = refreshes \cup {[n |-> NewCall, stage |-> "asked"]}
    BY <1>2 DEF Refresh
  <2>2. Optimistic \in Updates /\ Optimistic.to = "refreshing"
    BY DEF Optimistic, Updates
  <2>3. Fits(Optimistic)
    BY <2>2, KindsAreNot DEF Fits
  <2>4. sent \in Seq(Updates) /\ updates \in Seq(Updates)
    BY DEF Fit, PageOK
  <2> DEFINE u == Optimistic
  <2>5. u \in Updates /\ Fits(u)
    BY <2>2, <2>3
  <2> HIDE DEF u
  <2>6. (updates \o sent) \o <<u>> = updates \o (sent \o <<u>>)
    <3>1. <<u>> \in Seq(Updates)
      BY <2>5
    <3> QED BY <2>4, <3>1, ConcatAssociative
  <2>7. Fit(sent \o <<u>>)
    <3>1. /\ sent \o <<u>> \in Seq(Updates) /\ Len(sent \o <<u>>) = Len(sent) + 1 /\ Len(sent) \in Nat
          /\ \A i \in 1..(Len(sent) + 1) :
               (sent \o <<u>>)[i] = IF i = Len(sent) + 1 THEN u ELSE sent[i]
      BY <2>4, <2>5
    <3>2. \A i \in 1..(Len(sent) + 1) : Fits((sent \o <<u>>)[i])
      <4> TAKE i \in 1..(Len(sent) + 1)
      <4>1. CASE i = Len(sent) + 1
        BY <2>5, <3>1, <4>1
      <4>2. CASE i # Len(sent) + 1
        <5>1. i \in 1..Len(sent)
          BY <3>1, <4>2
        <5> QED BY <3>1, <4>2, <5>1 DEF Fit
      <4> QED BY <4>1, <4>2
    <3> QED BY <3>1, <3>2 DEF Fit
  <2> QED BY <2>1, <2>6, <2>7 DEF u
<1> QED BY <1>1, <1>2

\* A state that is judged keeps the types of the counts.
LEMMA JudgedTyped ==
  ASSUME CountOK, NEW c, count' = Judged(c)
  PROVE  CountOK'
<1> DEFINE b == Below(VersionOf(c), version) # Below(VersionOf(c), VersionOf(Seen.scene))
                \/ (count.misjudged /\ (Below(VersionOf(c), version)
                                        \/ VersionOf(c) # VersionOf(catalog)))
<1>1. count' = IF c.key # life.key THEN count ELSE [count EXCEPT !.misjudged = b]
  BY DEF Judged
<1>2. b \in BOOLEAN
  OBVIOUS
<1> HIDE DEF b
<1> QED BY <1>1, <1>2 DEF CountOK, CountType

\* What each action does to the page, and that it keeps the types of the rest: the effects ...
LEMMA EffectsStep ==
  ASSUME TypeOK, EffectsRun
  PROVE  PageStep /\ TypedRest
<1>1. BackendOK /\ PageOK /\ RefsOK /\ CountOK
  BY TypedParts
<1> DEFINE K == Wanted(page, life.able, FALSE, version'.epoch)
<1>2. /\ known' = page /\ version' = Effected(page, version)
      /\ updates' = updates \o Loads(K) /\ asked' = asked \cup K
      /\ UNCHANGED <<backend, events, answers, life, page, base, done, count>>
  BY DEF EffectsRun
<1>3. K \subseteq Kinds
  BY WantedTyped
<1> HIDE DEF K
<1>4. version' \in VersionType /\ version' \in {version, VersionOf(page.scene)}
  BY <1>1, <1>2, EffectedTyped DEF RefsOK, PageOK
<1>5. Dispatches
  BY <1>2, <1>3, <1>4, FitLoads DEF Dispatches
<1>6. BackendOK' /\ RefsOK' /\ CountOK'
  BY <1>1, <1>2, <1>3, <1>4 DEF BackendOK, RefsOK, CountOK, PageOK, backend
<1> QED BY <1>5, <1>6 DEF PageStep, TypedRest

\* ... renders ...
LEMMA RenderSteps ==
  ASSUME TypeOK, Renders \/ RendersAll
  PROVE  PageStep /\ TypedRest
<1>1. BackendOK /\ PageOK /\ RefsOK /\ CountOK
  BY TypedParts
<1>2. version' = Written /\ UNCHANGED <<backend, transit, life, known, count>>
  BY DEF Renders, RendersAll
<1>3. version' \in VersionType
  BY <1>1, <1>2, WrittenTyped
<1>4. TypedRest
  BY <1>1, <1>2, <1>3 DEF TypedRest, BackendOK, RefsOK, CountOK, backend, transit
<1>5. CASE Renders
  <2>1. Commits(Loads({})) /\ life' = life
    BY <1>2, <1>5, LoadsNone DEF Renders
  <2>2. Rendered
    BY <1>2, <2>1 DEF Rendered
  <2> QED BY <1>4, <2>2 DEF PageStep
<1>6. CASE RendersAll
  BY <1>2, <1>4, <1>6 DEF RendersAll, Finishes, RenderedAll, PageStep
<1> QED BY <1>5, <1>6

\* The types of what a render at once leaves.
LEMMA AtOnceTyped ==
  ASSUME TypeOK, NEW sent, NEW calls, RendersAtOnce(sent, calls), calls \subseteq Kinds \cup {"catalog"},
         UNCHANGED backend
  PROVE  BackendOK' /\ known' \in Pages
<1>1. BackendOK /\ PageOK
  BY TypedParts
<1>2. known' = Shown /\ asked' = asked \cup calls /\ UNCHANGED <<events, answers>>
  BY DEF RendersAtOnce
<1>3. Shown \in Pages
  BY <1>1, SeenIs
<1> QED BY <1>1, <1>2, <1>3 DEF BackendOK, backend

\* The effects of a render find its version, or the one it wrote.
LEMMA ShownEffect ==
  ASSUME TypeOK, version' = Effected(Shown, Written)
  PROVE  version' \in VersionType /\ version' \in {Written, VersionOf(Shown.scene)}
<1>1. PageOK /\ RefsOK
  BY TypedParts
<1>2. Shown \in Pages /\ Written \in VersionType
  BY <1>1, SeenIs, WrittenTyped
<1> QED BY <1>1, <1>2, EffectedTyped

\* ... a selection ...
LEMMA SelectStep ==
  ASSUME TypeOK, UserSelects
  PROVE  PageStep /\ TypedRest
<1>1. BackendOK /\ PageOK /\ RefsOK /\ CountOK
  BY TypedParts
<1> DEFINE K == Wanted(Shown, life.able, TRUE, version'.epoch)
<1>2. /\ Acts /\ version' = Effected(Shown, Written) /\ RendersAtOnce(Loads(K), K)
      /\ UNCHANGED <<backend, life>>
  BY DEF UserSelects
<1>3. K \subseteq Kinds
  BY WantedTyped
<1> HIDE DEF K
<1>4. version' \in VersionType /\ version' \in {Written, VersionOf(Shown.scene)}
  BY <1>2, ShownEffect
<1>5. BackendOK' /\ known' \in Pages
  BY <1>2, <1>3, AtOnceTyped
<1>6. RefsOK' /\ CountOK'
  BY <1>1, <1>2, <1>4, <1>5, ActsTyped DEF RefsOK
<1>7. Rendered
  BY <1>2, <1>3, <1>4 DEF Rendered, RendersAtOnce
<1> QED BY <1>5, <1>6, <1>7 DEF PageStep, TypedRest

\* ... the snapshot ...
LEMMA SnapshotStep ==
  ASSUME TypeOK, SnapshotLoads
  PROVE  PageStep /\ TypedRest
<1>1. BackendOK /\ PageOK /\ RefsOK /\ CountOK
  BY TypedParts
<1> DEFINE K == Wanted(Shown, TRUE, FALSE, version'.epoch)
<1>2. /\ life' = [life EXCEPT !.snap = TRUE] /\ version' = Effected(Shown, Written)
      /\ RendersAtOnce(Loads(K), K \cup {"catalog"})
      /\ UNCHANGED <<backend, count>>
  BY DEF SnapshotLoads
<1>3. K \subseteq Kinds
  BY WantedTyped
<1> HIDE DEF K
<1>4. version' \in VersionType /\ version' \in {Written, VersionOf(Shown.scene)}
  BY <1>2, ShownEffect
<1>5. BackendOK' /\ known' \in Pages
  BY <1>2, <1>3, AtOnceTyped
<1>6. life'.key = life.key /\ life' \in [key : Keys, able : BOOLEAN, snap : BOOLEAN]
  BY <1>1, <1>2 DEF RefsOK
<1>7. RefsOK' /\ CountOK'
  BY <1>1, <1>2, <1>4, <1>5, <1>6 DEF RefsOK, CountOK
<1>8. Rendered
  BY <1>2, <1>3, <1>4, <1>6 DEF Rendered, RendersAtOnce
<1> QED BY <1>5, <1>7, <1>8 DEF PageStep, TypedRest

\* The page takes a lifecycle without session or snapshot.
LEMMA TakesLifeStep ==
  ASSUME TypeOK, NEW l \in [key : Keys, able : BOOLEAN, snap : BOOLEAN], TakesLife(l)
  PROVE  Leaves /\ RefsOK' /\ (UNCHANGED backend => BackendOK')
         /\ \E K \in SUBSET Kinds : asked' = asked \cup K /\ UNCHANGED <<events, answers>>
<1> DEFINE K == Wanted(Shown, l.able, l.able # life.able, 0)
<1>1. life' = l /\ version' = NoVersion /\ RendersAtOnce(<<Reset>> \o Loads(K), K)
  BY DEF TakesLife
<1>2. K \subseteq Kinds
  BY WantedTyped
<1> HIDE DEF K
<1>3. known' \in Pages
  <2>1. known' = Shown
    BY <1>1 DEF RendersAtOnce
  <2> QED BY <2>1, SeenIs, TypedParts
<1>4. UNCHANGED backend => BackendOK'
  BY <1>1, <1>2, AtOnceTyped
<1>5. Leaves /\ asked' = asked \cup K /\ UNCHANGED <<events, answers>>
  BY <1>1, <1>2 DEF Leaves, RendersAtOnce
<1>6. RefsOK'
  BY <1>1, <1>3 DEF RefsOK, NoVersion, VersionType
<1> QED BY <1>2, <1>4, <1>5, <1>6

\* ... the begin of an attach ...
LEMMA AttachBeginsStep ==
  ASSUME TypeOK, AttachBegins
  PROVE  PageStep /\ TypedRest
<1>1. BackendOK /\ PageOK /\ RefsOK /\ CountOK
  BY TypedParts
<1>2. attached' = NoSession /\ UNCHANGED <<catalog, store, refreshes, mutation>>
  BY DEF AttachBegins
<1>3. CountOK'
  <2> DEFINE n == count.attaches + 1
  <2>1. count' = [count EXCEPT !.attaches = n] /\ n \in Nat
    BY <1>1 DEF AttachBegins, CountOK, CountType
  <2> HIDE DEF n
  <2> QED BY <1>1, <2>1 DEF CountOK, CountType
<1>4. CASE life.key = NoSession
  <2>1. UNCHANGED <<transit, life, react>>
    BY <1>4 DEF AttachBegins
  <2>2. Dispatches
    BY <1>1, <2>1, KeptPage DEF react
  <2>3. RefsOK'
    BY <1>1, <2>1, KeptTyped DEF Kept
  <2>4. BackendOK'
    BY <1>1, <1>2, <2>1 DEF BackendOK, Keys, transit
  <2> QED BY <1>3, <2>2, <2>3, <2>4 DEF PageStep, TypedRest
<1>5. CASE life.key # NoSession
  <2>1. TakesLife(NoLife) /\ NoLife \in [key : Keys, able : BOOLEAN, snap : BOOLEAN]
    BY <1>5 DEF AttachBegins, NoLife, Keys
  <2>2. /\ Leaves /\ RefsOK'
        /\ \E K \in SUBSET Kinds : asked' = asked \cup K /\ UNCHANGED <<events, answers>>
    BY <2>1, TakesLifeStep
  <2>3. BackendOK'
    BY <1>1, <1>2, <2>2 DEF BackendOK, Keys
  <2> QED BY <1>3, <2>2, <2>3 DEF PageStep, TypedRest
<1> QED BY <1>4, <1>5

\* ... its end ...
LEMMA AttachAnsweredStep ==
  ASSUME TypeOK, AttachAnswered
  PROVE  PageStep /\ TypedRest
<1>1. BackendOK /\ PageOK /\ RefsOK /\ CountOK
  BY TypedParts
<1> DEFINE l == [NoLife EXCEPT !.key = attached]
<1>2. TakesLife(l) /\ UNCHANGED backend
  BY DEF AttachAnswered
<1>3. l \in [key : Keys, able : BOOLEAN, snap : BOOLEAN]
  BY <1>1 DEF NoLife, BackendOK
<1> HIDE DEF l
<1>4. Leaves /\ RefsOK' /\ BackendOK'
  BY <1>2, <1>3, TakesLifeStep
<1>5. CountOK'
  <2> DEFINE b == \E c \in InFlight : c.key = attached
  <2>1. count' = [count EXCEPT !.misjudged = FALSE, !.mixed = b]
    BY DEF AttachAnswered
  <2>2. b \in BOOLEAN
    OBVIOUS
  <2> HIDE DEF b
  <2> QED BY <1>1, <2>1, <2>2 DEF CountOK, CountType
<1> QED BY <1>4, <1>5 DEF PageStep, TypedRest

\* ... a refresh of the lifecycle ...
LEMMA LifecycleStep ==
  ASSUME TypeOK, LifecycleRefreshes
  PROVE  PageStep /\ TypedRest
<1>1. BackendOK /\ PageOK /\ RefsOK /\ CountOK
  BY TypedParts
<1> DEFINE l == [life EXCEPT !.able = TRUE]
<1>2. TakesLife(l) /\ UNCHANGED backend /\ (Acts \/ count' = count)
  BY DEF LifecycleRefreshes
<1>3. l \in [key : Keys, able : BOOLEAN, snap : BOOLEAN]
  BY <1>1 DEF RefsOK
<1> HIDE DEF l
<1>4. Leaves /\ RefsOK' /\ BackendOK'
  BY <1>2, <1>3, TakesLifeStep
<1>5. CountOK'
  BY <1>1, <1>2, ActsTyped
<1> QED BY <1>4, <1>5 DEF PageStep, TypedRest

\* A step that dispatches what fits.
LEMMA SentStep ==
  ASSUME RefsOK, NEW sent, Fit(sent), updates' = updates \o sent,
         UNCHANGED <<page, base, done, life, known, version>>
  PROVE  PageStep /\ RefsOK'
BY DEF Dispatches, PageStep, RefsOK

\* ... an event ...
LEMMA ArrivalStep ==
  ASSUME TypeOK, EventArrives
  PROVE  PageStep /\ TypedRest
<1>1. BackendOK /\ PageOK /\ RefsOK /\ CountOK
  BY TypedParts
<1> DEFINE e == Head(events)
<1>2. /\ Tail(events) \in Seq(Events)
      /\ e.about = "catalog" => e.state \in Scenes
      /\ e.about # "catalog" => e.about \in Kinds /\ e.state \in Tasks
  BY <1>1, BroughtTyped DEF EventArrives
<1>3. /\ events' = Tail(events)
      /\ UNCHANGED <<backend, asked, answers, life, page, base, done, known, version>>
      /\ IF e.about = "catalog"
           THEN updates' = updates \o Dispatched(e.state) /\ count' = Judged(e.state)
           ELSE /\ updates' = IF AcceptsTask(e.about, e.state)
                               THEN Append(updates, ToTask(e.about, e.state)) ELSE updates
                /\ UNCHANGED count
  BY DEF EventArrives
<1> HIDE DEF e
<1>4. BackendOK'
  BY <1>1, <1>2, <1>3 DEF BackendOK, backend
<1>5. CASE e.about = "catalog"
  <2>1. Fit(Dispatched(e.state)) /\ CountOK'
    BY <1>1, <1>2, <1>3, <1>5, FitDispatched, JudgedTyped
  <2>2. PageStep /\ RefsOK'
    BY <1>1, <1>3, <1>5, <2>1, SentStep
  <2> QED BY <1>4, <2>1, <2>2 DEF TypedRest
<1>6. CASE e.about # "catalog"
  <2> DEFINE k == e.about
             t == e.state
  <2>1. k \in Kinds /\ t \in Tasks /\ t # NoTask
    BY <1>2, <1>6 DEF Tasks, NoTask
  <2>2. updates' = IF t # NoTask /\ AcceptsTask(k, t) THEN Append(updates, ToTask(k, t)) ELSE updates
    BY <1>3, <1>6, <2>1
  <2> HIDE DEF k, t
  <2>3. PICK sent : Fit(sent) /\ updates' = updates \o sent
    BY <1>1, <2>1, <2>2, FitTask
  <2>4. PageStep /\ RefsOK'
    BY <1>1, <1>3, <2>3, SentStep
  <2> QED BY <1>1, <1>3, <1>4, <1>6, <2>4 DEF TypedRest, CountOK
<1> QED BY <1>5, <1>6

\* ... an answer ...
LEMMA AnswerSteps ==
  ASSUME TypeOK, NEW a \in answers, TaskAnswered(a) \/ RefreshAnswered(a) \/ CatalogAnswered(a)
  PROVE  PageStep /\ TypedRest
<1>1. BackendOK /\ PageOK /\ RefsOK /\ CountOK
  BY TypedParts
<1>2. /\ a.about \in Kinds /\ a.state # NoTask => a.state \in Tasks
      /\ a.about = "refresh" /\ ~a.failed => a.state \in Scenes
      /\ a.about = "catalog" => a.state \in Scenes
  BY <1>1, BroughtTyped
<1>3. CASE TaskAnswered(a)
  <2>1. /\ a.about \in Kinds /\ answers' = answers \ {a}
        /\ updates' = IF a.state # NoTask /\ AcceptsTask(a.about, a.state)
                        THEN Append(updates, ToTask(a.about, a.state)) ELSE updates
        /\ UNCHANGED <<backend, events, asked, life, page, base, done, known, version, count>>
    BY <1>3 DEF TaskAnswered
  <2> DEFINE k == a.about
             t == a.state
  <2>2. k \in Kinds /\ (t # NoTask => t \in Tasks)
        /\ updates' = IF t # NoTask /\ AcceptsTask(k, t) THEN Append(updates, ToTask(k, t)) ELSE updates
    BY <1>2, <2>1
  <2> HIDE DEF k, t
  <2>3. PICK sent : Fit(sent) /\ updates' = updates \o sent
    BY <1>1, <2>2, FitTask
  <2>4. PageStep /\ RefsOK'
    BY <1>1, <2>1, <2>3, SentStep
  <2>5. BackendOK' /\ CountOK'
    BY <1>1, <2>1 DEF BackendOK, CountOK, backend
  <2> QED BY <2>4, <2>5 DEF TypedRest
<1>4. CASE RefreshAnswered(a)
  <2>1. /\ a.about = "refresh" /\ answers' = answers \ {a}
        /\ UNCHANGED <<backend, events, asked, life, page, base, done, known, version>>
        /\ IF a.failed THEN updates' = Append(updates, Failure) /\ UNCHANGED count
           ELSE updates' = updates \o Dispatched(a.state) /\ count' = Judged(a.state)
    BY <1>4 DEF RefreshAnswered
  <2>2. BackendOK'
    BY <1>1, <2>1 DEF BackendOK, backend
  <2>3. CASE a.failed
    <3> DEFINE u == Failure
    <3>1. u \in Updates /\ Fits(u)
      BY KindsAreNot DEF Failure, Updates, Fits
    <3>2. updates' = Append(updates, u)
      BY <2>1, <2>3
    <3> HIDE DEF u
    <3>3. updates' = updates \o <<u>>
      BY <1>1, <3>1, <3>2 DEF PageOK
    <3>4. PageStep /\ RefsOK'
      BY <1>1, <2>1, <3>1, <3>3, FitOne, SentStep
    <3> QED BY <1>1, <2>1, <2>2, <2>3, <3>4 DEF TypedRest, CountOK
  <2>4. CASE ~a.failed
    <3>1. Fit(Dispatched(a.state)) /\ CountOK'
      BY <1>1, <1>2, <2>1, <2>4, FitDispatched, JudgedTyped
    <3>2. PageStep /\ RefsOK'
      BY <1>1, <2>1, <2>4, <3>1, SentStep
    <3> QED BY <2>2, <3>1, <3>2 DEF TypedRest
  <2> QED BY <2>3, <2>4
<1>5. CASE CatalogAnswered(a)
  <2>1. /\ a.about = "catalog" /\ answers' = answers \ {a} /\ count' = Judged(a.state)
        /\ IF NeedsRefresh(a.state) THEN Refresh(Dispatched(a.state))
           ELSE updates' = updates \o Dispatched(a.state) /\ UNCHANGED refreshes
        /\ UNCHANGED <<attached, catalog, store, mutation, events, asked, life, page, base, done,
                       known, version>>
    BY <1>5 DEF CatalogAnswered
  <2>2. Fit(Dispatched(a.state)) /\ CountOK'
    BY <1>1, <1>2, <2>1, FitDispatched, JudgedTyped
  <2>3. /\ \E sent : Fit(sent) /\ updates' = updates \o sent
        /\ refreshes' = refreshes \/ \E n : refreshes' = refreshes \cup {[n |-> n, stage |-> "asked"]}
    BY <1>1, <2>1, <2>2, FitRefresh
  <2>4. PageStep /\ RefsOK'
    BY <1>1, <2>1, <2>3, SentStep
  <2>5. BackendOK'
    BY <1>1, <2>1, <2>3 DEF BackendOK
  <2> QED BY <2>2, <2>4, <2>5 DEF TypedRest
<1> QED BY <1>3, <1>4, <1>5

\* ... a refresh of the user ...
LEMMA UserRefreshStep ==
  ASSUME TypeOK, UserRefreshes
  PROVE  PageStep /\ TypedRest
<1>1. BackendOK /\ PageOK /\ RefsOK /\ CountOK
  BY TypedParts
<1>2. /\ Acts /\ Refresh(<<>>)
      /\ UNCHANGED <<attached, catalog, store, mutation, transit, life, page, base, done, known, version>>
  BY DEF UserRefreshes
<1>3. /\ \E sent : Fit(sent) /\ updates' = updates \o sent
      /\ refreshes' = refreshes \/ \E n : refreshes' = refreshes \cup {[n |-> n, stage |-> "asked"]}
  BY <1>1, <1>2, FitNone, FitRefresh
<1>4. PageStep /\ RefsOK'
  BY <1>1, <1>2, <1>3, SentStep
<1>5. BackendOK' /\ CountOK'
  BY <1>1, <1>2, <1>3, ActsTyped DEF BackendOK, transit
<1> QED BY <1>4, <1>5 DEF TypedRest

\* ... and the backend.
LEMMA BackendSteps ==
  ASSUME TypeOK, BackendStep
  PROVE  PageStep /\ TypedRest
<1>1. BackendOK /\ PageOK /\ RefsOK /\ CountOK
  BY TypedParts
<1>2. BackendOK' /\ Kept /\ (Acts \/ count' = count)
  BY <1>1, BackendStepTyped, BackendStepKeeps
<1>3. Dispatches
  BY <1>1, <1>2, KeptPage DEF Kept, react
<1> QED BY <1>1, <1>2, <1>3, KeptTyped, ActsTyped DEF PageStep, TypedRest

\* The steps of the system, in the order of the lemmas.
StepIsOneOf ==
  \/ BackendStep
  \/ EffectsRun
  \/ Renders \/ RendersAll
  \/ UserSelects \/ UserRefreshes
  \/ AttachBegins \/ AttachAnswered
  \/ LifecycleRefreshes \/ SnapshotLoads
  \/ EventArrives
  \/ \E a \in answers : TaskAnswered(a) \/ RefreshAnswered(a) \/ CatalogAnswered(a)

\* The actions, the backend in one.
LEMMA NextIs ==
  ASSUME Next
  PROVE  StepIsOneOf
BY DEF Next, Starts, Follows, BackendStep, StepIsOneOf

\* Each step is one of these.
LEMMA StepCases ==
  ASSUME TypeOK, [Next]_vars
  PROVE  PageStep /\ TypedRest
<1>1. CASE UNCHANGED vars
  <2>1. BackendOK /\ PageOK /\ RefsOK /\ CountOK
    BY TypedParts
  <2>2. Dispatches
    BY <1>1, <2>1, KeptPage DEF vars, react
  <2> QED BY <1>1, <2>1, <2>2 DEF vars, backend, transit, react, PageStep, TypedRest, BackendOK,
                                  RefsOK, CountOK
<1>2. CASE Next
  <2>1. StepIsOneOf
    BY <1>2, NextIs
  <2> QED BY <2>1, BackendSteps, EffectsStep, RenderSteps, SelectStep, UserRefreshStep,
             AttachBeginsStep, AttachAnsweredStep, LifecycleStep, SnapshotStep, ArrivalStep,
             AnswerSteps DEF StepIsOneOf
<1> QED BY <1>1, <1>2

\* A reset and the marks of loading after it.
LEMMA LeavesTyped ==
  ASSUME NEW K \in SUBSET Kinds
  PROVE  /\ <<Reset>> \o Loads(K) \in Seq(Updates)
         /\ <<Reset>> \in Seq(Updates) /\ Loads(K) \in Seq(Updates)
         /\ Len(<<Reset>> \o Loads(K)) \in Nat \ {0} /\ (<<Reset>> \o Loads(K))[1] = Reset
<1>1. Reset \in Updates /\ Loads(K) \in Seq(Updates)
  BY LoadsAre DEF Updates
<1> DEFINE r == Reset
           s == Loads(K)
<1>2. r \in Updates /\ s \in Seq(Updates)
  BY <1>1
<1> HIDE DEF r, s
<1>3. <<r>> \o s \in Seq(Updates) /\ <<r>> \in Seq(Updates) /\ Len(<<r>> \o s) \in Nat \ {0}
      /\ (<<r>> \o s)[1] = r
  BY <1>2
<1> QED BY <1>1, <1>3 DEF r, s

\* Each step keeps the types.
LEMMA TypedStep == TypeOK /\ [Next]_vars => TypeOK'
<1> SUFFICES ASSUME TypeOK, [Next]_vars PROVE TypeOK'
  OBVIOUS
<1>1. PageOK /\ PageStep /\ TypedRest
  BY StepCases, TypedParts
<1>2. ASSUME Dispatches PROVE PageOK'
  BY <1>1, <1>2, DispatchTyped DEF Dispatches, Fit
<1>3. ASSUME Rendered PROVE PageOK'
  BY <1>1, <1>3, CommitsTyped, LoadsAre DEF Rendered
<1>4. ASSUME RenderedAll PROVE PageOK'
  BY <1>1, <1>4, FinishesSees DEF RenderedAll
<1>5. ASSUME Leaves PROVE PageOK'
  BY <1>1, <1>5, CommitsTyped, LeavesTyped DEF Leaves
<1>6. PageOK'
  BY <1>1, <1>2, <1>3, <1>4, <1>5 DEF PageStep
<1> QED BY <1>1, <1>6, TypedPartsNext DEF TypedRest

\* Types hold in every behaviour; what is in a store, on its way or on the page is
\* a task the backend makes.
THEOREM TypeCorrect == Spec => []TypeOK
<1>1. Init => TypeOK
  BY InitTyped
<1>2. TypeOK /\ [Next]_vars => TypeOK'
  BY TypedStep
<1> QED BY <1>1, <1>2, PTL DEF Spec

-----------------------------------------------------------------------------
\* The session of what the page shows.

OfKey(p, key) ==
  /\ p.scene.key \in {NoSession, key}
  /\ \A k \in Kinds : p.tasks[k] # NoTask => p.tasks[k].key = key

\* What the page is going to show is of its session too, in a render of any kind.
SessionInv ==
  /\ OfKey(Shown, life.key)
  /\ OfKey(Seen, life.key)
  /\ SessionOnly

\* What fits keeps a page to the session.
LEMMA FitOfKey ==
  ASSUME NEW p \in Pages, OfKey(p, life.key), NEW sent, Fit(sent), NEW all \in BOOLEAN
  PROVE  OfKey(Then(p, sent, all), life.key)
<1> DEFINE C == {q \in Pages : OfKey(q, life.key)}
<1>1. sent \in Seq(Updates) /\ Len(sent) \in Nat
      /\ \A i \in 1..Len(sent) : sent[i] \in Updates /\ Fits(sent[i])
  BY DEF Fit
<1>2. ASSUME NEW u \in Updates, Fits(u), NEW q \in Pages, OfKey(q, life.key)
      PROVE  OfKey(Step(q, u, all), life.key)
  <2>1. Step(q, u, all).scene.key \in {NoSession, life.key}
    <3>1. CASE u.to = "scene"
      BY <1>2, <3>1, StepIs DEF Fits, AcceptsScene
    <3>2. CASE u.to \in {"refreshing", "error"}
      BY <1>2, <3>2, StepIs DEF OfKey
    <3>3. CASE u.to \notin {"scene", "reset", "refreshing", "error"}
      BY <1>2, <3>3, StepIs DEF OfKey
    <3> QED BY <1>2, <3>1, <3>2, <3>3 DEF Fits
  <2>2. ASSUME NEW k \in Kinds, Step(q, u, all).tasks[k] # NoTask
        PROVE  Step(q, u, all).tasks[k].key = life.key
    <3>1. CASE u.to \in Kinds
      <4>1. Step(q, u, all).tasks[k] \in {q.tasks[k], u.state}
        BY <3>1, StepIs
      <4> QED BY <1>2, <2>2, <3>1, <4>1 DEF Fits, OfKey
    <3>2. CASE u.to \notin Kinds
      <4>1. Step(q, u, all).tasks = q.tasks
        BY <1>2, <3>2, StepIs DEF Fits
      <4> QED BY <1>2, <2>2, <4>1 DEF OfKey
    <3> QED BY <3>1, <3>2
  <2> QED BY <2>1, <2>2 DEF OfKey
<1>3. \A i \in 1..Len(sent) : \A q \in C : Step(q, sent[i], all) \in C
  BY <1>1, <1>2, StepIs
<1>4. p \in C
  OBVIOUS
<1> HIDE DEF C
<1>5. Then(p, sent, all) \in C
  BY <1>1, <1>3, <1>4, ThenStays
<1> QED BY <1>5 DEF C

\* A page that is reset is empty, but for its marks of loading.
LEMMA ThenLeaves ==
  ASSUME NEW p \in Pages, NEW K \in SUBSET Kinds, NEW all \in BOOLEAN
  PROVE  /\ Then(p, <<Reset>> \o Loads(K), all).scene = EmptyPage.scene
         /\ Then(p, <<Reset>> \o Loads(K), all).tasks = EmptyPage.tasks
<1>1. <<Reset>> \in Seq(Updates) /\ Loads(K) \in Seq(Updates) /\ Reset \in Updates /\ Reset.to = "reset"
  BY LeavesTyped DEF Reset, Updates
<1>2. Step(p, Reset, all) = EmptyPage
  BY <1>1, StepIs
<1>3. Then(p, <<Reset>>, all) = EmptyPage
  BY <1>2, ThenOne
<1>4. Then(p, <<Reset>> \o Loads(K), all) = Then(Then(p, <<Reset>>, all), Loads(K), all)
  <2> DEFINE r == <<Reset>>
             s == Loads(K)
  <2>1. r \in Seq(Updates) /\ s \in Seq(Updates)
    BY <1>1
  <2> HIDE DEF r, s
  <2>2. Then(p, r \o s, all) = Then(Then(p, r, all), s, all)
    BY <2>1, ThenMore
  <2> QED BY <2>2 DEF r, s
<1> QED BY <1>3, <1>4, EmptyPageType, ThenLoads

\* An emptied page is of any session.
LEMMA EmptyOfKey ==
  ASSUME NEW p, p.scene = EmptyPage.scene, p.tasks = EmptyPage.tasks, NEW key
  PROVE  OfKey(p, key)
BY DEF EmptyPage, EmptyCatalog, OfKey

\* A reset that waits goes on waiting when more is dispatched, and waits when it is.
LEMMA ResettingStays ==
  ASSUME PageOK, NEW sent \in Seq(Updates), updates' = updates \o sent, done' = done, Resetting
  PROVE  Resetting'
<1>1. updates \in Seq(Updates) /\ done \in Nat
  BY DEF PageOK
<1>2. PICK i \in (done + 1)..Len(updates) : updates[i] = Reset
  BY DEF Resetting
<1>3. i \in (done' + 1)..Len(updates') /\ updates'[i] = updates[i]
  BY <1>1, <1>2
<1> QED BY <1>2, <1>3 DEF Resetting

\* A page that leaves a session waits for the reset.
LEMMA LeavesResetting ==
  ASSUME PageOK, Leaves
  PROVE  Resetting'
<1>1. PICK K \in SUBSET Kinds : Commits(<<Reset>> \o Loads(K))
  BY DEF Leaves
<1> DEFINE s == <<Reset>> \o Loads(K)
<1>2. s \in Seq(Updates) /\ Len(s) \in Nat \ {0} /\ s[1] = Reset
  BY LeavesTyped
<1>3. Commits(s)
  BY <1>1
<1> HIDE DEF s
<1>4. /\ updates' \in Seq(Updates) /\ done' \in 0..Len(updates')
      /\ Len(updates') = done' + Len(s) /\ \A i \in 1..Len(s) : updates'[done' + i] = s[i]
  BY <1>2, <1>3, CommitsSees
<1>5. done' + 1 \in (done' + 1)..Len(updates') /\ updates'[done' + 1] = Reset
  <2> DEFINE n == done'
             t == updates'
  <2>1. Len(t) = n + Len(s) /\ \A i \in 1..Len(s) : t[n + i] = s[i]
    BY <1>4, Zenon
  <2>0. n \in 0..Len(t)
    BY <1>4, Zenon
  <2> HIDE DEF n, t
  <2>2. 1 \in 1..Len(s) /\ n + 1 \in (n + 1)..Len(t)
    BY <1>2, <2>0, <2>1
  <2> QED BY <1>2, <2>1, <2>2 DEF n, t
<1> QED BY <1>5 DEF Resetting

\* What the page is going to show, after each kind of step.
LEMMA RenderedSees ==
  ASSUME PageOK, Rendered
  PROVE  page' = Shown /\ Seen'.scene = Seen.scene /\ Seen'.tasks = Seen.tasks
         /\ Shown'.scene = Shown.scene /\ Shown'.tasks = Shown.tasks
         /\ Evaluation(base', updates', UrgentOnly)[done'] = Shown
<1>1. PICK K \in SUBSET Kinds : Commits(Loads(K))
  BY DEF Rendered
<1>2. Loads(K) \in Seq(Updates)
  BY LoadsAre
<1>3. /\ page' = Shown
      /\ Seen' = Then(Seen, Loads(K), Everything) /\ Shown' = Then(Shown, Loads(K), UrgentOnly)
      /\ Evaluation(base', updates', UrgentOnly)[done'] = Shown
  BY <1>1, <1>2, CommitsSees
<1>4. Seen \in Pages /\ Shown \in Pages
  BY SeenIs
<1> QED BY <1>3, <1>4, ThenLoads, Renderings

\* A page that leaves a session is going to be empty.
LEMMA LeavesSees ==
  ASSUME PageOK, Leaves
  PROVE  page' = Shown /\ Seen'.scene = EmptyPage.scene /\ Seen'.tasks = EmptyPage.tasks
         /\ Shown'.scene = EmptyPage.scene /\ Shown'.tasks = EmptyPage.tasks
         /\ Evaluation(base', updates', UrgentOnly)[done'] = Shown
<1>1. PICK K \in SUBSET Kinds : Commits(<<Reset>> \o Loads(K))
  BY DEF Leaves
<1> DEFINE s == <<Reset>> \o Loads(K)
<1>2. s \in Seq(Updates)
  BY LeavesTyped
<1>3. Seen \in Pages /\ Shown \in Pages
  BY SeenIs
<1>4. /\ Then(Seen, s, Everything).scene = EmptyPage.scene
      /\ Then(Seen, s, Everything).tasks = EmptyPage.tasks
      /\ Then(Shown, s, UrgentOnly).scene = EmptyPage.scene
      /\ Then(Shown, s, UrgentOnly).tasks = EmptyPage.tasks
  BY <1>3, ThenLeaves, Renderings
<1>5. Commits(s)
  BY <1>1
<1> HIDE DEF s
<1>6. /\ page' = Shown
      /\ Seen' = Then(Seen, s, Everything) /\ Shown' = Then(Shown, s, UrgentOnly)
      /\ Evaluation(base', updates', UrgentOnly)[done'] = Shown
  BY <1>2, <1>5, CommitsSees
<1> QED BY <1>4, <1>6

\* The initial page is of its session.
LEMMA InitSession == Init => SessionInv
<1> SUFFICES ASSUME Init PROVE SessionInv
  OBVIOUS
<1>1. Seen = EmptyPage /\ Shown = EmptyPage
  <2>1. base = EmptyPage /\ updates = <<>> /\ Len(<<>>) = 0
    BY DEF Init
  <2>2. Seen = Then(EmptyPage, <<>>, Everything) /\ Shown = Then(EmptyPage, <<>>, UrgentOnly)
    BY <2>1 DEF Seen, Shown, Then, Everything, UrgentOnly
  <2> QED BY <2>2, ThenNone
<1>2. SessionOnly
  BY DEF Init, SessionOnly, EmptyPage, EmptyCatalog
<1> QED BY <1>1, <1>2, EmptyOfKey DEF SessionInv

\* Each step keeps the page to the session.
LEMMA SessionStep == TypeOK /\ SessionInv /\ [Next]_vars => SessionInv'
<1> SUFFICES ASSUME TypeOK, SessionInv, [Next]_vars PROVE SessionInv'
  OBVIOUS
<1>1. PageOK /\ PageStep
  BY StepCases, TypedParts
<1>2. Seen \in Pages /\ Shown \in Pages
  BY <1>1, SeenIs
<1>3. OfKey(Shown, life.key) /\ OfKey(Seen, life.key)
  BY DEF SessionInv
<1>4. ASSUME Dispatches PROVE SessionInv'
  <2>1. PICK sent : Fit(sent) /\ updates' = updates \o sent /\ UNCHANGED <<page, base, done, life>>
    BY <1>4 DEF Dispatches
  <2>2. Seen' = Then(Seen, sent, Everything) /\ Shown' = Then(Shown, sent, UrgentOnly)
    BY <1>1, <2>1, DispatchSees DEF Fit
  <2>3. OfKey(Then(Seen, sent, Everything), life.key) /\ OfKey(Then(Shown, sent, UrgentOnly), life.key)
    BY <1>2, <1>3, <2>1, FitOfKey, Renderings
  <2>4. SessionOnly'
    <3>1. Resetting => Resetting'
      BY <1>1, <2>1, ResettingStays DEF Fit
    <3> QED BY <2>1, <3>1 DEF SessionInv, SessionOnly
  <2> QED BY <2>1, <2>2, <2>3, <2>4 DEF SessionInv
<1>5. ASSUME Rendered PROVE SessionInv'
  <2>1. page' = Shown /\ Seen'.scene = Seen.scene /\ Seen'.tasks = Seen.tasks
        /\ Shown'.scene = Shown.scene /\ Shown'.tasks = Shown.tasks /\ life'.key = life.key
    BY <1>1, <1>5, RenderedSees DEF Rendered
  <2>2. OfKey(Shown', life.key) /\ OfKey(Seen', life.key) /\ OfKey(page', life.key)
    BY <1>3, <2>1 DEF OfKey
  <2> QED BY <2>1, <2>2 DEF SessionInv, SessionOnly, OfKey
<1>6. ASSUME RenderedAll PROVE SessionInv'
  <2>1. page' = Seen /\ Seen' = Seen /\ Shown' = Seen /\ life' = life
    BY <1>1, <1>6, FinishesSees DEF RenderedAll, Finishes
  <2> QED BY <1>3, <2>1 DEF SessionInv, SessionOnly, OfKey
<1>7. ASSUME Leaves PROVE SessionInv'
  <2>1. Resetting'
    BY <1>1, <1>7, LeavesResetting
  <2>2. OfKey(Shown', life'.key) /\ OfKey(Seen', life'.key)
    BY <1>1, <1>7, LeavesSees, EmptyOfKey
  <2> QED BY <2>1, <2>2 DEF SessionInv, SessionOnly
<1> QED BY <1>1, <1>4, <1>5, <1>6, <1>7 DEF PageStep

\* The page shows nothing of a session it has left, whatever crosses its reset, and
\* however late React evaluates what was dispatched before.
THEOREM PageOfSession == Spec => []SessionOnly
<1>1. Init => TypeOK /\ SessionInv
  BY InitTyped, InitSession
<1>2. TypeOK /\ SessionInv /\ [Next]_vars => (TypeOK /\ SessionInv)'
  BY TypedStep, SessionStep
<1>3. SessionInv => SessionOnly
  BY DEF SessionInv
<1> QED BY <1>1, <1>2, <1>3, PTL DEF Spec

-----------------------------------------------------------------------------
\* The version of what the page shows.

\* The order of versions.
LEMMA BelowOrder ==
  ASSUME NEW a \in VersionType, NEW b \in VersionType, NEW c \in VersionType
  PROVE  /\ ~Below(a, a) /\ ~Below(a, NoVersion)
         /\ ~Below(a, b) /\ ~Below(b, c) => ~Below(a, c)
         /\ Below(a, b) /\ ~Below(c, b) => Below(a, c)
         /\ Below(a, b) /\ Below(b, c) => Below(a, c)
         /\ Below(a, b) => ~Below(b, a) /\ a # b
BY DEF Below, VersionType, NoVersion

\* The page as rendered is where the evaluation was, the version ref is not behind it,
\* and neither is what the page is going to show; unless a reset waits.
VersionInv ==
  /\ page.scene = Evaluation(base, updates, UrgentOnly)[done].scene
  /\ Resetting \/ ~Below(version, VersionOf(page.scene))
  /\ Resetting \/ ~Below(VersionOf(Seen.scene), VersionOf(page.scene))

\* An emptied page has no version.
LEMMA EmptyVersion == VersionOf(EmptyPage.scene) = NoVersion
BY DEF EmptyPage, EmptyCatalog, VersionOf, NoVersion

\* An evaluation keeps its version or loses it to a reset, unless an update writes one.
LEMMA NoneWrites ==
  ASSUME PageOK, NEW m \in 0..Len(updates),
         \A i \in (m + 1)..Len(updates) : updates[i].to \notin Writers
  PROVE  VersionOf(Shown.scene)
           \in {VersionOf(Evaluation(base, updates, UrgentOnly)[m].scene), NoVersion}
<1> DEFINE q0 == Evaluation(base, updates, UrgentOnly)[m]
           C == {q \in Pages : VersionOf(q.scene) \in {VersionOf(q0.scene), NoVersion}}
<1>1. updates \in Seq(Updates) /\ Len(updates) \in Nat /\ m \in Nat /\ m <= Len(updates)
  BY DEF PageOK
<1>2. q0 \in C
  BY SeenIs
<1>3. \A i \in (m + 1)..Len(updates) : \A q \in C : Step(q, updates[i], UrgentOnly) \in C
  <2> SUFFICES ASSUME NEW i \in (m + 1)..Len(updates), NEW q \in C
               PROVE  Step(q, updates[i], UrgentOnly) \in C
    OBVIOUS
  <2> DEFINE u == updates[i]
             v == VersionOf(q0.scene)
             r == Step(q, u, UrgentOnly)
  <2>1. u \in Updates /\ u.to \notin {"scene", "refreshing", "error"}
    BY <1>1 DEF Writers
  <2>2. q \in Pages /\ VersionOf(q.scene) \in {v, NoVersion}
    OBVIOUS
  <2> HIDE DEF u, v, q0
  <2>3. r \in Pages /\ (u.to = "reset" => r = EmptyPage) /\ (u.to # "reset" => r.scene = q.scene)
    BY <2>1, <2>2, StepIs, Renderings
  <2>4. VersionOf(r.scene) \in {v, NoVersion}
    BY <2>2, <2>3, EmptyVersion
  <2> QED BY <2>3, <2>4 DEF u, v
<1>4. Evaluation(base, updates, UrgentOnly)[m] \in C
  BY <1>2
<1> HIDE DEF C
<1>5. Evaluation(base, updates, UrgentOnly)[Len(updates)] \in C
  BY <1>1, <1>3, <1>4, EvaluationStays
<1>6. Shown \in C
  BY <1>5 DEF Shown, UrgentOnly
<1> QED BY <1>6 DEF C

\* A render leaves a version that is not behind what it shows.
LEMMA WrittenAhead ==
  ASSUME PageOK, RefsOK, VersionInv
  PROVE  ~Below(Written, VersionOf(Shown.scene))
<1> DEFINE f == Evaluation(base, updates, UrgentOnly)
<1>1. /\ Written \in VersionType /\ version \in VersionType
      /\ VersionOf(Shown.scene) \in VersionType /\ VersionOf(page.scene) \in VersionType
      /\ NoVersion \in VersionType
  BY WrittenTyped, VersionTyped, SeenIs DEF RefsOK, PageOK, Pages, NoVersion, VersionType
<1>2. done \in 0..Len(updates) /\ Len(updates) \in Nat /\ updates \in Seq(Updates)
  BY DEF PageOK
<1>3. ASSUME NEW m \in 1..Len(updates), Written = VersionOf(f[m].scene),
             \A i \in (m + 1)..Len(updates) : updates[i].to \notin Writers
      PROVE  ~Below(Written, VersionOf(Shown.scene))
  <2>1. m \in 0..Len(updates)
    BY <1>2
  <2>2. VersionOf(Shown.scene) \in {Written, NoVersion}
    BY <1>3, <2>1, NoneWrites
  <2> QED BY <1>1, <2>2, BelowOrder
<1>4. ASSUME Written = version, \A i \in 1..Len(updates) : updates[i].to \notin Writers
      PROVE  ~Below(Written, VersionOf(Shown.scene))
  <2>1. CASE Resetting
    <3>1. PICK i \in (done + 1)..Len(updates) : updates[i] = Reset
      BY <2>1 DEF Resetting
    <3>2. i \in 1..Len(updates) /\ i \in 0..Len(updates) /\ i - 1 \in 0..Len(updates)
          /\ \A j \in (i + 1)..Len(updates) : j \in 1..Len(updates)
      BY <1>2
    <3>3. f[i] = Step(f[i - 1], updates[i], UrgentOnly)
      BY <1>2, <3>2, EvaluationIs
    <3>4. f[i - 1] \in Pages /\ updates[i] \in Updates /\ updates[i].to = "reset"
      BY <1>2, <3>1, <3>2, SeenIs DEF Reset
    <3>5. f[i] = EmptyPage
      BY <3>3, <3>4, StepIs, Renderings
    <3>6. VersionOf(Shown.scene) \in {VersionOf(f[i].scene), NoVersion}
      BY <1>4, <3>2, NoneWrites
    <3> QED BY <1>1, <3>5, <3>6, EmptyVersion, BelowOrder
  <2>2. CASE ~Resetting
    <3>1. \A j \in (done + 1)..Len(updates) : j \in 1..Len(updates)
      BY <1>2
    <3>2. VersionOf(Shown.scene) \in {VersionOf(f[done].scene), NoVersion}
      BY <1>2, <1>4, <3>1, NoneWrites
    <3>3. f[done].scene = page.scene /\ ~Below(version, VersionOf(page.scene))
      BY <2>2 DEF VersionInv
    <3> QED BY <1>1, <1>4, <3>2, <3>3, BelowOrder
  <2> QED BY <2>1, <2>2
<1> QED BY <1>3, <1>4, WrittenIs

\* What is accepted is not behind the page.
LEMMA FitAhead ==
  ASSUME TypeOK, NEW v \in VersionType, ~Below(version, v),
         NEW p \in Pages, ~Below(VersionOf(p.scene), v),
         NEW sent, Fit(sent), NEW all \in BOOLEAN
  PROVE  ~Below(VersionOf(Then(p, sent, all).scene), v)
<1> DEFINE C == {q \in Pages : ~Below(VersionOf(q.scene), v)}
<1>1. sent \in Seq(Updates) /\ Len(sent) \in Nat
      /\ \A i \in 1..Len(sent) : sent[i] \in Updates /\ Fits(sent[i])
  BY DEF Fit
<1>2. version \in VersionType
  BY TypedParts DEF RefsOK
<1>3. ASSUME NEW u \in Updates, Fits(u), NEW q \in Pages, ~Below(VersionOf(q.scene), v)
      PROVE  ~Below(VersionOf(Step(q, u, all).scene), v)
  <2>1. CASE u.to = "scene"
    <3>1. Step(q, u, all).scene = u.state /\ u.state \in Scenes /\ ~Below(VersionOf(u.state), version)
      BY <1>3, <2>1, StepIs DEF Fits, AcceptsScene
    <3> QED BY <1>2, <3>1, VersionTyped, BelowOrder
  <2>2. CASE u.to \in {"refreshing", "error"}
    BY <1>3, <2>2, StepIs
  <2>3. CASE u.to \notin {"scene", "reset", "refreshing", "error"}
    BY <1>3, <2>3, StepIs
  <2> QED BY <1>3, <2>1, <2>2, <2>3 DEF Fits
<1>4. \A i \in 1..Len(sent) : \A q \in C : Step(q, sent[i], all) \in C
  BY <1>1, <1>3, StepIs
<1>5. p \in C
  OBVIOUS
<1> HIDE DEF C
<1>6. Then(p, sent, all) \in C
  BY <1>1, <1>4, <1>5, ThenStays
<1> QED BY <1>6 DEF C

\* The initial page is where the evaluation is.
LEMMA InitVersion == Init => VersionInv
<1> SUFFICES ASSUME Init PROVE VersionInv
  OBVIOUS
<1>1. base = EmptyPage /\ page = EmptyPage /\ updates = <<>> /\ done = 0 /\ version = NoVersion
      /\ Len(<<>>) = 0
  BY DEF Init
<1>2. Seen = Then(EmptyPage, <<>>, Everything)
      /\ Evaluation(base, updates, UrgentOnly)[done] = Then(EmptyPage, <<>>, UrgentOnly)
  BY <1>1 DEF Seen, Then, Everything
<1>3. NoVersion \in VersionType
  BY DEF NoVersion, VersionType
<1> QED BY <1>1, <1>2, <1>3, ThenNone, EmptyVersion, BelowOrder DEF VersionInv

\* Each step keeps the versions in order and does not take the page back.
LEMMA VersionStep ==
  TypeOK /\ VersionInv /\ [Next]_vars
    => VersionInv' /\ (Resetting \/ ~Below(VersionOf(page'.scene), VersionOf(page.scene)))
<1> DEFINE Advances == Resetting \/ ~Below(VersionOf(page'.scene), VersionOf(page.scene))
<1> SUFFICES ASSUME TypeOK, VersionInv, [Next]_vars PROVE VersionInv' /\ Advances
  OBVIOUS
<1>1. PageOK /\ RefsOK /\ PageStep
  BY StepCases, TypedParts
<1>2. Seen \in Pages /\ Shown \in Pages /\ Shown.scene = Seen.scene
  BY <1>1, SeenIs
<1>3. \A q \in Pages : VersionOf(q.scene) \in VersionType
  BY VersionTyped DEF Pages
<1>4. ~Below(Written, VersionOf(Shown.scene))
  BY <1>1, WrittenAhead
<1>5. \A q \in Pages : ~Below(VersionOf(q.scene), VersionOf(q.scene))
  BY <1>3, BelowOrder
<1>6. ASSUME Dispatches PROVE VersionInv' /\ Advances
  <2>1. PICK sent : /\ Fit(sent) /\ updates' = updates \o sent /\ UNCHANGED <<page, base, done, life>>
                    /\ version' \in {version, VersionOf(page.scene)}
    BY <1>6 DEF Dispatches
  <2>2. sent \in Seq(Updates)
    BY <2>1 DEF Fit
  <2>3. /\ Seen' = Then(Seen, sent, Everything)
        /\ \A i \in 0..Len(updates) :
             Evaluation(base', updates', UrgentOnly)[i] = Evaluation(base, updates, UrgentOnly)[i]
    BY <1>1, <2>1, <2>2, DispatchSees
  <2>4. page'.scene = Evaluation(base', updates', UrgentOnly)[done'].scene
    <3>1. done \in 0..Len(updates) /\ done' = done
      BY <1>1, <2>1 DEF PageOK
    <3> QED BY <2>1, <2>3, <3>1 DEF VersionInv
  <2>5. Resetting => Resetting'
    BY <1>1, <2>1, <2>2, ResettingStays
  <2>6. page \in Pages /\ VersionOf(page.scene) \in VersionType
    BY <1>1, <1>3 DEF PageOK
  <2>7. ASSUME ~Resetting
        PROVE  /\ ~Below(version', VersionOf(page.scene))
               /\ ~Below(VersionOf(Seen'.scene), VersionOf(page.scene))
    <3>1. ~Below(version, VersionOf(page.scene)) /\ ~Below(VersionOf(Seen.scene), VersionOf(page.scene))
      BY <2>7 DEF VersionInv
    <3>2. ~Below(VersionOf(Then(Seen, sent, Everything).scene), VersionOf(page.scene))
      BY <1>2, <2>1, <2>6, <3>1, FitAhead, Renderings
    <3> QED BY <1>5, <2>1, <2>3, <2>6, <3>1, <3>2
  <2>8. Advances
    BY <1>5, <2>1, <2>6
  <2> QED BY <2>1, <2>4, <2>5, <2>7, <2>8 DEF VersionInv
<1>7. ASSUME Rendered PROVE VersionInv' /\ Advances
  <2>1. page' = Shown /\ Seen'.scene = Seen.scene
        /\ Evaluation(base', updates', UrgentOnly)[done'] = Shown
        /\ version' \in {Written, VersionOf(Shown.scene)}
    BY <1>1, <1>7, RenderedSees DEF Rendered
  <2> QED BY <1>2, <1>4, <1>5, <2>1 DEF VersionInv
<1>8. ASSUME RenderedAll PROVE VersionInv' /\ Advances
  <2>1. page' = Seen /\ Seen' = Seen /\ version' = Written
        /\ Evaluation(base', updates', UrgentOnly)[done'] = Seen
    BY <1>1, <1>8, FinishesSees DEF RenderedAll, Finishes
  <2> QED BY <1>2, <1>4, <1>5, <2>1 DEF VersionInv
<1>9. ASSUME Leaves PROVE VersionInv' /\ Advances
  <2>1. Resetting' /\ page' = Shown /\ Evaluation(base', updates', UrgentOnly)[done'] = Shown
    BY <1>1, <1>9, LeavesResetting, LeavesSees
  <2> QED BY <1>2, <2>1 DEF VersionInv
<1> QED BY <1>1, <1>6, <1>7, <1>8, <1>9 DEF PageStep

\* Within a session the page never goes back to an older catalog: what it has accepted
\* is not behind what it shows, however often React evaluates it.
THEOREM VersionNeverBack == Spec => VersionAdvances
<1>1. Init => TypeOK /\ VersionInv
  BY InitTyped, InitVersion
<1>2. TypeOK /\ VersionInv /\ [Next]_vars => (TypeOK /\ VersionInv)'
  BY TypedStep, VersionStep
<1>3. TypeOK /\ VersionInv /\ [Next]_vars
        => [life' = life /\ ~Resetting
              => ~Below(VersionOf(page'.scene), VersionOf(page.scene))]_vars
  BY VersionStep
<1> QED BY <1>1, <1>2, <1>3, PTL DEF Spec, VersionAdvances

-----------------------------------------------------------------------------
\* The states of the catalog on their way to the page.

\* Two sequences of events tell what each of them tells ...
LEMMA ToldMore ==
  ASSUME NEW s \in Seq(Events), NEW t \in Seq(Events)
  PROVE  Told(s \o t) = Told(s) \cup Told(t)
<1> DEFINE r == s \o t
<1>1. /\ Len(r) = Len(s) + Len(t) /\ Len(s) \in Nat /\ Len(t) \in Nat
      /\ \A i \in 1..Len(s) : r[i] = s[i]
      /\ \A i \in 1..Len(t) : r[Len(s) + i] = t[i]
  OBVIOUS
<1> HIDE DEF r
<1>2. ASSUME NEW c \in Told(r) PROVE c \in Told(s) \cup Told(t)
  <2>1. PICK i \in 1..Len(r) : r[i].about = "catalog" /\ c = r[i].state
    BY DEF Told
  <2>2. CASE i <= Len(s)
    <3>1. i \in 1..Len(s) /\ r[i] = s[i]
      BY <1>1, <2>2
    <3> QED BY <2>1, <3>1 DEF Told
  <2>3. CASE ~(i <= Len(s))
    <3> DEFINE j == i - Len(s)
    <3>1. j \in 1..Len(t) /\ Len(s) + j = i
      BY <1>1, <2>3
    <3> HIDE DEF j
    <3>2. r[i] = t[j]
      BY <1>1, <3>1
    <3> QED BY <2>1, <3>1, <3>2 DEF Told
  <2> QED BY <2>2, <2>3
<1>3. ASSUME NEW c \in Told(s) PROVE c \in Told(r)
  <2>1. PICK i \in 1..Len(s) : s[i].about = "catalog" /\ c = s[i].state
    BY DEF Told
  <2>2. i \in 1..Len(r) /\ r[i] = s[i]
    BY <1>1
  <2> QED BY <2>1, <2>2 DEF Told
<1>4. ASSUME NEW c \in Told(t) PROVE c \in Told(r)
  <2>1. PICK i \in 1..Len(t) : t[i].about = "catalog" /\ c = t[i].state
    BY DEF Told
  <2>2. Len(s) + i \in 1..Len(r) /\ r[Len(s) + i] = t[i]
    BY <1>1
  <2> QED BY <2>1, <2>2 DEF Told
<1>5. Told(r) = Told(s) \cup Told(t)
  BY <1>2, <1>3, <1>4
<1> QED BY <1>5 DEF r

\* ... one event tells of its state, if it is about the catalog ...
LEMMA ToldOne ==
  ASSUME NEW e
  PROVE  Told(<<e>>) = IF e.about = "catalog" THEN {e.state} ELSE {}
<1> DEFINE s == <<e>>
<1>1. Len(s) = 1 /\ s[1] = e /\ 1..1 = {1}
  OBVIOUS
<1> HIDE DEF s
<1>2. Told(s) = IF e.about = "catalog" THEN {e.state} ELSE {}
  <2>1. CASE e.about = "catalog"
    <3>1. \A i : i \in {j \in 1..Len(s) : s[j].about = "catalog"} <=> i = 1
      BY <1>1, <2>1
    <3> QED BY <1>1, <2>1, <3>1 DEF Told
  <2>2. CASE e.about # "catalog"
    <3>1. {j \in 1..Len(s) : s[j].about = "catalog"} = {}
      BY <1>1, <2>2
    <3> QED BY <2>2, <3>1 DEF Told
  <2> QED BY <2>1, <2>2
<1> QED BY <1>2 DEF s

\* ... and adds it at the end ...
LEMMA ToldAppend ==
  ASSUME NEW s \in Seq(Events), NEW e \in Events
  PROVE  Told(Append(s, e)) = Told(s) \cup (IF e.about = "catalog" THEN {e.state} ELSE {})
<1>1. Append(s, e) = s \o <<e>> /\ <<e>> \in Seq(Events)
  OBVIOUS
<1> QED BY <1>1, ToldMore, ToldOne

\* ... and the events about tasks tell nothing of it.
LEMMA ToldTasks ==
  ASSUME NEW t \in Seq(TaskEvents)
  PROVE  Told(t) = {} /\ t \in Seq(Events)
<1>1. \A i \in 1..Len(t) : t[i] \in TaskEvents
  OBVIOUS
<1>2. \A e \in TaskEvents : e.about # "catalog"
  BY KindsAreNot DEF TaskEvents
<1>3. {i \in 1..Len(t) : t[i].about = "catalog"} = {}
  BY <1>1, <1>2
<1>4. TaskEvents \subseteq Events
  BY DEF Events
<1> QED BY <1>3, <1>4 DEF Told

\* An event that is taken takes what it tells.
LEMMA ToldTail ==
  ASSUME NEW s \in Seq(Events), s # <<>>
  PROVE  Told(s) = Told(Tail(s)) \cup (IF Head(s).about = "catalog" THEN {Head(s).state} ELSE {})
<1> DEFINE h == Head(s)
           t == Tail(s)
<1>1. h \in Events /\ t \in Seq(Events) /\ s = <<h>> \o t
  OBVIOUS
<1> HIDE DEF h, t
<1>2. <<h>> \in Seq(Events)
  BY <1>1
<1>3. Told(s) = Told(<<h>>) \cup Told(t)
  BY <1>1, <1>2, ToldMore
<1> QED BY <1>3, ToldOne DEF h, t

\* The same of the answers ...
LEMMA AnsweredMore ==
  ASSUME NEW A, NEW a
  PROVE  /\ Answered(A \cup {a}) = Answered(A) \cup Answered({a})
         /\ a \in A => Answered(A) = Answered(A \ {a}) \cup Answered({a})
BY DEF Answered

\* ... and of one.
LEMMA AnsweredOne ==
  ASSUME NEW a
  PROVE  Answered({a}) = IF a.about = "catalog" \/ (a.about = "refresh" /\ ~a.failed)
                         THEN {a.state} ELSE {}
BY DEF Answered

\* Each change of the catalog is newer than the catalog before.
LEMMA NewerCatalog ==
  ASSUME catalog \in Scenes, NEW key
  PROVE  /\ Refreshing(key).key = key
         /\ Below(IF catalog.key = key THEN VersionOf(catalog) ELSE NoVersion,
                  VersionOf(Refreshing(key)))
         /\ \A c \in {Loaded(key), FailedRefresh(key), Mutated(key)} :
              IF catalog.key = key THEN c.key = key /\ Below(VersionOf(catalog), VersionOf(c))
              ELSE c = catalog
<1>1. catalog.rev \in Nat /\ catalog.epoch \in Nat
  BY DEF Scenes
<1>2. Refreshing(key).key = key /\ Refreshing(key).rev =
        (IF catalog.key = key THEN catalog.rev ELSE 0) + 1
  BY DEF Refreshing, EmptyCatalog, Scenes
<1>3. Below(IF catalog.key = key THEN VersionOf(catalog) ELSE NoVersion,
            VersionOf(Refreshing(key)))
  BY <1>1, <1>2 DEF Below, VersionOf, NoVersion
<1>4. CASE catalog.key = key
  <2>1. Loaded(key).key = key /\ Loaded(key).rev = catalog.rev + 1
    BY <1>4 DEF Loaded, Scenes
  <2>2. FailedRefresh(key).key = key /\ FailedRefresh(key).rev = catalog.rev + 1
    BY <1>4 DEF FailedRefresh, Scenes
  <2>3. Mutated(key).key = key /\ Mutated(key).rev = catalog.rev + 1
    BY <1>4 DEF Mutated, Scenes
  <2>4. \A c : c.rev = catalog.rev + 1 => Below(VersionOf(catalog), VersionOf(c))
    BY <1>1 DEF Below, VersionOf
  <2> QED BY <1>2, <1>3, <1>4, <2>1, <2>2, <2>3, <2>4
<1>5. CASE catalog.key # key
  BY <1>2, <1>3, <1>5 DEF Loaded, FailedRefresh, Mutated
<1> QED BY <1>4, <1>5

\* What is on its way is a scene.
LEMMA FlightScenes ==
  ASSUME BackendOK
  PROVE  InFlight \subseteq Scenes
<1>1. Told(events) \subseteq Scenes
  <2>1. \A i \in 1..Len(events) : events[i] \in Events
    BY DEF BackendOK
  <2>2. \A e \in Events : e.about = "catalog" => e.state \in Scenes
    BY KindsAreNot DEF Events, TaskEvents
  <2> QED BY <2>1, <2>2 DEF Told
<1>2. Answered(answers) \subseteq Scenes
  BY BroughtTyped DEF Answered
<1> QED BY <1>1, <1>2 DEF InFlight

\* What a step of the backend does to the catalog is on its way to the page.
Tells ==
  /\ attached' = attached /\ catalog'.key \in {NoSession, attached}
  /\ \/ catalog' = catalog
     \/ /\ catalog'.key = attached /\ catalog' \in InFlight'
        /\ Below(IF catalog.key = attached THEN VersionOf(catalog) ELSE NoVersion, VersionOf(catalog'))
  /\ InFlight \subseteq InFlight'
  /\ \A c \in InFlight' :
       \/ c \in InFlight \/ c = catalog'
       \/ catalog' = catalog /\ catalog.key # attached /\ c = EmptyCatalog(attached)
  /\ "catalog" \in asked =>
       \/ "catalog" \in asked'
       \/ catalog' = catalog /\ (catalog.key = attached => catalog \in InFlight')
  /\ \A r \in refreshes : r.stage = "asked" => r \in refreshes' \/ catalog' \in InFlight'

\* A change of the catalog that is told by an event.
LEMMA ToldTells ==
  ASSUME catalog \in Scenes, catalog.key \in {NoSession, attached}, attached # NoSession,
         NEW c, c = catalog \/ (c.key = attached /\ Below(IF catalog.key = attached THEN VersionOf(catalog)
                                                        ELSE NoVersion, VersionOf(c))),
         catalog' = c, attached' = attached, asked' = asked,
         Told(events') = Told(events) \cup {c},
         \/ Answered(answers') = Answered(answers)
         \/ Answered(answers') = Answered(answers) \cup {c}
  PROVE  Tells
<1>1. InFlight' = InFlight \cup {c}
  BY DEF InFlight
<1>2. c.key \in {NoSession, attached}
  OBVIOUS
<1> QED BY <1>1, <1>2 DEF Tells

\* One that changes nothing of it, and tells of nothing.
LEMMA SameTells ==
  ASSUME catalog.key \in {NoSession, attached},
         UNCHANGED <<attached, catalog, refreshes>>, Told(events') = Told(events),
         \/ Answered(answers') = Answered(answers) /\ ("catalog" \in asked => "catalog" \in asked')
         \/ Answered(answers') = Answered(answers)
              \cup {IF catalog.key = attached THEN catalog ELSE EmptyCatalog(attached)}
  PROVE  Tells
<1>1. CASE Answered(answers') = Answered(answers) /\ ("catalog" \in asked => "catalog" \in asked')
  <2>1. InFlight' = InFlight
    BY <1>1 DEF InFlight
  <2> QED BY <1>1, <2>1 DEF Tells
<1>2. CASE Answered(answers') = Answered(answers)
              \cup {IF catalog.key = attached THEN catalog ELSE EmptyCatalog(attached)}
  <2>1. InFlight' = InFlight \cup {IF catalog.key = attached THEN catalog ELSE EmptyCatalog(attached)}
    BY <1>2 DEF InFlight
  <2> QED BY <2>1 DEF Tells
<1> QED BY <1>1, <1>2

\* Every step of the backend is one of these.
LEMMA BackendTells ==
  ASSUME BackendOK, BackendOK', attached # NoSession, catalog.key \in {NoSession, attached}, BackendStep
  PROVE  Tells
<1>0. /\ catalog \in Scenes /\ catalog' \in Scenes /\ events \in Seq(Events)
      /\ \A c \in Scenes : CatalogEvent(c) \in Events /\ CatalogEvent(c).about = "catalog"
                           /\ CatalogEvent(c).state = c
  BY DEF BackendOK, CatalogEvent, Events
<1>a. ASSUME events' = Append(events, CatalogEvent(catalog'))
      PROVE  Told(events') = Told(events) \cup {catalog'}
  BY <1>0, <1>a, ToldAppend
<1>b. ASSUME NEW k \in Kinds, NEW t, events' = Append(events, TaskEvent(k, t)), t \in Tasks
      PROVE  Told(events') = Told(events)
  <2>1. TaskEvent(k, t) \in Events /\ TaskEvent(k, t).about # "catalog"
    BY <1>b, KindsAreNot DEF TaskEvent, TaskEvents, Events
  <2> DEFINE e == TaskEvent(k, t)
  <2>2. e \in Events /\ e.about # "catalog" /\ events' = Append(events, e)
    BY <1>b, <2>1
  <2> HIDE DEF e
  <2>3. Told(Append(events, e)) = Told(events) \cup {}
    BY <1>0, <2>2, ToldAppend
  <2> QED BY <2>2, <2>3
<1>1. ASSUME NEW r \in refreshes, RefreshBegins(r) PROVE Tells
  <2>1. /\ catalog' = Refreshing(attached) /\ events' = Append(events, CatalogEvent(catalog'))
        /\ refreshes' = (refreshes \ {r}) \cup {[n |-> r.n, stage |-> "loading", key |-> attached]}
        /\ UNCHANGED <<attached, asked, answers>>
    BY <1>1 DEF RefreshBegins
  <2>2. Told(events') = Told(events) \cup {catalog'}
    BY <1>a, <2>1
  <2> QED BY <1>0, <2>1, <2>2, NewerCatalog, ToldTells
<1>2. ASSUME NEW r \in refreshes, RefreshLoads(r) PROVE Tells
  <2> DEFINE a == [about |-> "refresh", n |-> r.n, failed |-> FALSE, state |-> catalog']
  <2>1. /\ catalog' = Loaded(r.key) /\ events' = Append(events, CatalogEvent(catalog'))
        /\ answers' = answers \cup {a}
        /\ UNCHANGED <<attached, asked>>
    BY <1>2 DEF RefreshLoads
  <2>2. Told(events') = Told(events) \cup {catalog'}
    BY <1>a, <2>1
  <2>3. Answered(answers') = Answered(answers) \cup {catalog'}
    <3>1. a.about = "refresh" /\ ~a.failed /\ a.state = catalog'
      OBVIOUS
    <3>2. Answered({a}) = {catalog'}
      <4> HIDE DEF a
      <4> QED BY <3>1, AnsweredOne
    <3> HIDE DEF a
    <3>3. Answered(answers \cup {a}) = Answered(answers) \cup Answered({a})
      BY AnsweredMore
    <3> QED BY <2>1, <3>2, <3>3
  <2>4. r.key \in Sessions
    BY <1>2 DEF RefreshLoads, BackendOK
  <2>5. r.key # NoSession
    BY <2>4, ConstantsAssumption
  <2> QED BY <1>0, <2>1, <2>2, <2>3, <2>5, NewerCatalog, ToldTells
<1>3. ASSUME NEW r \in refreshes, RefreshFails(r) PROVE Tells
  <2> DEFINE a == [about |-> "refresh", n |-> r.n, failed |-> TRUE]
  <2>1. /\ catalog' = FailedRefresh(r.key) /\ events' = Append(events, CatalogEvent(catalog'))
        /\ answers' = answers \cup {a}
        /\ UNCHANGED <<attached, asked>>
    BY <1>3 DEF RefreshFails
  <2>2. Told(events') = Told(events) \cup {catalog'}
    BY <1>a, <2>1
  <2>3. Answered(answers') = Answered(answers)
    <3>1. a.about = "refresh" /\ a.failed
      OBVIOUS
    <3> HIDE DEF a
    <3>2. Answered({a}) = {}
      BY <3>1, AnsweredOne
    <3>3. Answered(answers \cup {a}) = Answered(answers) \cup Answered({a})
      BY AnsweredMore
    <3> QED BY <2>1, <3>2, <3>3
  <2>4. r.key \in Sessions
    BY <1>3 DEF RefreshFails, BackendOK
  <2>5. r.key # NoSession
    BY <2>4, ConstantsAssumption
  <2> QED BY <1>0, <2>1, <2>2, <2>3, <2>5, NewerCatalog, ToldTells
<1>4. ASSUME MutationMarks PROVE Tells
  <2>1. /\ catalog' = Mutated(attached)
        /\ events' = (events \o <<CatalogEvent(catalog')>>) \o mutation.told
        /\ UNCHANGED <<attached, asked, answers>>
    BY <1>4 DEF MutationMarks
  <2> DEFINE e == CatalogEvent(catalog')
  <2>2. mutation.told \in Seq(TaskEvents) /\ e \in Events /\ e.about = "catalog" /\ e.state = catalog'
    BY <1>0 DEF BackendOK
  <2>3. Told(events') = Told(events) \cup {catalog'}
    <3> HIDE DEF e
    <3>1. events \o <<e>> \in Seq(Events) /\ <<e>> \in Seq(Events)
      BY <1>0, <2>2
    <3>2. Told((events \o <<e>>) \o mutation.told) = Told(events \o <<e>>) \cup Told(mutation.told)
      BY <2>2, <3>1, ToldMore, ToldTasks
    <3>3. Told(events \o <<e>>) = Told(events) \cup {catalog'}
      <4>1. Told(events \o <<e>>) = Told(events) \cup Told(<<e>>)
        BY <1>0, <3>1, ToldMore
      <4>2. Told(<<e>>) = {e.state}
        BY <2>2, ToldOne
      <4> QED BY <2>2, <4>1, <4>2
    <3>4. Told(mutation.told) = {}
      BY <2>2, ToldTasks
    <3> QED BY <2>1, <3>2, <3>3, <3>4 DEF e
  <2> QED BY <1>0, <2>1, <2>3, NewerCatalog, ToldTells
<1>5. ASSUME NEW k \in Kinds \cup {"catalog"}, Handles(k) PROVE Tells
  <2>1. CASE k = "catalog"
    <3> DEFINE c == IF catalog.key = attached THEN catalog ELSE EmptyCatalog(attached)
               a == [about |-> "catalog", state |-> c]
    <3>1. answers' = answers \cup {a} /\ UNCHANGED <<attached, catalog, refreshes, events>>
      BY <1>5, <2>1 DEF Handles
    <3>2. a.about = "catalog" /\ a.state = c
      OBVIOUS
    <3> HIDE DEF a, c
    <3>3. Answered({a}) = {c}
      BY <3>2, AnsweredOne
    <3>4. Answered(answers \cup {a}) = Answered(answers) \cup Answered({a})
      BY AnsweredMore
    <3>5. Answered(answers') = Answered(answers) \cup {c}
      BY <3>1, <3>3, <3>4
    <3> QED BY <3>1, <3>5, SameTells DEF c
  <2>2. CASE k # "catalog"
    <3> DEFINE a == [about |-> k, state |-> store'[k].task]
    <3>1. k \in Kinds /\ UNCHANGED <<attached, catalog, refreshes>> /\ asked' = asked \ {k}
          /\ answers' = answers \cup {a} /\ events' = Append(events, TaskEvent(k, store'[k].task))
      BY <1>5, <2>2 DEF Handles
    <3>2. store'[k].task \in Tasks
      <4>1. attached \in Sessions /\ store[k] \in Stores
        BY <3>1 DEF BackendOK, Keys
      <4>2. store' = [store EXCEPT ![k] = Started(store[k], attached)]
        BY <1>5, <2>2 DEF Handles
      <4> QED BY <3>1, <4>1, <4>2, StartedType DEF BackendOK
    <3>3. Told(events') = Told(events)
      BY <1>b, <3>1, <3>2
    <3>4. a.about = k /\ k \notin {"catalog", "refresh"}
      BY <3>1, KindsAreNot
    <3> HIDE DEF a
    <3>5. Answered({a}) = {}
      BY <3>4, AnsweredOne
    <3>6. Answered(answers \cup {a}) = Answered(answers) \cup Answered({a})
      BY AnsweredMore
    <3>7. Answered(answers') = Answered(answers)
      BY <3>1, <3>5, <3>6
    <3> QED BY <2>2, <3>1, <3>3, <3>7, SameTells
  <2> QED BY <2>1, <2>2
<1>6. ASSUME NEW k \in Kinds, WorkerFinishes(k) PROVE Tells
  <2>1. /\ UNCHANGED <<attached, catalog, refreshes, asked, answers>>
        /\ events' = Append(events, TaskEvent(k, store'[k].task))
        /\ store' = [store EXCEPT ![k] = Finished(store[k])]
    BY <1>6 DEF WorkerFinishes
  <2>2. store'[k].task \in Tasks
    BY <1>6, <2>1, FinishedType DEF WorkerFinishes, BackendOK
  <2>3. Told(events') = Told(events)
    BY <1>b, <2>1, <2>2
  <2> QED BY <2>1, <2>3, SameTells
<1>7. ASSUME NEW kinds \in SUBSET Kinds, MutationInvalidates(kinds) PROVE Tells
  <2>1. UNCHANGED <<attached, catalog, refreshes, events, asked, answers>>
    BY <1>7 DEF MutationInvalidates
  <2> QED BY <2>1, SameTells
<1>8. ASSUME NEW key \in Sessions, AttachCompletes(key) PROVE Tells
  BY <1>8 DEF AttachCompletes
<1> QED BY <1>1, <1>2, <1>3, <1>4, <1>5, <1>6, <1>7, <1>8 DEF BackendStep

-----------------------------------------------------------------------------
\* The catalog the page is going to show.

Asked == \E r \in refreshes : r.stage = "asked"

\* No state of the catalog on its way is newer than the catalog ...
FlightInv ==
  \A c \in InFlight : c.key = life.key =>
    IF catalog.key = life.key THEN c = catalog \/ Below(VersionOf(c), VersionOf(catalog))
    ELSE c = EmptyCatalog(life.key)

\* ... nor is the scene to come ...
SeenInv ==
  IF catalog.key = life.key THEN ~Below(VersionOf(catalog), VersionOf(Seen.scene))
  ELSE VersionOf(Seen.scene) = NoVersion

\* ... and the page knows the catalog, or is going to be told of it, unless the version
\* ref has judged a state otherwise than the scene to come would have.
KnownInv ==
  life.snap /\ catalog.key = life.key =>
    \/ count.misjudged
    \/ "catalog" \in asked \/ catalog \in InFlight \/ Asked
    \/ Seen.scene \in {catalog, [catalog EXCEPT !.status = "error"]}

CatalogInv ==
  /\ life.able \/ life.snap => life.key # NoSession
  /\ life.key # NoSession => attached = life.key
  /\ attached # NoSession => catalog.key \in {NoSession, attached}
  /\ life.key # NoSession /\ ~count.mixed => FlightInv /\ SeenInv /\ KnownInv

\* Nothing is attached at first.
LEMMA InitCatalog == Init => CatalogInv
BY DEF Init, NoLife, CatalogInv

\* The backend keeps what is known of the catalog: it tells of every change.
LEMMA BackendCatalog ==
  ASSUME TypeOK, TypeOK', CatalogInv, BackendStep
  PROVE  CatalogInv'
<1>1. /\ BackendOK /\ BackendOK' /\ UNCHANGED <<life, react>>
      /\ count'.misjudged = count.misjudged /\ count'.mixed = count.mixed
  <2>1. BackendOK /\ BackendOK' /\ CountOK
    BY TypedParts, TypedPartsNext
  <2>2. Kept /\ (Acts \/ count' = count)
    BY BackendStepKeeps
  <2>3. count'.misjudged = count.misjudged /\ count'.mixed = count.mixed
    BY <2>1, <2>2 DEF Acts, CountOK, CountType
  <2> QED BY <2>1, <2>2, <2>3 DEF Kept
<1>2. Seen' = Seen
  BY <1>1 DEF react, Seen
<1>3. CASE attached = NoSession
  <2>1. attached' = NoSession \/ catalog'.key = NoSession
    <3>1. ASSUME NEW r \in refreshes, RefreshBegins(r) \/ RefreshLoads(r) \/ RefreshFails(r)
          PROVE  attached' = NoSession
      BY <1>3, <3>1 DEF RefreshBegins, RefreshLoads, RefreshFails
    <3>2. ASSUME MutationMarks PROVE attached' = NoSession
      BY <1>3, <3>2 DEF MutationMarks
    <3>3. ASSUME NEW k, Handles(k) \/ WorkerFinishes(k) PROVE attached' = NoSession
      BY <1>3, <3>3 DEF Handles, WorkerFinishes
    <3>4. ASSUME NEW kinds, MutationInvalidates(kinds) PROVE attached' = NoSession
      BY <1>3, <3>4 DEF MutationInvalidates
    <3>5. ASSUME NEW key, AttachCompletes(key) PROVE catalog'.key = NoSession
      BY <3>5 DEF AttachCompletes, EmptyCatalog
    <3> QED BY <3>1, <3>2, <3>3, <3>4, <3>5 DEF BackendStep
  <2>2. life.key = NoSession
    BY <1>3 DEF CatalogInv
  <2> QED BY <1>1, <2>1, <2>2 DEF CatalogInv
<1>4. CASE attached # NoSession
  <2>1. Tells
    BY <1>1, <1>4, BackendTells DEF CatalogInv
  <2>2. attached' = attached /\ catalog'.key \in {NoSession, attached}
    BY <2>1 DEF Tells
  <2>3. ASSUME life.key # NoSession, ~count.mixed
        PROVE  FlightInv' /\ SeenInv' /\ KnownInv'
    <3>1. attached = life.key /\ FlightInv /\ SeenInv /\ KnownInv
      BY <2>3 DEF CatalogInv
    <3>2. catalog \in Scenes /\ catalog' \in Scenes /\ Seen \in Pages
      BY <1>1, SeenIs, TypedParts DEF BackendOK
    <3>3. /\ VersionOf(catalog) \in VersionType /\ VersionOf(catalog') \in VersionType
          /\ VersionOf(Seen.scene) \in VersionType /\ NoVersion \in VersionType
      BY <3>2, VersionTyped DEF Pages, NoVersion, VersionType
    <3>4. VersionOf(EmptyCatalog(life.key)) = NoVersion
      BY DEF VersionOf, EmptyCatalog, NoVersion
    <3>5. ASSUME catalog' = catalog PROVE FlightInv' /\ SeenInv' /\ KnownInv'
      <4>1. FlightInv'
        BY <1>1, <2>1, <3>1, <3>5 DEF Tells, FlightInv
      <4>2. SeenInv'
        BY <1>1, <1>2, <3>1, <3>5 DEF SeenInv
      <4>3. KnownInv'
        BY <1>1, <1>2, <2>1, <3>1, <3>5 DEF Tells, KnownInv, Asked
      <4> QED BY <4>1, <4>2, <4>3
    <3>6. ASSUME catalog' # catalog PROVE FlightInv' /\ SeenInv' /\ KnownInv'
      <4> DEFINE v == IF catalog.key = attached THEN VersionOf(catalog) ELSE NoVersion
      <4>1. catalog'.key = life.key /\ catalog' \in InFlight' /\ Below(v, VersionOf(catalog'))
        BY <2>1, <3>1, <3>6 DEF Tells
      <4>2. ASSUME NEW c \in InFlight', c.key = life.key
            PROVE  c = catalog' \/ Below(VersionOf(c), VersionOf(catalog'))
        <5>1. c = catalog' \/ c \in InFlight
          BY <2>1, <3>6 DEF Tells
        <5>2. CASE c \in InFlight
          <6>1. VersionOf(c) = v \/ (catalog.key = life.key /\ Below(VersionOf(c), VersionOf(catalog)))
            BY <3>1, <3>4, <4>2, <5>2 DEF FlightInv
          <6>2. VersionOf(c) = v => Below(VersionOf(c), VersionOf(catalog'))
            BY <4>1
          <6>3. Below(VersionOf(c), VersionOf(catalog)) /\ Below(VersionOf(catalog), VersionOf(catalog'))
                  => Below(VersionOf(c), VersionOf(catalog'))
            <7>1. c \in Scenes
              BY <1>1, <5>2, FlightScenes
            <7> QED BY <3>3, <7>1, VersionTyped, BelowOrder
          <6> QED BY <3>1, <4>1, <6>1, <6>2, <6>3
        <5> QED BY <5>1, <5>2
      <4>3. FlightInv'
        BY <1>1, <4>1, <4>2 DEF FlightInv
      <4>4. SeenInv'
        <5>1. ~Below(v, VersionOf(Seen.scene))
          BY <3>1, <3>3, BelowOrder DEF SeenInv
        <5>2. v \in VersionType
          BY <3>3
        <5> HIDE DEF v
        <5>3. ~Below(VersionOf(catalog'), VersionOf(Seen.scene))
          BY <3>3, <4>1, <5>1, <5>2 DEF Below, VersionType
        <5> QED BY <1>1, <1>2, <4>1, <5>3 DEF SeenInv
      <4>5. KnownInv'
        BY <4>1 DEF KnownInv
      <4> QED BY <4>3, <4>4, <4>5
    <3> QED BY <3>5, <3>6
  <2> QED BY <1>1, <2>2, <2>3 DEF CatalogInv
<1> QED BY <1>3, <1>4

\* A step of the page after which the same is on its way, or less, in the same session.
LEMMA SameCatalog ==
  ASSUME CatalogInv, UNCHANGED <<attached, catalog>>,
         life'.key = life.key, life'.able \/ life'.snap => life'.key # NoSession,
         count'.mixed = count.mixed, InFlight' \subseteq InFlight,
         VersionOf(Seen'.scene) = VersionOf(Seen.scene),
         life.key # NoSession /\ ~count.mixed => KnownInv'
  PROVE  CatalogInv'
BY DEF CatalogInv, FlightInv, SeenInv

\* A step of the page that tells or asks for no catalog.
LEMMA SilentCatalog ==
  ASSUME CatalogInv, UNCHANGED <<attached, catalog, refreshes, life>>,
         count'.misjudged = count.misjudged, count'.mixed = count.mixed,
         InFlight' = InFlight, asked \subseteq asked', Seen'.scene = Seen.scene
  PROVE  CatalogInv'
<1>1. life.key # NoSession /\ ~count.mixed => KnownInv'
  BY DEF CatalogInv, KnownInv, Asked
<1>2. life'.able \/ life'.snap => life'.key # NoSession
  BY DEF CatalogInv
<1> QED BY <1>1, <1>2, SameCatalog

-----------------------------------------------------------------------------
\* What a message does to the catalog the page is going to show.

\* The scene once a state of the catalog is judged.
SceneAfter(c) == IF AcceptsScene(c) THEN c ELSE Seen.scene

\* A state of the catalog is dispatched if it is accepted.
LEMMA DispatchedSees ==
  ASSUME PageOK, NEW c \in Scenes
  PROVE  /\ Then(Seen, Dispatched(c), Everything) \in Pages
         /\ Then(Seen, Dispatched(c), Everything).scene = SceneAfter(c)
<1>1. Seen \in Pages /\ Everything \in BOOLEAN
  BY SeenIs, Renderings
<1>2. CASE AcceptsScene(c)
  <2> DEFINE u == ToScene(c)
  <2>1. u \in Updates /\ u.to = "scene" /\ u.state = c
    BY <1>1, AppliedScene DEF ToScene
  <2>2. Dispatched(c) = <<u>>
    BY <1>2 DEF Dispatched
  <2> HIDE DEF u
  <2>3. Then(Seen, <<u>>, Everything) = Step(Seen, u, Everything)
    BY ThenOne
  <2>4. Step(Seen, u, Everything) \in Pages /\ Step(Seen, u, Everything).scene = c
    BY <1>1, <2>1, StepIs
  <2> QED BY <1>2, <2>2, <2>3, <2>4 DEF SceneAfter
<1>3. CASE ~AcceptsScene(c)
  <2>1. Dispatched(c) = <<>>
    BY <1>3 DEF Dispatched
  <2>2. Then(Seen, <<>>, Everything) = Seen
    BY ThenNone
  <2> QED BY <1>1, <1>3, <2>1, <2>2 DEF SceneAfter
<1> QED BY <1>2, <1>3

\* The update of a refresh keeps the version.
LEMMA OptimisticSees ==
  ASSUME NEW p \in Pages, NEW sent \in Seq(Updates)
  PROVE  VersionOf(Then(p, sent \o <<Optimistic>>, Everything).scene)
           = VersionOf(Then(p, sent, Everything).scene)
<1> DEFINE u == Optimistic
           q == Then(p, sent, Everything)
<1>1. u \in Updates /\ u.to = "refreshing" /\ Everything \in BOOLEAN
  BY Renderings DEF Optimistic, Updates
<1>2. q \in Pages
  BY <1>1, ThenTyped
<1> HIDE DEF u
<1>3. <<u>> \in Seq(Updates)
  BY <1>1
<1>4. Then(p, sent \o <<u>>, Everything) = Then(q, <<u>>, Everything)
  <2> DEFINE r == <<u>>
             all == Everything
  <2>1. r \in Seq(Updates)
    BY <1>3
  <2> HIDE DEF r, all
  <2>2. Then(p, sent \o r, all) = Then(Then(p, sent, all), r, all)
    BY <2>1, ThenMore
  <2> QED BY <2>2 DEF r, all
<1> HIDE DEF q
<1>5. Then(q, <<u>>, Everything) = Step(q, u, Everything)
  BY ThenOne
<1>6. VersionOf(Step(q, u, Everything).scene) = VersionOf(q.scene)
  BY <1>1, <1>2, StepIs
<1> QED BY <1>4, <1>5, <1>6 DEF u, q

\* A state of the catalog is judged, and a refresh may be asked for.
LEMMA MessageCatalog ==
  ASSUME TypeOK, CatalogInv, UNCHANGED <<attached, catalog, life>>, asked' = asked,
         NEW c \in InFlight, count' = Judged(c),
         InFlight' \subseteq InFlight, \A d \in InFlight : d = c \/ d \in InFlight',
         \/ Seen'.scene = SceneAfter(c) /\ (Asked => Asked')
         \/ VersionOf(Seen'.scene) = VersionOf(SceneAfter(c)) /\ Asked'
  PROVE  CatalogInv'
<1> DEFINE late == Below(VersionOf(c), version)
           older == Below(VersionOf(c), VersionOf(Seen.scene))
<1>1. BackendOK /\ PageOK /\ RefsOK /\ CountOK
  BY TypedParts
<1>2. c \in Scenes /\ Seen.scene \in Scenes /\ catalog \in Scenes
  BY <1>1, FlightScenes, SeenIs DEF Pages, BackendOK
<1>3. /\ VersionOf(c) \in VersionType /\ VersionOf(Seen.scene) \in VersionType
      /\ VersionOf(catalog) \in VersionType /\ version \in VersionType
  BY <1>1, <1>2, VersionTyped DEF RefsOK
<1>4. /\ life.able \/ life.snap => life.key # NoSession
      /\ life.key # NoSession => attached = life.key
      /\ attached # NoSession => catalog.key \in {NoSession, attached}
      /\ life.key # NoSession /\ ~count.mixed => FlightInv /\ SeenInv /\ KnownInv
  BY DEF CatalogInv
<1>5. ASSUME c.key # life.key PROVE CatalogInv'
  <2>1. count' = count /\ SceneAfter(c) = Seen.scene
    BY <1>5 DEF Judged, SceneAfter, AcceptsScene
  <2>2. ASSUME life.key # NoSession, ~count.mixed PROVE KnownInv'
    <3>1. KnownInv
      BY <1>4, <2>2
    <3>2. catalog.key = life.key => catalog # c
      BY <1>5
    <3> QED BY <2>1, <3>1, <3>2 DEF KnownInv
  <2>3. VersionOf(Seen'.scene) = VersionOf(Seen.scene)
    BY <2>1
  <2> QED BY <1>4, <2>1, <2>2, <2>3, SameCatalog
<1>6. ASSUME c.key = life.key PROVE CatalogInv'
  <2>1. /\ count'.mixed = count.mixed
        /\ count'.misjudged = (late # older \/ (count.misjudged /\ (late \/ VersionOf(c) # VersionOf(catalog))))
    BY <1>1, <1>6 DEF Judged, CountOK, CountType
  <2>2. SceneAfter(c) = IF late THEN Seen.scene ELSE c
    BY <1>6 DEF SceneAfter, AcceptsScene
  <2>3. ASSUME life.key # NoSession, ~count.mixed
        PROVE  FlightInv' /\ SeenInv' /\ KnownInv'
    <3>1. FlightInv /\ SeenInv /\ KnownInv
      BY <1>4, <2>3
    <3>2. FlightInv'
      BY <3>1 DEF FlightInv
    <3>3. IF catalog.key = life.key THEN c = catalog \/ Below(VersionOf(c), VersionOf(catalog))
          ELSE c = EmptyCatalog(life.key)
      BY <1>6, <3>1 DEF FlightInv
    <3>4. SeenInv'
      <4>1. VersionOf(Seen'.scene) = VersionOf(SceneAfter(c))
        OBVIOUS
      <4>2. VersionOf(EmptyCatalog(life.key)) = NoVersion
        BY DEF VersionOf, EmptyCatalog, NoVersion
      <4>3. catalog.key = life.key => ~Below(VersionOf(catalog), VersionOf(c))
        BY <1>3, <3>3, BelowOrder
      <4> QED BY <2>2, <3>1, <3>3, <4>1, <4>2, <4>3 DEF SeenInv
    <3>5. ASSUME life.snap, catalog.key = life.key, ~Asked'
          PROVE  \/ count'.misjudged
                 \/ "catalog" \in asked \/ catalog \in InFlight'
                 \/ Seen'.scene \in {catalog, [catalog EXCEPT !.status = "error"]}
      <4>1. Seen'.scene = SceneAfter(c) /\ ~Asked
        BY <3>5
      <4>2. \/ count.misjudged \/ "catalog" \in asked \/ catalog \in InFlight
            \/ Seen.scene \in {catalog, [catalog EXCEPT !.status = "error"]}
        BY <3>1, <3>5, <4>1 DEF KnownInv
      <4>3. ~Below(VersionOf(catalog), VersionOf(Seen.scene))
        BY <3>1, <3>5 DEF SeenInv
      <4>4. VersionOf([catalog EXCEPT !.status = "error"]) = VersionOf(catalog)
        BY <1>2 DEF VersionOf, Scenes
      <4>5. CASE c = catalog
        <5>1. CASE late
          <6>1. ~older
            BY <4>3, <4>5
          <6> QED BY <2>1, <5>1, <6>1
        <5>2. CASE ~late
          BY <2>2, <4>1, <4>5, <5>2
        <5> QED BY <5>1, <5>2
      <4>6. CASE c # catalog
        <5>1. Below(VersionOf(c), VersionOf(catalog)) /\ VersionOf(c) # VersionOf(catalog)
          BY <1>3, <3>3, <3>5, <4>6, BelowOrder
        <5>2. catalog \in InFlight => catalog \in InFlight'
          BY <4>6
        <5>3. count.misjudged => count'.misjudged
          BY <2>1, <5>1
        <5>4. CASE Seen.scene \in {catalog, [catalog EXCEPT !.status = "error"]}
          <6>1. older
            BY <4>4, <5>1, <5>4
          <6>2. CASE late
            BY <2>2, <4>1, <5>4, <6>2
          <6>3. CASE ~late
            BY <2>1, <6>1, <6>3
          <6> QED BY <6>2, <6>3
        <5> QED BY <4>2, <5>2, <5>3, <5>4
      <4> QED BY <4>5, <4>6
    <3>6. KnownInv'
      BY <3>5 DEF KnownInv
    <3> QED BY <3>2, <3>4, <3>6
  <2> QED BY <1>4, <2>1, <2>3 DEF CatalogInv
<1> QED BY <1>5, <1>6

-----------------------------------------------------------------------------
\* Each step of the page keeps what is known of the catalog.

\* What a message dispatches is evaluated after all that waits.
LEMMA MessageSees ==
  ASSUME PageOK, NEW sent \in Seq(Updates), updates' = updates \o sent, base' = base
  PROVE  Seen' = Then(Seen, sent, Everything)
BY DispatchSees

\* The state of a task leaves the scene alone.
LEMMA TaskSees ==
  ASSUME PageOK, NEW k \in Kinds, NEW t, t # NoTask => t \in Tasks, base' = base,
         updates' = IF t # NoTask /\ AcceptsTask(k, t) THEN Append(updates, ToTask(k, t)) ELSE updates
  PROVE  Seen'.scene = Seen.scene
<1>1. updates \in Seq(Updates) /\ Seen \in Pages /\ Everything \in BOOLEAN
  BY SeenIs, Renderings DEF PageOK
<1>2. CASE t # NoTask /\ AcceptsTask(k, t)
  <2> DEFINE u == ToTask(k, t)
  <2>1. u \in Updates /\ u.to = k
    BY <1>2, EmptyPageType, AppliedTask DEF ToTask
  <2>2. updates' = Append(updates, u)
    BY <1>2
  <2> HIDE DEF u
  <2>3. updates' = updates \o <<u>> /\ <<u>> \in Seq(Updates)
    BY <1>1, <2>1, <2>2
  <2>4. Seen' = Then(Seen, <<u>>, Everything)
    BY <2>3, MessageSees
  <2>5. Then(Seen, <<u>>, Everything) = Step(Seen, u, Everything)
    BY ThenOne
  <2>6. Step(Seen, u, Everything).scene = Seen.scene
    BY <1>1, <2>1, StepIs, KindsAreNot
  <2> QED BY <2>4, <2>5, <2>6
<1>3. CASE ~(t # NoTask /\ AcceptsTask(k, t))
  <2>1. updates' = updates
    BY <1>3
  <2> QED BY <2>1 DEF Seen
<1> QED BY <1>2, <1>3

\* An event.
LEMMA ArrivalCatalog ==
  ASSUME TypeOK, CatalogInv, EventArrives
  PROVE  CatalogInv'
<1>1. BackendOK /\ PageOK /\ RefsOK /\ CountOK /\ events \in Seq(Events) /\ events # <<>>
  BY TypedParts DEF BackendOK, EventArrives
<1> DEFINE e == Head(events)
<1>2. UNCHANGED <<attached, catalog, refreshes, asked, answers, life, base>> /\ events' = Tail(events)
  BY DEF EventArrives, backend
<1>3. Told(events) = Told(events') \cup (IF e.about = "catalog" THEN {e.state} ELSE {})
  BY <1>1, <1>2, ToldTail
<1>4. InFlight = InFlight' \cup (IF e.about = "catalog" THEN {e.state} ELSE {})
  BY <1>2, <1>3 DEF InFlight
<1>5. Asked => Asked'
  BY <1>2 DEF Asked
<1>6. /\ e.about = "catalog" => e.state \in Scenes
      /\ e.about # "catalog" => e.about \in Kinds /\ e.state \in Tasks
  BY <1>1, BroughtTyped
<1>7. CASE e.about = "catalog"
  <2> DEFINE c == e.state
  <2>1. c \in Scenes /\ c \in InFlight /\ InFlight' \subseteq InFlight /\ \A d \in InFlight : d = c \/ d \in InFlight'
    BY <1>4, <1>6, <1>7
  <2>2. updates' = updates \o Dispatched(c) /\ count' = Judged(c)
    BY <1>7 DEF EventArrives
  <2> HIDE DEF e, c
  <2>3. Dispatched(c) \in Seq(Updates)
    BY <2>1, FitDispatched
  <2>4. Seen' = Then(Seen, Dispatched(c), Everything)
    BY <1>1, <1>2, <2>2, <2>3, MessageSees
  <2>5. Seen'.scene = SceneAfter(c)
    BY <1>1, <2>1, <2>4, DispatchedSees
  <2> QED BY <1>2, <1>5, <2>1, <2>2, <2>5, MessageCatalog
<1>8. CASE e.about # "catalog"
  <2> DEFINE k == e.about
             t == e.state
  <2>1. k \in Kinds /\ t \in Tasks /\ InFlight' = InFlight
    BY <1>4, <1>6, <1>8
  <2>2. updates' = (IF AcceptsTask(k, t) THEN Append(updates, ToTask(k, t)) ELSE updates) /\ UNCHANGED count
    BY <1>8 DEF EventArrives
  <2>3. t # NoTask
    <3>1. NoTask.status \notin {"loading", "ready", "cancelled"}
      BY DEF NoTask
    <3> QED BY <2>1, <3>1 DEF Tasks
  <2> HIDE DEF e, k, t
  <2>4. Seen'.scene = Seen.scene
    BY <1>1, <1>2, <2>1, <2>2, <2>3, TaskSees
  <2> QED BY <1>2, <2>1, <2>2, <2>4, SilentCatalog
<1> QED BY <1>7, <1>8

\* What is left on its way once an answer is taken.
LEMMA AnswerTaken ==
  ASSUME NEW a \in answers, answers' = answers \ {a}, events' = events
  PROVE  InFlight = InFlight' \cup (IF a.about = "catalog" \/ (a.about = "refresh" /\ ~a.failed)
                                   THEN {a.state} ELSE {})
<1>1. Answered(answers) = Answered(answers \ {a}) \cup Answered({a})
  BY AnsweredMore
<1>2. Answered({a}) = IF a.about = "catalog" \/ (a.about = "refresh" /\ ~a.failed)
                      THEN {a.state} ELSE {}
  BY AnsweredOne
<1> QED BY <1>1, <1>2 DEF InFlight

\* An answer with a task.
LEMMA TaskAnsweredCatalog ==
  ASSUME TypeOK, CatalogInv, NEW a \in answers, TaskAnswered(a)
  PROVE  CatalogInv'
<1>1. BackendOK /\ PageOK
  BY TypedParts
<1>2. /\ a.about \in Kinds /\ answers' = answers \ {a}
      /\ updates' = IF a.state # NoTask /\ AcceptsTask(a.about, a.state)
                    THEN Append(updates, ToTask(a.about, a.state)) ELSE updates
      /\ UNCHANGED <<attached, catalog, refreshes, events, asked, life, base, count>>
  BY DEF TaskAnswered, backend
<1>3. a.about \notin {"catalog", "refresh"} /\ (a.state # NoTask => a.state \in Tasks)
  BY <1>1, <1>2, KindsAreNot, BroughtTyped
<1>4. InFlight' = InFlight
  BY <1>2, <1>3, AnswerTaken
<1> DEFINE k == a.about
           t == a.state
<1>5. k \in Kinds /\ (t # NoTask => t \in Tasks)
      /\ updates' = IF t # NoTask /\ AcceptsTask(k, t) THEN Append(updates, ToTask(k, t)) ELSE updates
  BY <1>2, <1>3
<1> HIDE DEF k, t
<1>6. Seen'.scene = Seen.scene
  BY <1>1, <1>2, <1>5, TaskSees
<1> QED BY <1>2, <1>4, <1>6, SilentCatalog

\* An answer to a refresh.
LEMMA RefreshAnsweredCatalog ==
  ASSUME TypeOK, CatalogInv, NEW a \in answers, RefreshAnswered(a)
  PROVE  CatalogInv'
<1>1. BackendOK /\ PageOK /\ Seen \in Pages /\ Everything \in BOOLEAN
  BY TypedParts, SeenIs, Renderings
<1>2. /\ a.about = "refresh" /\ answers' = answers \ {a}
      /\ UNCHANGED <<attached, catalog, refreshes, events, asked, life, base>>
  BY DEF RefreshAnswered, backend
<1>3. Asked => Asked'
  BY <1>2 DEF Asked
<1>4. CASE a.failed
  <2>1. updates' = Append(updates, Failure) /\ count' = count
    BY <1>4 DEF RefreshAnswered
  <2>2. InFlight' = InFlight
    BY <1>2, <1>4, AnswerTaken
  <2> DEFINE u == Failure
  <2>3. u \in Updates /\ u.to = "error" /\ IsUrgent(u) /\ Applied(Seen, u) = [Seen EXCEPT !.scene.status = "error"]
    BY KindsAreNot DEF Failure, Updates, IsUrgent, Applied
  <2>4. updates' = Append(updates, u)
    BY <2>1
  <2> HIDE DEF u
  <2>5. updates' = updates \o <<u>> /\ <<u>> \in Seq(Updates)
    BY <1>1, <2>3, <2>4 DEF PageOK
  <2>6. Seen' = Then(Seen, <<u>>, Everything)
    BY <1>1, <1>2, <2>5, MessageSees
  <2>7. Then(Seen, <<u>>, Everything) = Step(Seen, u, Everything)
    BY ThenOne
  <2>8. Step(Seen, u, Everything) = [Seen EXCEPT !.scene.status = "error"]
    BY <2>3 DEF Step
  <2>9. Seen'.scene = [Seen.scene EXCEPT !.status = "error"]
    BY <1>1, <2>6, <2>7, <2>8 DEF Pages
  <2>10. VersionOf(Seen'.scene) = VersionOf(Seen.scene)
    BY <1>1, <2>9 DEF Pages, Scenes, VersionOf
  <2>11. ASSUME Seen.scene \in {catalog, [catalog EXCEPT !.status = "error"]}
         PROVE  Seen'.scene = [catalog EXCEPT !.status = "error"]
    <3>1. catalog \in Scenes
      BY <1>1 DEF BackendOK
    <3>2. [[catalog EXCEPT !.status = "error"] EXCEPT !.status = "error"] = [catalog EXCEPT !.status = "error"]
      BY <3>1 DEF Scenes
    <3> QED BY <2>9, <2>11, <3>2
  <2>12. life.key # NoSession /\ ~count.mixed => KnownInv'
    BY <1>2, <1>3, <2>1, <2>2, <2>11 DEF CatalogInv, KnownInv
  <2>13. life'.able \/ life'.snap => life'.key # NoSession
    BY <1>2 DEF CatalogInv
  <2> QED BY <1>2, <2>1, <2>2, <2>10, <2>12, <2>13, SameCatalog
<1>5. CASE ~a.failed
  <2> DEFINE c == a.state
  <2>1. updates' = updates \o Dispatched(c) /\ count' = Judged(c)
    BY <1>5 DEF RefreshAnswered
  <2>2. c \in Scenes
    BY <1>1, <1>2, <1>5, BroughtTyped
  <2>3. c \in InFlight /\ InFlight' \subseteq InFlight /\ \A d \in InFlight : d = c \/ d \in InFlight'
    BY <1>2, <1>5, AnswerTaken
  <2> HIDE DEF c
  <2>4. Dispatched(c) \in Seq(Updates)
    BY <2>2, FitDispatched
  <2>5. Seen' = Then(Seen, Dispatched(c), Everything)
    BY <1>1, <1>2, <2>1, <2>4, MessageSees
  <2>6. Seen'.scene = SceneAfter(c)
    BY <1>1, <2>2, <2>5, DispatchedSees
  <2> QED BY <1>2, <1>3, <2>1, <2>3, <2>6, MessageCatalog
<1> QED BY <1>4, <1>5

\* A refresh, after what is dispatched just before it.
LEMMA RefreshSees ==
  ASSUME PageOK, NEW sent, Fit(sent), base' = base,
         Refresh(sent) \/ (updates' = updates \o sent /\ refreshes' = refreshes)
  PROVE  /\ Asked => Asked'
         /\ \/ Seen' = Then(Seen, sent, Everything) /\ refreshes' = refreshes
            \/ VersionOf(Seen'.scene) = VersionOf(Then(Seen, sent, Everything).scene) /\ Asked'
<1>1. sent \in Seq(Updates) /\ Seen \in Pages
  BY SeenIs DEF Fit
<1>2. PICK more : /\ Fit(more) /\ updates' = updates \o more
                  /\ \/ more = sent /\ refreshes' = refreshes
                     \/ /\ more = sent \o <<Optimistic>>
                        /\ \E n : refreshes' = refreshes \cup {[n |-> n, stage |-> "asked"]}
  BY FitRefresh
<1>3. Seen' = Then(Seen, more, Everything)
  BY <1>2, MessageSees DEF Fit
<1>4. CASE more = sent /\ refreshes' = refreshes
  BY <1>3, <1>4 DEF Asked
<1>5. CASE more = sent \o <<Optimistic>>
           /\ \E n : refreshes' = refreshes \cup {[n |-> n, stage |-> "asked"]}
  <2>1. PICK n : refreshes' = refreshes \cup {[n |-> n, stage |-> "asked"]}
    BY <1>5
  <2>2. [n |-> n, stage |-> "asked"].stage = "asked"
    OBVIOUS
  <2>3. Asked'
    BY <2>1, <2>2 DEF Asked
  <2> QED BY <1>1, <1>3, <1>5, <2>3, OptimisticSees
<1> QED BY <1>2, <1>4, <1>5

\* The answer with the catalog.
LEMMA CatalogAnsweredCatalog ==
  ASSUME TypeOK, CatalogInv, NEW a \in answers, CatalogAnswered(a)
  PROVE  CatalogInv'
<1> DEFINE c == a.state
<1>1. BackendOK /\ PageOK
  BY TypedParts
<1>2. /\ a.about = "catalog" /\ answers' = answers \ {a} /\ count' = Judged(c)
      /\ Refresh(Dispatched(c)) \/ (updates' = updates \o Dispatched(c) /\ refreshes' = refreshes)
      /\ UNCHANGED <<attached, catalog, events, asked, life, base>>
  BY DEF CatalogAnswered
<1>3. c \in Scenes
  BY <1>1, <1>2, BroughtTyped
<1>4. c \in InFlight /\ InFlight' \subseteq InFlight /\ \A d \in InFlight : d = c \/ d \in InFlight'
  BY <1>2, AnswerTaken
<1> HIDE DEF c
<1>5. Fit(Dispatched(c))
  BY <1>3, FitDispatched
<1>6. /\ Asked => Asked'
      /\ \/ Seen' = Then(Seen, Dispatched(c), Everything)
         \/ VersionOf(Seen'.scene) = VersionOf(Then(Seen, Dispatched(c), Everything).scene) /\ Asked'
  BY <1>1, <1>2, <1>5, RefreshSees
<1>7. Then(Seen, Dispatched(c), Everything).scene = SceneAfter(c)
  BY <1>1, <1>3, DispatchedSees
<1> QED BY <1>2, <1>4, <1>6, <1>7, MessageCatalog

\* A refresh of the user.
LEMMA UserRefreshesCatalog ==
  ASSUME TypeOK, CatalogInv, UserRefreshes
  PROVE  CatalogInv'
<1>1. BackendOK /\ PageOK /\ CountOK
  BY TypedParts
<1>2. /\ Acts /\ Refresh(<<>>)
      /\ UNCHANGED <<attached, catalog, events, asked, answers, life, base>>
  BY DEF UserRefreshes, transit
<1>3. count'.misjudged = count.misjudged /\ count'.mixed = count.mixed
  BY <1>1, <1>2 DEF Acts, CountOK, CountType
<1>4. InFlight' = InFlight
  BY <1>2 DEF InFlight
<1>5. /\ Asked => Asked'
      /\ \/ Seen' = Then(Seen, <<>>, Everything)
         \/ VersionOf(Seen'.scene) = VersionOf(Then(Seen, <<>>, Everything).scene) /\ Asked'
  BY <1>1, <1>2, FitNone, RefreshSees
<1>6. Then(Seen, <<>>, Everything) = Seen
  BY ThenNone
<1>7. life.key # NoSession /\ ~count.mixed => KnownInv'
  BY <1>2, <1>3, <1>4, <1>5, <1>6 DEF CatalogInv, KnownInv
<1>8. life'.able \/ life'.snap => life'.key # NoSession
  BY <1>2 DEF CatalogInv
<1> QED BY <1>2, <1>3, <1>4, <1>5, <1>6, <1>7, <1>8, SameCatalog

\* What a render and its effects leave alone.
LEMMA CommitsCatalog ==
  ASSUME PageOK, NEW K \in SUBSET Kinds, Commits(Loads(K))
  PROVE  Seen'.scene = Seen.scene
<1>1. Loads(K) \in Seq(Updates) /\ Seen \in Pages /\ Everything \in BOOLEAN
  BY LoadsAre, SeenIs, Renderings
<1>2. Seen' = Then(Seen, Loads(K), Everything)
  BY <1>1, CommitsSees
<1> QED BY <1>1, <1>2, ThenLoads

\* The effects of a render, and renders.
LEMMA ReactCatalog ==
  ASSUME TypeOK, CatalogInv, EffectsRun \/ Renders \/ RendersAll
  PROVE  CatalogInv'
<1>1. PageOK
  BY TypedParts
<1>2. UNCHANGED <<attached, catalog, refreshes, events, answers, life, count>> /\ asked \subseteq asked'
  BY DEF EffectsRun, Renders, RendersAll, backend, transit
<1>3. InFlight' = InFlight
  BY <1>2 DEF InFlight
<1>4. ASSUME EffectsRun PROVE Seen'.scene = Seen.scene
  <2> DEFINE K == Wanted(page, life.able, FALSE, version'.epoch)
  <2>1. updates' = updates \o Loads(K) /\ base' = base
    BY <1>4 DEF EffectsRun
  <2>2. K \in SUBSET Kinds
    BY WantedTyped
  <2> HIDE DEF K
  <2>3. Loads(K) \in Seq(Updates) /\ Seen \in Pages /\ Everything \in BOOLEAN
    BY <1>1, <2>2, LoadsAre, SeenIs, Renderings
  <2>4. Seen' = Then(Seen, Loads(K), Everything)
    BY <1>1, <2>1, <2>3, MessageSees
  <2> QED BY <2>2, <2>3, <2>4, ThenLoads
<1>5. ASSUME Renders PROVE Seen'.scene = Seen.scene
  <2>1. Commits(Loads({}))
    BY <1>5, LoadsNone DEF Renders
  <2> QED BY <1>1, <2>1, CommitsCatalog
<1>6. ASSUME RendersAll PROVE Seen'.scene = Seen.scene
  <2>1. Finishes
    BY <1>6 DEF RendersAll, Finishes
  <2> QED BY <1>1, <2>1, FinishesSees
<1> QED BY <1>2, <1>3, <1>4, <1>5, <1>6, SilentCatalog

\* A selection.
LEMMA SelectCatalog ==
  ASSUME TypeOK, CatalogInv, UserSelects
  PROVE  CatalogInv'
<1>1. PageOK /\ CountOK
  BY TypedParts
<1> DEFINE K == Wanted(Shown, life.able, TRUE, version'.epoch)
<1>2. Acts /\ RendersAtOnce(Loads(K), K) /\ UNCHANGED <<attached, catalog, refreshes, life>>
  BY DEF UserSelects, backend
<1>3. K \in SUBSET Kinds
  BY WantedTyped
<1> HIDE DEF K
<1>4. Commits(Loads(K)) /\ asked' = asked \cup K /\ UNCHANGED <<events, answers>>
  BY <1>2 DEF RendersAtOnce
<1>5. Seen'.scene = Seen.scene
  BY <1>1, <1>3, <1>4, CommitsCatalog
<1>6. count'.misjudged = count.misjudged /\ count'.mixed = count.mixed
  BY <1>1, <1>2 DEF Acts, CountOK, CountType
<1>7. InFlight' = InFlight
  BY <1>4 DEF InFlight
<1> QED BY <1>2, <1>4, <1>5, <1>6, <1>7, SilentCatalog

\* The snapshot is loaded, and the catalog asked for.
LEMMA SnapshotCatalog ==
  ASSUME TypeOK, CatalogInv, SnapshotLoads
  PROVE  CatalogInv'
<1>1. PageOK /\ RefsOK
  BY TypedParts
<1> DEFINE K == Wanted(Shown, TRUE, FALSE, version'.epoch)
<1>2. /\ life.able /\ life' = [life EXCEPT !.snap = TRUE]
      /\ RendersAtOnce(Loads(K), K \cup {"catalog"})
      /\ UNCHANGED <<attached, catalog, refreshes, count>>
  BY DEF SnapshotLoads, backend
<1>3. K \in SUBSET Kinds
  BY WantedTyped
<1> HIDE DEF K
<1>4. Commits(Loads(K)) /\ "catalog" \in asked' /\ UNCHANGED <<events, answers>>
  BY <1>2 DEF RendersAtOnce
<1>5. Seen'.scene = Seen.scene
  BY <1>1, <1>3, <1>4, CommitsCatalog
<1>6. life'.key = life.key /\ life.key # NoSession
  BY <1>1, <1>2 DEF RefsOK, CatalogInv
<1>7. InFlight' = InFlight
  BY <1>4 DEF InFlight
<1>8. KnownInv'
  BY <1>4 DEF KnownInv
<1> QED BY <1>2, <1>5, <1>6, <1>7, <1>8, SameCatalog

\* The page is reset.
LEMMA TakesLifeCatalog ==
  ASSUME PageOK, NEW lifecycle, TakesLife(lifecycle)
  PROVE  /\ VersionOf(Seen'.scene) = NoVersion
         /\ life' = lifecycle /\ InFlight' = InFlight
<1> DEFINE K == Wanted(Shown, lifecycle.able, lifecycle.able # life.able, 0)
<1>1. /\ life' = lifecycle /\ version' = NoVersion
      /\ RendersAtOnce(<<Reset>> \o Loads(K), K)
  BY DEF TakesLife
<1>2. K \in SUBSET Kinds
  BY WantedTyped
<1> HIDE DEF K
<1>3. Commits(<<Reset>> \o Loads(K)) /\ UNCHANGED <<events, answers>>
  BY <1>1 DEF RendersAtOnce
<1>4. Leaves
  BY <1>1, <1>2, <1>3 DEF Leaves
<1>5. Seen'.scene = EmptyPage.scene
  BY <1>4, LeavesSees
<1> QED BY <1>1, <1>3, <1>5, EmptyVersion DEF InFlight

\* An attach begins.
LEMMA AttachBeginsCatalog ==
  ASSUME TypeOK, CatalogInv, AttachBegins
  PROVE  CatalogInv'
<1>1. PageOK /\ RefsOK
  BY TypedParts
<1>2. attached' = NoSession
  BY DEF AttachBegins
<1>3. life'.key = NoSession /\ (life'.able \/ life'.snap => life'.key # NoSession)
  <2>1. CASE life.key = NoSession
    <3>1. life' = life
      BY <2>1 DEF AttachBegins
    <3> QED BY <2>1, <3>1 DEF CatalogInv
  <2>2. CASE life.key # NoSession
    <3>1. life' = NoLife
      BY <2>2 DEF AttachBegins, TakesLife
    <3> QED BY <3>1 DEF NoLife
  <2> QED BY <2>1, <2>2
<1> QED BY <1>2, <1>3 DEF CatalogInv

\* The page takes the session.
LEMMA AttachAnsweredCatalog ==
  ASSUME TypeOK, CatalogInv, AttachAnswered
  PROVE  CatalogInv'
<1>1. PageOK /\ BackendOK /\ CountOK
  BY TypedParts
<1> DEFINE l == [NoLife EXCEPT !.key = attached]
<1>2. /\ attached # NoSession /\ TakesLife(l)
      /\ count' = [count EXCEPT !.misjudged = FALSE, !.mixed = \E c \in InFlight : c.key = attached]
      /\ UNCHANGED <<attached, catalog>>
  BY DEF AttachAnswered, backend
<1>3. l.key = attached /\ ~l.able /\ ~l.snap
  BY DEF NoLife
<1> HIDE DEF l
<1>4. VersionOf(Seen'.scene) = NoVersion /\ life' = l /\ InFlight' = InFlight
  BY <1>1, <1>2, TakesLifeCatalog
<1>5. count'.mixed = \E c \in InFlight : c.key = attached
  BY <1>1, <1>2 DEF CountOK, CountType
<1>6. ASSUME ~count'.mixed PROVE FlightInv'
  BY <1>2, <1>3, <1>4, <1>5, <1>6 DEF FlightInv
<1>7. SeenInv'
  <2>1. catalog \in Scenes /\ NoVersion \in VersionType
    BY <1>1 DEF BackendOK, NoVersion, VersionType
  <2>2. ~Below(VersionOf(catalog), NoVersion)
    BY <2>1, VersionTyped, BelowOrder
  <2> QED BY <1>2, <1>4, <2>2 DEF SeenInv
<1>8. KnownInv'
  BY <1>3, <1>4 DEF KnownInv
<1> QED BY <1>2, <1>3, <1>4, <1>6, <1>7, <1>8 DEF CatalogInv

\* The lifecycle is refreshed before the snapshot is loaded.
LEMMA LifecycleCatalog ==
  ASSUME TypeOK, CatalogInv, LifecycleRefreshes
  PROVE  CatalogInv'
<1>1. PageOK /\ BackendOK /\ CountOK /\ RefsOK
  BY TypedParts
<1> DEFINE l == [life EXCEPT !.able = TRUE]
<1>2. /\ life.key # NoSession /\ ~life.snap /\ TakesLife(l) /\ (Acts \/ count' = count)
      /\ UNCHANGED <<attached, catalog>>
  BY DEF LifecycleRefreshes, backend
<1>3. l.key = life.key /\ ~l.snap
  BY <1>1, <1>2 DEF RefsOK
<1> HIDE DEF l
<1>4. VersionOf(Seen'.scene) = NoVersion /\ life' = l /\ InFlight' = InFlight
  BY <1>1, <1>2, TakesLifeCatalog
<1>5. count'.mixed = count.mixed
  BY <1>1, <1>2 DEF Acts, CountOK, CountType
<1>6. FlightInv => FlightInv'
  BY <1>2, <1>3, <1>4 DEF FlightInv
<1>7. SeenInv'
  <2>1. catalog \in Scenes /\ NoVersion \in VersionType
    BY <1>1 DEF BackendOK, NoVersion, VersionType
  <2>2. ~Below(VersionOf(catalog), NoVersion)
    BY <2>1, VersionTyped, BelowOrder
  <2> QED BY <1>2, <1>4, <2>2 DEF SeenInv
<1>8. KnownInv'
  BY <1>3, <1>4 DEF KnownInv
<1> QED BY <1>2, <1>3, <1>4, <1>5, <1>6, <1>7, <1>8 DEF CatalogInv

\* Each step keeps what is known of the catalog.
LEMMA CatalogStep == TypeOK /\ TypeOK' /\ CatalogInv /\ [Next]_vars => CatalogInv'
<1> SUFFICES ASSUME TypeOK, TypeOK', CatalogInv, [Next]_vars PROVE CatalogInv'
  OBVIOUS
<1>1. CASE UNCHANGED vars
  <2>1. UNCHANGED <<attached, catalog, refreshes, life, count>> /\ asked' = asked
        /\ InFlight' = InFlight /\ Seen' = Seen
    BY <1>1 DEF vars, backend, transit, react, InFlight, Seen
  <2> QED BY <2>1, SilentCatalog
<1>2. CASE Next
  <2>1. StepIsOneOf
    BY <1>2, NextIs
  <2>2. CASE BackendStep
    BY <2>2, BackendCatalog
  <2>3. CASE EffectsRun \/ Renders \/ RendersAll
    BY <2>3, ReactCatalog
  <2>4. CASE UserSelects \/ UserRefreshes
    BY <2>4, SelectCatalog, UserRefreshesCatalog
  <2>5. CASE SnapshotLoads \/ LifecycleRefreshes
    BY <2>5, SnapshotCatalog, LifecycleCatalog
  <2>6. CASE AttachBegins \/ AttachAnswered
    BY <2>6, AttachBeginsCatalog, AttachAnsweredCatalog
  <2>7. CASE EventArrives
    BY <2>7, ArrivalCatalog
  <2>8. CASE \E a \in answers : TaskAnswered(a) \/ RefreshAnswered(a) \/ CatalogAnswered(a)
    BY <2>8, TaskAnsweredCatalog, RefreshAnsweredCatalog, CatalogAnsweredCatalog
  <2> QED BY <2>1, <2>2, <2>3, <2>4, <2>5, <2>6, <2>7, <2>8 DEF StepIsOneOf
<1> QED BY <1>1, <1>2

\* When all is quiet nothing that waits hides the scene to come.
LEMMA QuietSees ==
  ASSUME TypeOK, VersionInv, CatalogInv
  PROVE  QuietCatalog
<1> SUFFICES ASSUME Quiet, catalog.key = life.key, ~count.misjudged, ~count.mixed
             PROVE  page.scene = catalog \/ page.scene = [catalog EXCEPT !.status = "error"]
  BY DEF QuietCatalog
<1>1. /\ events = <<>> /\ asked = {} /\ answers = {} /\ updates = <<>> /\ refreshes = {} /\ life.snap
      /\ Len(<<>>) = 0
  BY DEF Quiet
<1>2. InFlight = {}
  <2>1. 1..Len(events) = {}
    BY <1>1
  <2>2. Told(events) = {}
    BY <2>1 DEF Told
  <2> QED BY <1>1, <2>2 DEF InFlight, Answered
<1>3. Seen.scene \in {catalog, [catalog EXCEPT !.status = "error"]}
  <2>1. life.key # NoSession
    BY <1>1 DEF CatalogInv
  <2>2. KnownInv
    BY <2>1 DEF CatalogInv
  <2> QED BY <1>1, <1>2, <2>2 DEF KnownInv, Asked
<1>4. page.scene = Seen.scene
  <2>1. done = 0
    BY <1>1, TypedParts DEF PageOK
  <2>2. Evaluation(base, updates, UrgentOnly)[done] = Then(base, <<>>, UrgentOnly)
        /\ Seen = Then(base, <<>>, Everything)
    BY <1>1, <2>1 DEF Then, Seen, Everything
  <2> QED BY <2>2, ThenNone DEF VersionInv
<1> QED BY <1>3, <1>4

\* When all is quiet the page shows the catalog the backend has, unless the version ref has
\* judged a state of it otherwise than the scene to come, or states of an earlier session
\* of that name were on their way when the page took the session.
THEOREM CatalogShown == Spec => []QuietCatalog
<1> DEFINE IInv == TypeOK /\ VersionInv /\ CatalogInv
<1>1. Init => IInv
  BY InitTyped, InitVersion, InitCatalog
<1>2. IInv /\ [Next]_vars => IInv'
  BY TypedStep, VersionStep, CatalogStep
<1>3. IInv => QuietCatalog
  BY QuietSees
<1> QED BY <1>1, <1>2, <1>3, PTL DEF Spec
=============================================================================
