-------------------------- MODULE ScenePicker_proofs --------------------------
(***************************************************************************)
(* Theorems about ScenePicker, for every set of windows, objects and       *)
(* session keys and every value of the bounds.                             *)
(***************************************************************************)
EXTENDS ScenePicker, InductionLemmas, SequenceTheorems, TLAPS

-----------------------------------------------------------------------------
(* The fields the records keep; what they hold matters to no proof here.   *)
SnapFields   == {"session", "target", "running", "status", "inside", "hit", "recent", "rev"}
StoreFields  == {"session", "snap", "next", "active"}
ThreadFields == {"id", "session", "inc", "cancelled", "pc", "target", "seen"}

Thread(w) == DOMAIN w = ThreadFields /\ w.id \in Nat /\ w.inc \in Nat

ShapedStore(st) ==
    /\ DOMAIN st = StoreFields /\ DOMAIN st.snap = SnapFields
    /\ st.next \in Nat /\ st.active \in Nat

Shaped == ShapedStore(store) /\ incarnation \in Nat /\ \A w \in workers : Thread(w)

(* Dark: not running, and showing nothing.                                 *)
Dark(s) == s.running = FALSE /\ s.inside = FALSE /\ s.hit = NoHit

-----------------------------------------------------------------------------
(* What the snapshot operators return.                                     *)
LEMMA UnpreviewedShape ==
    ASSUME NEW s, DOMAIN s = SnapFields
    PROVE  /\ DOMAIN Unpreviewed(s) = SnapFields
           /\ Unpreviewed(s).running = s.running
           /\ Unpreviewed(s).inside = FALSE /\ Unpreviewed(s).hit = NoHit
BY DEF Unpreviewed, SnapFields

LEMMA DarkShape ==
    ASSUME NEW s, DOMAIN s = SnapFields
    PROVE  /\ DOMAIN Idle(s) = SnapFields /\ Dark(Idle(s))
           /\ DOMAIN Cancelled(s) = SnapFields /\ Dark(Cancelled(s))
           /\ DOMAIN Failed(s) = SnapFields /\ Dark(Failed(s))
<1>1. DOMAIN Idle(s) = SnapFields /\ Dark(Idle(s))
  BY UnpreviewedShape DEF Idle, SnapFields, Dark
<1>2. DOMAIN Cancelled(s) = SnapFields /\ Dark(Cancelled(s))
  BY UnpreviewedShape DEF Cancelled, SnapFields, Dark
<1>3. DOMAIN Failed(s) = SnapFields /\ Dark(Failed(s))
  BY UnpreviewedShape DEF Failed, SnapFields, Dark
<1> QED
  BY <1>1, <1>2, <1>3

LEMMA ArmedShape ==
    ASSUME NEW s, DOMAIN s = SnapFields
    PROVE  DOMAIN Armed(s) = SnapFields /\ Armed(s).running = TRUE
BY DEF Armed, SnapFields

LEMMA ObservedShape ==
    ASSUME NEW s, NEW window, NEW seen, DOMAIN s = SnapFields
    PROVE  /\ DOMAIN Observed(s, window, seen) = SnapFields
           /\ Observed(s, window, seen).running = TRUE
BY DEF Observed, SnapFields

(* Selecting or deselecting a window neither starts nor stops the picker.  *)
LEMMA RetargetedShape ==
    ASSUME NEW s, NEW window, DOMAIN s = SnapFields
    PROVE  LET r == Retargeted(s, window)
           IN  /\ DOMAIN r = SnapFields
               /\ r.running <=> s.running
               /\ \/ Dark(r)
                  \/ r.running = s.running /\ r.inside = s.inside /\ r.hit = s.hit
                  \/ r.running = TRUE
<1>1. CASE window # NoWindow
  BY <1>1 DEF Retargeted, SnapFields
<1>2. CASE window = NoWindow
  <2> DEFINE c == [Unpreviewed(s) EXCEPT !.target = NoWindow]
  <2>1. DOMAIN c = SnapFields
    BY UnpreviewedShape DEF SnapFields
  <2>2. Retargeted(s, window) = IF s.running THEN Armed(c) ELSE Idle(c)
    BY <1>2 DEF Retargeted
  <2> HIDE DEF c
  <2>3. CASE s.running
    BY <2>1, <2>2, <2>3, ArmedShape
  <2>4. CASE ~s.running
    <3>1. Retargeted(s, window) = Idle(c)
      BY <2>2, <2>4
    <3> QED
      BY <2>1, <2>4, <3>1, DarkShape DEF Dark
  <2> QED
    BY <2>3, <2>4
<1> QED
  BY <1>1, <1>2

LEMMA PublishShape ==
    ASSUME NEW st, NEW s, ShapedStore(st), DOMAIN s = SnapFields, Publish(st, s)
    PROVE  /\ ShapedStore(store')
           /\ store'.snap.running = s.running /\ store'.snap.inside = s.inside
           /\ store'.snap.hit = s.hit
           /\ store'.next = st.next /\ store'.active = st.active /\ store'.session = st.session
BY DEF Publish, SnapFields, StoreFields, ShapedStore

LEMMA NewStoreShape ==
    ASSUME NEW key
    PROVE  /\ ShapedStore(NewStore(key)) /\ Dark(NewStore(key).snap)
           /\ NewStore(key).next = 0 /\ NewStore(key).active = 0
           /\ NewStore(key).session = key
BY DEF NewStore, Default, SnapFields, StoreFields, ShapedStore, Dark

LEMMA StoppedShape ==
    ASSUME NEW st, ShapedStore(st)
    PROVE  /\ ShapedStore(Stopped(st)) /\ Stopped(st).snap = st.snap
           /\ Stopped(st).next = st.next /\ Stopped(st).active = 0
           /\ Stopped(st).session = st.session
BY DEF Stopped, StoreFields, ShapedStore

-----------------------------------------------------------------------------
(* The threads after a step are those before it, or some of them.          *)
SameThread(v, w) == w.id = v.id /\ w.inc = v.inc /\ w.session = v.session
OldThreads(threads) == \A w \in threads : Thread(w) /\ \E v \in workers : SameThread(v, w)

LEMMA SignalledThreads ==
    ASSUME Shaped
    PROVE  /\ OldThreads(Signalled)
           /\ \A v \in workers : \E w \in Signalled : SameThread(v, w)
<1>1. ASSUME NEW v \in workers
      PROVE  /\ Thread([v EXCEPT !.cancelled = TRUE])
             /\ SameThread(v, [v EXCEPT !.cancelled = TRUE])
  <2>1. Thread(v)
    BY DEF Shaped
  <2> QED
    BY <2>1 DEF Thread, ThreadFields, SameThread
<1>2. \A v \in workers : Thread(v) /\ SameThread(v, v)
  BY DEF Shaped, SameThread
<1> QED
  BY <1>1, <1>2 DEF Signalled, OldThreads

(* The worker is told to end: no thread is heard any more.                 *)
LEMMA Ending ==
    ASSUME Shaped, PickerInv, OldThreads(workers'), ShapedStore(store'), Dark(store'.snap),
           store'.active = 0, store'.next = store.next, store'.session = store.session,
           incarnation' = incarnation
    PROVE  Shaped' /\ PickerInv'
<1>1. Shaped'
  BY DEF Shaped, OldThreads, ShapedStore, Thread
<1>2. ThreadsOfStore'
  BY DEF PickerInv, ThreadsOfStore, OldThreads, SameThread, ShapedStore
<1>3. RunningHasWorker'
  BY DEF RunningHasWorker, Dark
<1>4. StoppedIsUnheard'
  BY <1>2 DEF StoppedIsUnheard, ThreadsOfStore, Hears
<1>5. IdleShowsNothing'
  BY DEF IdleShowsNothing, Dark
<1> QED
  BY <1>1, <1>2, <1>3, <1>4, <1>5 DEF PickerInv

(* The store is replaced: every thread there is belongs to an earlier one. *)
LEMMA Renewing ==
    ASSUME Shaped, PickerInv, OldThreads(workers'), ShapedStore(store'), Dark(store'.snap),
           store'.active = 0,
           incarnation' = IF store.session = NoSession THEN incarnation ELSE incarnation + 1
    PROVE  Shaped' /\ PickerInv'
<1>1. incarnation \in Nat /\ incarnation' \in Nat
  BY DEF Shaped
<1>2. Shaped'
  BY <1>1 DEF Shaped, OldThreads, ShapedStore, Thread
<1>3. ASSUME NEW w \in workers' PROVE w.id # 0 /\ w.inc <= incarnation' /\ w.inc # incarnation'
  <2>1. PICK v \in workers : SameThread(v, w)
    BY DEF OldThreads
  <2>2. /\ v.id # 0 /\ v.inc <= incarnation /\ v.inc \in Nat
        /\ v.inc = incarnation => store.session # NoSession
    BY DEF PickerInv, ThreadsOfStore, Shaped, Thread
  <2> QED
    BY <1>1, <2>1, <2>2 DEF SameThread
<1>4. ThreadsOfStore'
  BY <1>3 DEF ThreadsOfStore, ShapedStore
<1>5. RunningHasWorker' /\ IdleShowsNothing'
  BY DEF RunningHasWorker, IdleShowsNothing, Dark
<1>6. StoppedIsUnheard'
  BY <1>3 DEF StoppedIsUnheard
<1> QED
  BY <1>2, <1>4, <1>5, <1>6 DEF PickerInv

(* The picker goes on, or stays as it is: the active worker stays active   *)
(* and no thread of this incarnation is told to stop.                      *)
LEMMA GoingOn ==
    ASSUME Shaped, PickerInv, ShapedStore(store'),
           store'.active = store.active, store'.next = store.next,
           store'.session = store.session, incarnation' = incarnation,
           store'.snap.running <=> store.snap.running,
           \/ Dark(store'.snap) \/ store'.snap.running = TRUE
           \/ store'.snap.inside = store.snap.inside /\ store'.snap.hit = store.snap.hit,
           OldThreads(workers'),
           \A w \in workers' : w.cancelled => \E v \in workers : SameThread(v, w) /\ v.cancelled,
           \A v \in workers : Hears(v) /\ v.inc = incarnation =>
                                 \E w \in workers' : SameThread(v, w)
    PROVE  Shaped' /\ PickerInv'
<1>1. Shaped'
  BY DEF Shaped, OldThreads, ShapedStore, Thread
<1>2. ThreadsOfStore'
  BY DEF PickerInv, ThreadsOfStore, OldThreads, SameThread
<1>3. RunningHasWorker'
  <2>1. ASSUME store.active # 0
        PROVE  \E w \in workers' : w.inc = incarnation' /\ w.id = store'.active
    <3>1. PICK v \in workers : v.inc = incarnation /\ v.id = store.active
      BY <2>1 DEF PickerInv, RunningHasWorker
    <3>2. Hears(v)
      BY <3>1 DEF Hears, PickerInv, ThreadsOfStore
    <3> QED
      BY <3>1, <3>2 DEF SameThread
  <2> QED
    BY <2>1 DEF PickerInv, RunningHasWorker
<1>4. StoppedIsUnheard'
  BY DEF PickerInv, StoppedIsUnheard, Hears, SameThread
<1>5. IdleShowsNothing'
  BY DEF PickerInv, IdleShowsNothing, Dark
<1> QED
  BY <1>1, <1>2, <1>3, <1>4, <1>5 DEF PickerInv

-----------------------------------------------------------------------------
(* The commands.                                                           *)
LEMMA SameThreads == ASSUME Shaped PROVE OldThreads(workers)
BY DEF Shaped, OldThreads, SameThread

LEMMA StepSetTarget ==
    ASSUME Shaped, PickerInv, NEW window, SetTarget(window)
    PROVE  Shaped' /\ PickerInv'
<1> DEFINE st == Ensured(attached)
           s  == [st.snap EXCEPT !.session = st.session]
           r  == Retargeted(s, window)
<1>1. Publish(st, r) /\ Renewed(attached)
  BY DEF SetTarget
<1>2. ShapedStore(st)
  BY NewStoreShape DEF Ensured, Shaped
<1>3. /\ DOMAIN s = SnapFields
      /\ s.running = st.snap.running /\ s.inside = st.snap.inside /\ s.hit = st.snap.hit
  BY <1>2 DEF ShapedStore, SnapFields
<1> HIDE DEF s
<1>4. /\ DOMAIN r = SnapFields
      /\ r.running <=> s.running
      /\ \/ Dark(r) \/ r.running = TRUE
         \/ r.running = s.running /\ r.inside = s.inside /\ r.hit = s.hit
  BY <1>3, RetargetedShape
<1> HIDE DEF r
<1>5. /\ ShapedStore(store')
      /\ store'.snap.running = r.running /\ store'.snap.inside = r.inside
      /\ store'.snap.hit = r.hit
      /\ store'.next = st.next /\ store'.active = st.active /\ store'.session = st.session
  BY <1>1, <1>2, <1>4, PublishShape
<1>6. CASE store.session = attached
  <2>1. st = store /\ incarnation' = incarnation /\ workers' = workers
    BY <1>1, <1>6 DEF Ensured, Renewed, SetTarget
  <2> HIDE DEF st
  <2>2. Dark(r) => Dark(store'.snap)
    BY <1>5 DEF Dark
  <2> QED
    BY <1>3, <1>4, <1>5, <2>1, <2>2, SameThreads, GoingOn DEF SameThread
<1>7. CASE store.session # attached
  <2>1. st = NewStore(attached) /\ workers' = Signalled
    BY <1>7 DEF Ensured, SetTarget
  <2>2. incarnation' = IF store.session = NoSession THEN incarnation ELSE incarnation + 1
    BY <1>1, <1>7 DEF Renewed
  <2>3. st.active = 0 /\ Dark(st.snap)
    BY <2>1, NewStoreShape
  <2> HIDE DEF st
  <2>4. Dark(store'.snap) /\ store'.active = 0
    BY <1>3, <1>4, <1>5, <2>3 DEF Dark
  <2> QED
    BY <1>5, <2>1, <2>2, <2>4, SignalledThreads, Renewing
<1> QED
  BY <1>6, <1>7

LEMMA StepStart ==
    ASSUME Shaped, PickerInv, Start
    PROVE  Shaped' /\ PickerInv'
<1> DEFINE w  == [id |-> store.next + 1, session |-> attached, inc |-> incarnation,
                  cancelled |-> FALSE, pc |-> "loop", target |-> NoWindow, seen |-> Nothing]
           st == [store EXCEPT !.next = store.next + 1, !.active = store.next + 1]
<1>1. /\ Publish(st, Armed(store.snap)) /\ workers' = workers \cup {w}
      /\ incarnation' = incarnation /\ store.session = attached /\ attached # NoSession
  BY DEF Start
<1>2. /\ ShapedStore(st) /\ st.next = store.next + 1 /\ st.active = store.next + 1
      /\ st.session = store.session
  BY DEF Shaped, ShapedStore, StoreFields
<1>3. DOMAIN Armed(store.snap) = SnapFields /\ Armed(store.snap).running = TRUE
  BY ArmedShape DEF Shaped, ShapedStore
<1>4. /\ Thread(w) /\ w.id = store.next + 1 /\ w.inc = incarnation /\ w.cancelled = FALSE
      /\ w.session = attached
  BY DEF Shaped, ShapedStore, Thread, ThreadFields
<1> HIDE DEF w, st
<1>5. /\ ShapedStore(store') /\ store'.snap.running = TRUE
      /\ store'.next = store.next + 1 /\ store'.active = store.next + 1
      /\ store'.session = attached
  BY <1>1, <1>2, <1>3, PublishShape
<1>6. Shaped'
  BY <1>1, <1>4, <1>5 DEF Shaped, ShapedStore, Thread
<1>7. store.next \in Nat /\ incarnation \in Nat
  BY DEF Shaped, ShapedStore
<1>8. ThreadsOfStore'
  <2>1. ASSUME NEW v \in workers
        PROVE  /\ v.id # 0 /\ v.inc <= incarnation /\ v.id \in Nat
               /\ v.inc = incarnation => v.id <= store.next /\ v.session = store.session
    BY DEF PickerInv, ThreadsOfStore, Shaped, Thread
  <2> QED
    BY <1>1, <1>4, <1>5, <1>7, <2>1 DEF ThreadsOfStore
<1>9. RunningHasWorker'
  BY <1>1, <1>4, <1>5, <1>7 DEF RunningHasWorker
<1>10. StoppedIsUnheard'
  <2>1. ASSUME NEW v \in workers, v.inc = incarnation PROVE v.id # store.next + 1
    BY <1>7, <2>1 DEF PickerInv, ThreadsOfStore, Shaped, Thread
  <2> QED
    BY <1>1, <1>4, <1>5, <2>1 DEF StoppedIsUnheard, Hears
<1>11. IdleShowsNothing'
  BY <1>5 DEF IdleShowsNothing
<1> QED
  BY <1>6, <1>8, <1>9, <1>10, <1>11 DEF PickerInv

LEMMA StepStartAgain ==
    ASSUME Shaped, PickerInv, StartAgain
    PROVE  Shaped' /\ PickerInv'
<1>1. /\ Publish(store, Armed(store.snap)) /\ workers' = workers
      /\ incarnation' = incarnation /\ store.active # 0
  BY DEF StartAgain
<1>2. DOMAIN Armed(store.snap) = SnapFields /\ Armed(store.snap).running = TRUE
  BY ArmedShape DEF Shaped, ShapedStore
<1>3. /\ ShapedStore(store') /\ store'.snap.running = TRUE
      /\ store'.next = store.next /\ store'.active = store.active
      /\ store'.session = store.session
  BY <1>1, <1>2, PublishShape DEF Shaped
<1>4. store.snap.running
  BY <1>1 DEF PickerInv, RunningHasWorker
<1> QED
  BY <1>1, <1>3, <1>4, SameThreads, GoingOn DEF SameThread

LEMMA StepReplaced ==
    ASSUME Shaped, PickerInv, StartWithoutWindow \/ AttachResets
    PROVE  Shaped' /\ PickerInv'
<1>1. PICK key : store' = NewStore(key) /\ workers' = Signalled
  BY DEF StartWithoutWindow, AttachResets
<1>2. incarnation' = IF store.session = NoSession THEN incarnation ELSE incarnation + 1
  BY DEF StartWithoutWindow, AttachResets, Renewed
<1>3. ShapedStore(store') /\ Dark(store'.snap) /\ store'.active = 0
  BY <1>1, NewStoreShape
<1> QED
  BY <1>1, <1>2, <1>3, SignalledThreads, Renewing

LEMMA StepStop ==
    ASSUME Shaped, PickerInv, Stop
    PROVE  Shaped' /\ PickerInv'
<1> DEFINE st == Ensured(attached)
<1>1. Publish(Stopped(st), Cancelled(st.snap)) /\ workers' = Signalled /\ Renewed(attached)
  BY DEF Stop
<1>2. ShapedStore(st)
  BY NewStoreShape DEF Ensured, Shaped
<1>3. DOMAIN Cancelled(st.snap) = SnapFields /\ Dark(Cancelled(st.snap))
  BY <1>2, DarkShape DEF ShapedStore
<1>4. /\ ShapedStore(Stopped(st)) /\ Stopped(st).next = st.next /\ Stopped(st).active = 0
      /\ Stopped(st).session = st.session
  BY <1>2, StoppedShape
<1>5. /\ ShapedStore(store') /\ Dark(store'.snap)
      /\ store'.next = st.next /\ store'.active = 0 /\ store'.session = st.session
  BY <1>1, <1>3, <1>4, PublishShape DEF Dark
<1>6. CASE store.session = attached
  <2>1. st = store /\ incarnation' = incarnation
    BY <1>1, <1>6 DEF Ensured, Renewed
  <2> QED
    BY <1>1, <1>5, <2>1, SignalledThreads, Ending
<1>7. CASE store.session # attached
  <2>1. incarnation' = IF store.session = NoSession THEN incarnation ELSE incarnation + 1
    BY <1>1, <1>7 DEF Renewed
  <2> QED
    BY <1>1, <1>5, <2>1, SignalledThreads, Renewing
<1> QED
  BY <1>6, <1>7

-----------------------------------------------------------------------------
(* The polling threads.                                                    *)
LEMMA OneStep ==
    ASSUME Shaped, NEW w \in workers, NEW v, Step(w, v), Thread(v), SameThread(w, v),
           v.cancelled = w.cancelled
    PROVE  /\ OldThreads(workers')
           /\ \A x \in workers' : x.cancelled => \E u \in workers : SameThread(u, x) /\ u.cancelled
           /\ \A u \in workers : \E x \in workers' : SameThread(u, x)
BY DEF Shaped, Step, OldThreads, SameThread

(* A thread that does not touch the store only moves on.                   *)
LEMMA StepAside ==
    ASSUME Shaped, PickerInv, NEW w \in workers, NEW v, Step(w, v), Thread(v), SameThread(w, v),
           v.cancelled = w.cancelled, store' = store, incarnation' = incarnation
    PROVE  Shaped' /\ PickerInv'
BY OneStep, GoingOn DEF Shaped

LEMMA StepLoops ==
    ASSUME Shaped, PickerInv, NEW w \in workers, WorkerLoops(w) \/ WorkerPolls(w)
    PROVE  Shaped' /\ PickerInv'
<1>1. Thread(w) /\ store' = store /\ incarnation' = incarnation
  BY DEF Shaped, WorkerLoops, WorkerPolls
<1>2. \E v : Step(w, v) /\ Thread(v) /\ SameThread(w, v) /\ v.cancelled = w.cancelled
  <2>1. ASSUME NEW end, Step(w, [w EXCEPT !.pc = end])
        PROVE  \E v : Step(w, v) /\ Thread(v) /\ SameThread(w, v) /\ v.cancelled = w.cancelled
    <3>1. LET v == [w EXCEPT !.pc = end]
          IN  Thread(v) /\ SameThread(w, v) /\ v.cancelled = w.cancelled
      BY <1>1 DEF Thread, ThreadFields, SameThread
    <3> QED
      BY <2>1, <3>1
  <2>2. ASSUME Step(w, [w EXCEPT !.pc = "poll", !.target = store.snap.target])
        PROVE  \E v : Step(w, v) /\ Thread(v) /\ SameThread(w, v) /\ v.cancelled = w.cancelled
    <3>1. LET v == [w EXCEPT !.pc = "poll", !.target = store.snap.target]
          IN  Thread(v) /\ SameThread(w, v) /\ v.cancelled = w.cancelled
      BY <1>1 DEF Thread, ThreadFields, SameThread
    <3> QED
      BY <2>2, <3>1
  <2>3. ASSUME NEW seen, Step(w, [w EXCEPT !.pc = "observe", !.seen = seen])
        PROVE  \E v : Step(w, v) /\ Thread(v) /\ SameThread(w, v) /\ v.cancelled = w.cancelled
    <3>1. LET v == [w EXCEPT !.pc = "observe", !.seen = seen]
          IN  Thread(v) /\ SameThread(w, v) /\ v.cancelled = w.cancelled
      BY <1>1 DEF Thread, ThreadFields, SameThread
    <3> QED
      BY <2>3, <3>1
  <2>4. CASE WorkerLoops(w)
    <3>1. \/ Step(w, [w EXCEPT !.pc = "poll", !.target = store.snap.target])
          \/ Step(w, [w EXCEPT !.pc = "finish"])
      BY <2>4 DEF WorkerLoops
    <3> QED
      BY <2>1, <2>2, <3>1
  <2>5. CASE WorkerPolls(w)
    <3>1. \/ \E seen \in Seen : Step(w, [w EXCEPT !.pc = "observe", !.seen = seen])
          \/ \E end \in {"cancel", "fail"} : Step(w, [w EXCEPT !.pc = end])
      BY <2>5 DEF WorkerPolls
    <3> QED
      BY <2>1, <2>3, <3>1
  <2> QED
    BY <2>4, <2>5
<1> QED
  BY <1>1, <1>2, StepAside

(* A thread that is heard has an id, so the picker it observes for runs.   *)
LEMMA HeardRuns ==
    ASSUME PickerInv, NEW w \in workers, Hears(w)
    PROVE  store.snap.running
BY DEF PickerInv, ThreadsOfStore, RunningHasWorker, Hears

LEMMA StepObserves ==
    ASSUME Shaped, PickerInv, NEW w \in workers, WorkerObserves(w)
    PROVE  Shaped' /\ PickerInv'
<1> DEFINE v == [w EXCEPT !.pc = "loop", !.target = NoWindow, !.seen = Nothing]
           s == [store.snap EXCEPT !.session = store.session]
           o == Observed(s, w.target, w.seen)
<1>1. /\ Step(w, v) /\ incarnation' = incarnation
      /\ Unheard(w) \/ (Hears(w) /\ Publish(store, o))
  BY DEF WorkerObserves
<1>2. Thread(v) /\ SameThread(w, v) /\ v.cancelled = w.cancelled
  BY DEF Shaped, Thread, ThreadFields, SameThread
<1>3. DOMAIN s = SnapFields
  BY DEF Shaped, ShapedStore, SnapFields
<1> HIDE DEF v, s
<1>4. DOMAIN o = SnapFields /\ o.running = TRUE
  BY <1>3, ObservedShape
<1> HIDE DEF o
<1>5. CASE Unheard(w)
  BY <1>1, <1>2, <1>5, StepAside DEF Unheard
<1>6. CASE Hears(w) /\ Publish(store, o)
  <2>1. /\ ShapedStore(store') /\ store'.snap.running = TRUE
        /\ store'.next = store.next /\ store'.active = store.active
        /\ store'.session = store.session
    BY <1>4, <1>6, PublishShape DEF Shaped
  <2>2. store.snap.running
    BY <1>6, HeardRuns
  <2> QED
    BY <1>1, <1>2, <2>1, <2>2, OneStep, GoingOn
<1> QED
  BY <1>1, <1>5, <1>6

(* A thread that ends without being heard.                                 *)
LEMMA StepGone ==
    ASSUME Shaped, PickerInv, NEW w \in workers, workers' = workers \ {w}, Unheard(w),
           incarnation' = incarnation
    PROVE  Shaped' /\ PickerInv'
<1>1. OldThreads(workers')
  BY SameThreads DEF OldThreads
<1>2. \A v \in workers : Hears(v) => v \in workers'
  BY DEF Unheard
<1> QED
  BY <1>1, <1>2, GoingOn DEF Shaped, SameThread, Unheard

(* The last call of a thread that is heard darkens the picker.             *)
LEMMA StepEnds ==
    ASSUME Shaped, PickerInv, OldThreads(workers'), incarnation' = incarnation,
           \/ Publish(Stopped(store), Cancelled(store.snap))
           \/ Publish(Stopped(store), Failed(store.snap))
           \/ Publish(Stopped(store), Idle(store.snap))
    PROVE  Shaped' /\ PickerInv'
<1>1. PICK s : Publish(Stopped(store), s) /\ DOMAIN s = SnapFields /\ Dark(s)
  BY DarkShape DEF Shaped, ShapedStore
<1>2. /\ ShapedStore(Stopped(store)) /\ Stopped(store).next = store.next
      /\ Stopped(store).active = 0 /\ Stopped(store).session = store.session
  BY StoppedShape DEF Shaped
<1>3. /\ ShapedStore(store') /\ Dark(store'.snap)
      /\ store'.next = store.next /\ store'.active = 0 /\ store'.session = store.session
  BY <1>1, <1>2, PublishShape DEF Dark
<1> QED
  BY <1>3, Ending

LEMMA StepCancels ==
    ASSUME Shaped, PickerInv, NEW w \in workers, WorkerCancels(w)
    PROVE  Shaped' /\ PickerInv'
<1> DEFINE Done(v) == [v EXCEPT !.pc = IF v.id = w.id /\ v.inc = w.inc THEN "finish" ELSE v.pc]
<1>1. incarnation' = incarnation
  BY DEF WorkerCancels
<1>2. CASE Unheard(w) /\ Step(w, [w EXCEPT !.pc = "finish"])
  <2> DEFINE v == [w EXCEPT !.pc = "finish"]
  <2>1. Thread(v) /\ SameThread(w, v) /\ v.cancelled = w.cancelled
    BY DEF Shaped, Thread, ThreadFields, SameThread
  <2>2. Step(w, v)
    BY <1>2
  <2> HIDE DEF v
  <2> QED
    BY <1>1, <1>2, <2>1, <2>2, StepAside DEF Unheard
<1>3. CASE /\ Publish(Stopped(store), Cancelled(store.snap))
           /\ workers' = {Done(v) : v \in Signalled}
  <2>1. ASSUME NEW v \in Signalled PROVE Thread(Done(v)) /\ SameThread(v, Done(v))
    <3>1. Thread(v)
      BY SignalledThreads DEF OldThreads
    <3> QED
      BY <3>1 DEF Thread, ThreadFields, SameThread
  <2> HIDE DEF Done
  <2>2. OldThreads(workers')
    BY <1>3, <2>1, SignalledThreads DEF OldThreads, SameThread
  <2> QED
    BY <1>1, <1>3, <2>2, StepEnds
<1> QED
  BY <1>2, <1>3 DEF WorkerCancels

LEMMA StepLast ==
    ASSUME Shaped, PickerInv, NEW w \in workers, WorkerFails(w) \/ WorkerFinishes(w)
    PROVE  Shaped' /\ PickerInv'
<1>1. incarnation' = incarnation
  BY DEF WorkerFails, WorkerFinishes
<1>2. CASE Unheard(w) /\ workers' = workers \ {w}
  BY <1>1, <1>2, StepGone
<1>3. CASE /\ Publish(Stopped(store), Failed(store.snap))
           /\ workers' = {v \in Signalled : v.id # w.id \/ v.inc # w.inc}
  <2>1. OldThreads(workers')
    BY <1>3, SignalledThreads DEF OldThreads
  <2> QED
    BY <1>1, <1>3, <2>1, StepEnds
<1>4. CASE Publish(Stopped(store), Idle(store.snap)) /\ workers' = workers \ {w}
  <2>1. OldThreads(workers')
    BY <1>4, SameThreads DEF OldThreads
  <2> QED
    BY <1>1, <1>4, <2>1, StepEnds
<1> QED
  BY <1>2, <1>3, <1>4 DEF WorkerFails, WorkerFinishes

-----------------------------------------------------------------------------
LEMMA PickerInit == Init => Shaped /\ PickerInv
<1> SUFFICES ASSUME Init PROVE Shaped /\ PickerInv
  OBVIOUS
<1>1. store = NewStore(NoSession) /\ workers = {} /\ incarnation = 0
  BY DEF Init
<1>2. ShapedStore(store) /\ Dark(store.snap) /\ store.next = 0 /\ store.active = 0
  BY <1>1, NewStoreShape
<1> QED
  BY <1>1, <1>2 DEF Shaped, PickerInv, ThreadsOfStore, RunningHasWorker, StoppedIsUnheard,
                    IdleShowsNothing, Dark

LEMMA PickerStep == Shaped /\ PickerInv /\ [Next]_vars => Shaped' /\ PickerInv'
<1> SUFFICES ASSUME Shaped, PickerInv, [Next]_vars PROVE Shaped' /\ PickerInv'
  OBVIOUS
<1>1. CASE UNCHANGED <<store, workers, incarnation>>
  BY <1>1, SameThreads, GoingOn DEF Shaped, SameThread
<1>2. CASE UNCHANGED vars
  BY <1>1, <1>2 DEF vars
<1>3. ASSUME NEW w \in workers, WorkerNext(w)
      PROVE  Shaped' /\ PickerInv'
  BY <1>3, StepLoops, StepObserves, StepCancels, StepLast DEF WorkerNext
<1>4. CASE AttachBegins \/ \E key \in Keys : AttachEnds(key)
  BY <1>1, <1>4 DEF AttachBegins, AttachEnds
<1> QED
  BY <1>2, <1>3, <1>4, StepSetTarget, StepStart, StepStartAgain, StepReplaced, StepStop DEF Next

(* The inductive invariant of the picker, and that its records keep their  *)
(* fields.                                                                 *)
THEOREM PickerCorrect == Spec => [](Shaped /\ PickerInv)
BY PickerInit, PickerStep, PTL DEF Spec

(* Running means an active worker whose thread exists.                     *)
THEOREM RunningAlwaysHasWorker == Spec => []RunningHasWorker
<1>1. Shaped /\ PickerInv => RunningHasWorker
  BY DEF PickerInv
<1> QED
  BY <1>1, PickerCorrect, PTL

(* A thread of this incarnation that was told to stop is never heard.      *)
THEOREM StoppedAlwaysUnheard == Spec => []StoppedIsUnheard
<1>1. Shaped /\ PickerInv => StoppedIsUnheard
  BY DEF PickerInv
<1> QED
  BY <1>1, PickerCorrect, PTL

(* A picker that is not running shows no cursor and no hovered object.     *)
THEOREM IdleAlwaysDark == Spec => []IdleShowsNothing
<1>1. Shaped /\ PickerInv => IdleShowsNothing
  BY DEF PickerInv
<1> QED
  BY <1>1, PickerCorrect, PTL

-----------------------------------------------------------------------------
(* The recent list.                                                        *)

(* f says what is kept of each prefix of the list.                         *)
Kept(f, recent, hit, n) ==
    f = [i \in 0..n |-> IF i = 0 THEN <<>>
                        ELSE IF recent[i] = hit THEN f[i - 1] ELSE Append(f[i - 1], recent[i])]

LEMMA KeptExists ==
    ASSUME NEW recent, NEW hit, NEW n \in Nat
    PROVE  \E f : Kept(f, recent, hit, n)
<1> DEFINE After(s, i) == IF recent[i] = hit THEN s ELSE Append(s, recent[i])
           P == {m \in Nat : \E f : Kept(f, recent, hit, m)}
<1>0. ASSUME NEW f, NEW m
      PROVE  Kept(f, recent, hit, m)
               <=> f = [i \in 0..m |-> IF i = 0 THEN <<>> ELSE After(f[i - 1], i)]
  BY DEF Kept
<1> HIDE DEF After
<1>1. 0 \in P
  <2> DEFINE f == [i \in 0..0 |-> <<>>]
  <2>1. f = [i \in 0..0 |-> IF i = 0 THEN <<>> ELSE After(f[i - 1], i)]
    <3>1. \A i \in 0..0 : i = 0
      OBVIOUS
    <3> QED
      BY <3>1
  <2> HIDE DEF f
  <2>2. Kept(f, recent, hit, 0)
    BY <1>0, <2>1
  <2> QED
    BY <2>2
<1>2. ASSUME NEW m \in P PROVE m + 1 \in P
  <2>1. m \in Nat
    OBVIOUS
  <2>2. PICK f : Kept(f, recent, hit, m)
    OBVIOUS
  <2>3. f = [i \in 0..m |-> IF i = 0 THEN <<>> ELSE After(f[i - 1], i)]
    BY <1>0, <2>2
  <2> DEFINE g == [i \in 0..(m + 1) |-> IF i = m + 1 THEN After(f[m], m + 1) ELSE f[i]]
  <2>4. ASSUME NEW i \in 0..(m + 1)
        PROVE  g[i] = IF i = 0 THEN <<>> ELSE After(g[i - 1], i)
    <3>1. CASE i = m + 1
      <4>1. g[i] = After(f[m], m + 1) /\ i # 0 /\ i - 1 = m
        BY <3>1, <2>1
      <4>2. m \in 0..(m + 1) /\ m # m + 1
        BY <2>1
      <4>3. g[m] = f[m]
        BY <4>2
      <4> QED
        BY <3>1, <4>1, <4>3
    <3>2. CASE i # m + 1
      <4>1. i \in 0..m /\ g[i] = f[i]
        BY <3>2, <2>1
      <4>2. f[i] = IF i = 0 THEN <<>> ELSE After(f[i - 1], i)
        BY <2>3, <4>1
      <4>3. CASE i # 0
        <5>1. i - 1 \in 0..(m + 1) /\ i - 1 # m + 1
          BY <4>1, <4>3, <2>1
        <5>2. g[i - 1] = f[i - 1]
          BY <5>1
        <5> QED
          BY <4>1, <4>2, <4>3, <5>2
      <4> QED
        BY <4>1, <4>2, <4>3
    <3> QED
      BY <3>1, <3>2
  <2>5. g = [i \in 0..(m + 1) |-> g[i]]
    OBVIOUS
  <2> HIDE DEF g
  <2>6. g = [i \in 0..(m + 1) |-> IF i = 0 THEN <<>> ELSE After(g[i - 1], i)]
    BY <2>4, <2>5
  <2>7. Kept(g, recent, hit, m + 1)
    BY <1>0, <2>6
  <2> QED
    BY <2>1, <2>7
<1>3. P = Nat
  <2>1. P \subseteq Nat
    OBVIOUS
  <2> HIDE DEF P
  <2> QED
    BY <1>1, <1>2, <2>1, Induct
<1> QED
  BY <1>3

LEMMA WithoutIs ==
    ASSUME NEW recent, NEW hit, Len(recent) \in Nat
    PROVE  \E f : Kept(f, recent, hit, Len(recent)) /\ Without(recent, hit) = f[Len(recent)]
<1> DEFINE kept == CHOOSE f : f = [i \in 0..Len(recent) |->
                     IF i = 0 THEN <<>>
                     ELSE IF recent[i] = hit THEN f[i - 1] ELSE Append(f[i - 1], recent[i])]
<1>1. PICK f : Kept(f, recent, hit, Len(recent))
  BY KeptExists
<1>2. f = [i \in 0..Len(recent) |->
             IF i = 0 THEN <<>>
             ELSE IF recent[i] = hit THEN f[i - 1] ELSE Append(f[i - 1], recent[i])]
  BY <1>1 DEF Kept
<1>3. kept = [i \in 0..Len(recent) |->
                IF i = 0 THEN <<>>
                ELSE IF recent[i] = hit THEN kept[i - 1] ELSE Append(kept[i - 1], recent[i])]
  BY <1>2
<1>4. Without(recent, hit) = kept[Len(recent)]
  BY DEF Without
<1> HIDE DEF kept
<1>5. Kept(kept, recent, hit, Len(recent))
  BY <1>3 DEF Kept
<1> QED
  BY <1>4, <1>5

(* A list that names every object of it once, all of them among the first  *)
(* n of another list, and not the one left out.                            *)
Part(s, recent, hit, n) ==
    /\ s \in Seq(Hits) /\ IsInjective(s) /\ Len(s) <= n
    /\ \A j \in 1..Len(s) : s[j] # hit /\ \E i \in 1..n : s[j] = recent[i]

LEMMA PartMore ==
    ASSUME NEW recent \in Seq(Hits), IsInjective(recent), NEW hit, NEW n \in Nat,
           n + 1 <= Len(recent), NEW s, Part(s, recent, hit, n)
    PROVE  /\ Part(s, recent, hit, n + 1)
           /\ recent[n + 1] # hit => Part(Append(s, recent[n + 1]), recent, hit, n + 1)
<1>1. s \in Seq(Hits) /\ Len(s) \in Nat /\ Len(s) <= n /\ IsInjective(s)
  BY DEF Part
<1>2. Part(s, recent, hit, n + 1)
  BY <1>1 DEF Part
<1>3. ASSUME recent[n + 1] # hit PROVE Part(Append(s, recent[n + 1]), recent, hit, n + 1)
  <2> DEFINE t == Append(s, recent[n + 1])
  <2>1. recent[n + 1] \in Hits
    OBVIOUS
  <2>2. /\ t \in Seq(Hits) /\ Len(t) = Len(s) + 1 /\ t[Len(s) + 1] = recent[n + 1]
        /\ \A j \in 1..Len(s) : t[j] = s[j]
    BY <1>1, <2>1
  <2> HIDE DEF t
  <2>3. \A j \in 1..Len(s) : s[j] # recent[n + 1]
    <3> SUFFICES ASSUME NEW j \in 1..Len(s), s[j] = recent[n + 1] PROVE FALSE
      OBVIOUS
    <3>1. PICK i \in 1..n : s[j] = recent[i]
      BY DEF Part
    <3>2. i \in DOMAIN recent /\ n + 1 \in DOMAIN recent
      OBVIOUS
    <3>3. i = n + 1
      BY <3>1, <3>2 DEF IsInjective
    <3> QED
      BY <3>1, <3>3
  <2>4. \A j \in 1..Len(t) : j \in 1..Len(s) \/ j = Len(s) + 1
    BY <1>1, <2>2
  <2>5. IsInjective(t)
    <3> SUFFICES ASSUME NEW a \in 1..Len(t), NEW b \in 1..Len(t), t[a] = t[b] PROVE a = b
      BY <2>2 DEF IsInjective
    <3>1. CASE a \in 1..Len(s) /\ b \in 1..Len(s)
      BY <1>1, <2>2, <3>1 DEF IsInjective
    <3> QED
      BY <2>2, <2>3, <2>4, <3>1
  <2>6. \A j \in 1..Len(t) : t[j] # hit /\ \E i \in 1..(n + 1) : t[j] = recent[i]
    <3> SUFFICES ASSUME NEW j \in 1..Len(t)
                 PROVE  t[j] # hit /\ \E i \in 1..(n + 1) : t[j] = recent[i]
      OBVIOUS
    <3>1. CASE j \in 1..Len(s)
      BY <2>2, <3>1 DEF Part
    <3>2. CASE j = Len(s) + 1
      <4>1. n + 1 \in 1..(n + 1)
        OBVIOUS
      <4> QED
        BY <1>3, <2>2, <3>2, <4>1
    <3> QED
      BY <2>4, <3>1, <3>2
  <2>7. Part(t, recent, hit, n + 1)
    BY <1>1, <2>2, <2>5, <2>6 DEF Part
  <2> QED
    BY <2>7 DEF t
<1> QED
  BY <1>2, <1>3

(* What is left of a list without one of its objects.                      *)
LEMMA WithoutPart ==
    ASSUME NEW recent \in Seq(Hits), IsInjective(recent), NEW hit
    PROVE  Part(Without(recent, hit), recent, hit, Len(recent))
<1>1. Len(recent) \in Nat
  OBVIOUS
<1>2. PICK f : Kept(f, recent, hit, Len(recent)) /\ Without(recent, hit) = f[Len(recent)]
  BY <1>1, WithoutIs
<1> DEFINE P == {i \in Nat : i <= Len(recent) => Part(f[i], recent, hit, i)}
<1>3. 0 \in P
  <2>1. f[0] = <<>>
    <3>1. 0 \in 0..Len(recent)
      BY <1>1
    <3> QED
      BY <1>2, <3>1 DEF Kept
  <2>2. Part(<<>>, recent, hit, 0)
    BY DEF Part, IsInjective
  <2> QED
    BY <2>1, <2>2
<1>4. ASSUME NEW i \in P PROVE i + 1 \in P
  <2> SUFFICES ASSUME i + 1 <= Len(recent) PROVE Part(f[i + 1], recent, hit, i + 1)
    OBVIOUS
  <2>1. i \in Nat /\ i + 1 \in 0..Len(recent) /\ i + 1 # 0 /\ (i + 1) - 1 = i
    BY <1>1
  <2>2. Part(f[i], recent, hit, i)
    BY <1>1, <2>1
  <2>3. f[i + 1] = IF recent[i + 1] = hit THEN f[i] ELSE Append(f[i], recent[i + 1])
    BY <1>2, <2>1 DEF Kept
  <2> QED
    BY <2>1, <2>2, <2>3, PartMore
<1>5. P = Nat
  <2>1. P \subseteq Nat
    OBVIOUS
  <2> HIDE DEF P
  <2> QED
    BY <1>3, <1>4, <2>1, Induct
<1> QED
  BY <1>1, <1>2, <1>5

(* The recent list a new pick makes.                                       *)
ListOK(recent) == recent \in Seq(Hits) /\ IsInjective(recent) /\ Len(recent) <= MaxRecent

LEMMA RecentOK ==
    ASSUME NEW recent, ListOK(recent), NEW hit \in Hits
    PROVE  ListOK(Recent(recent, hit)) /\ (MaxRecent > 0 => Recent(recent, hit)[1] = hit)
<1> DEFINE rest == Without(recent, hit)
           all  == <<hit>> \o rest
           n    == IF Len(all) < MaxRecent THEN Len(all) ELSE MaxRecent
<1>1. /\ rest \in Seq(Hits) /\ IsInjective(rest)
      /\ \A j \in 1..Len(rest) : rest[j] # hit
  BY WithoutPart DEF ListOK, Part
<1>2. Recent(recent, hit) = SubSeq(all, 1, n)
  BY DEF Recent
<1> HIDE DEF rest
<1>3. /\ all \in Seq(Hits) /\ Len(all) = Len(rest) + 1 /\ all[1] = hit /\ Len(rest) \in Nat
      /\ \A j \in 1..Len(all) : j = 1 \/ (j - 1 \in 1..Len(rest) /\ all[j] = rest[j - 1])
  BY <1>1
<1> HIDE DEF all
<1>4. \A a, b \in 1..Len(all) : all[a] = all[b] => a = b
  <2> SUFFICES ASSUME NEW a \in 1..Len(all), NEW b \in 1..Len(all), all[a] = all[b] PROVE a = b
    OBVIOUS
  <2>1. CASE a = 1 \/ b = 1
    BY <1>1, <1>3, <2>1
  <2>2. CASE a # 1 /\ b # 1
    <3>1. rest[a - 1] = rest[b - 1] /\ a - 1 \in DOMAIN rest /\ b - 1 \in DOMAIN rest
      BY <1>1, <1>3, <2>2
    <3>2. a - 1 = b - 1
      BY <1>1, <3>1 DEF IsInjective
    <3> QED
      BY <1>3, <3>2
  <2> QED
    BY <2>1, <2>2
<1>5. n \in 0..Len(all) /\ n <= MaxRecent /\ (MaxRecent > 0 => n >= 1)
  BY <1>3, PickerAssumption
<1> HIDE DEF n
<1> DEFINE r == SubSeq(all, 1, n)
<1>6. r \in Seq(Hits) /\ Len(r) = n /\ \A i \in 1..n : r[i] = all[i]
  BY <1>3, <1>5, SubSeqProperties
<1> HIDE DEF r
<1>7. IsInjective(r)
  BY <1>3, <1>4, <1>5, <1>6 DEF IsInjective
<1>8. MaxRecent > 0 => r[1] = hit
  BY <1>3, <1>5, <1>6
<1> QED
  BY <1>2, <1>5, <1>6, <1>7, <1>8 DEF ListOK, r
-----------------------------------------------------------------------------
(* The snapshot keeps a good list: the hovered object is its first.        *)
Objects == Hits \cup {NoHit}
ListOf(s) ==
    /\ ListOK(s.recent) /\ s.hit \in Objects
    /\ s.hit # NoHit /\ MaxRecent > 0 => s.recent[1] = s.hit
SeenBy(threads) == \A w \in threads : w.seen.hit \in Objects

LEMMA RecentIs == RecentInv <=> ListOf(store.snap) /\ SeenBy(workers)
BY DEF RecentInv, RecentDistinct, ListOf, ListOK, SeenBy, Objects

LEMMA RecentIsNext == RecentInv' <=> ListOf(store'.snap) /\ SeenBy(workers')
BY DEF RecentInv, RecentDistinct, ListOf, ListOK, SeenBy, Objects

(* An operation that leaves the list and at most clears the hover.         *)
Leaves(s, r) == r.recent = s.recent /\ (r.hit = s.hit \/ r.hit = NoHit)

LEMMA LeavesList ==
    ASSUME NEW s, NEW r, ListOf(s), Leaves(s, r)
    PROVE  ListOf(r)
BY DEF ListOf, Leaves, Objects

LEMMA ClearingLeaves ==
    ASSUME NEW s, DOMAIN s = SnapFields
    PROVE  /\ Leaves(s, Unpreviewed(s)) /\ Leaves(s, Armed(s)) /\ Leaves(s, Idle(s))
           /\ Leaves(s, Cancelled(s)) /\ Leaves(s, Failed(s))
<1>1. /\ DOMAIN Unpreviewed(s) = SnapFields
      /\ Unpreviewed(s).recent = s.recent /\ Unpreviewed(s).hit = NoHit
  BY DEF Unpreviewed, SnapFields
<1>2. Leaves(s, Unpreviewed(s)) /\ Leaves(s, Armed(s))
  BY <1>1 DEF Leaves, Armed, SnapFields
<1>3. Leaves(s, Idle(s)) /\ Leaves(s, Cancelled(s)) /\ Leaves(s, Failed(s))
  BY <1>1 DEF Leaves, Idle, Cancelled, Failed, SnapFields
<1> QED
  BY <1>2, <1>3

LEMMA RetargetedLeaves ==
    ASSUME NEW s, NEW window, DOMAIN s = SnapFields
    PROVE  Leaves(s, Retargeted(s, window))
<1>1. CASE window # NoWindow
  BY <1>1 DEF Retargeted, SnapFields, Leaves
<1>2. CASE window = NoWindow
  <2> DEFINE c == [Unpreviewed(s) EXCEPT !.target = NoWindow]
  <2>1. DOMAIN c = SnapFields /\ c.recent = s.recent /\ c.hit = NoHit
    <3>1. /\ DOMAIN Unpreviewed(s) = SnapFields
          /\ Unpreviewed(s).recent = s.recent /\ Unpreviewed(s).hit = NoHit
      BY DEF Unpreviewed, SnapFields
    <3> QED
      BY <3>1 DEF SnapFields
  <2>2. Retargeted(s, window) = Armed(c) \/ Retargeted(s, window) = Idle(c)
    BY <1>2 DEF Retargeted
  <2> HIDE DEF c
  <2> QED
    BY <2>1, <2>2, ClearingLeaves DEF Leaves
<1> QED
  BY <1>1, <1>2

LEMMA ObservedList ==
    ASSUME NEW s, NEW window, NEW seen, DOMAIN s = SnapFields, ListOf(s), seen.hit \in Objects
    PROVE  ListOf(Observed(s, window, seen))
<1> DEFINE o == Observed(s, window, seen)
<1>1. /\ o.hit = seen.hit
      /\ o.recent = IF seen.hit = NoHit THEN s.recent ELSE Recent(s.recent, seen.hit)
  BY DEF Observed, SnapFields
<1> HIDE DEF o
<1>2. ASSUME seen.hit = NoHit PROVE ListOf(o)
  BY <1>1, <1>2 DEF ListOf, Objects
<1>3. ASSUME seen.hit # NoHit PROVE ListOf(o)
  <2>1. seen.hit \in Hits
    BY <1>3 DEF Objects
  <2>2. ListOK(Recent(s.recent, seen.hit))
        /\ (MaxRecent > 0 => Recent(s.recent, seen.hit)[1] = seen.hit)
    BY <2>1, RecentOK DEF ListOf
  <2> QED
    BY <1>1, <1>3, <2>2 DEF ListOf
<1>4. ListOf(o)
  BY <1>2, <1>3
<1> QED
  BY <1>4 DEF o

LEMMA PublishedList ==
    ASSUME NEW st, NEW s, ShapedStore(st), DOMAIN s = SnapFields, Publish(st, s), ListOf(s)
    PROVE  ListOf(store'.snap)
<1>1. Leaves(s, store'.snap)
  BY DEF Publish, SnapFields, StoreFields, ShapedStore, Leaves
<1> QED
  BY <1>1, LeavesList

LEMMA NewList == ASSUME NEW key PROVE ListOf(NewStore(key).snap)
<1>1. NewStore(key).snap.recent = <<>> /\ NewStore(key).snap.hit = NoHit
  BY DEF NewStore, Default
<1>2. ListOK(<<>>)
  BY PickerAssumption DEF ListOK, IsInjective
<1> QED
  BY <1>1, <1>2 DEF ListOf, Objects

LEMMA SignalledSeen == ASSUME Shaped, SeenBy(workers) PROVE SeenBy(Signalled)
<1>1. ASSUME NEW v \in workers PROVE [v EXCEPT !.cancelled = TRUE].seen = v.seen
  BY DEF Shaped, Thread, ThreadFields
<1> QED
  BY <1>1 DEF Signalled, SeenBy

-----------------------------------------------------------------------------
(* Every action keeps the list.                                            *)
LEMMA SeenStep ==
    ASSUME Shaped, SeenBy(workers), NEW w \in workers, NEW v, Step(w, v), v.seen.hit \in Objects
    PROVE  SeenBy(workers')
BY DEF Step, SeenBy

LEMMA EnsuredList ==
    ASSUME Shaped, ListOf(store.snap), NEW key
    PROVE  ShapedStore(Ensured(key)) /\ ListOf(Ensured(key).snap)
BY NewStoreShape, NewList DEF Ensured, Shaped

LEMMA ListSetTarget ==
    ASSUME Shaped, RecentInv, NEW window, SetTarget(window)
    PROVE  RecentInv'
<1> DEFINE st == Ensured(attached)
           s  == [st.snap EXCEPT !.session = st.session]
           r  == Retargeted(s, window)
<1>1. Publish(st, r) /\ (workers' = workers \/ workers' = Signalled)
  BY DEF SetTarget
<1>2. ShapedStore(st) /\ ListOf(st.snap)
  BY EnsuredList, RecentIs
<1> HIDE DEF st
<1>3. DOMAIN s = SnapFields /\ Leaves(st.snap, s)
  BY <1>2 DEF ShapedStore, SnapFields, Leaves
<1> HIDE DEF s
<1>4. Leaves(s, r) /\ DOMAIN r = SnapFields
  BY <1>3, RetargetedLeaves, RetargetedShape
<1> HIDE DEF r
<1>5. ListOf(store'.snap)
  BY <1>1, <1>2, <1>3, <1>4, LeavesList, PublishedList
<1>6. SeenBy(workers')
  BY <1>1, SignalledSeen, RecentIs
<1> QED
  BY <1>5, <1>6, RecentIsNext

LEMMA ListStart ==
    ASSUME Shaped, RecentInv, Start \/ StartAgain
    PROVE  RecentInv'
<1>1. PICK st : Publish(st, Armed(store.snap)) /\ ShapedStore(st)
  <2> DEFINE st == [store EXCEPT !.next = store.next + 1, !.active = store.next + 1]
  <2>1. ShapedStore(st)
    BY DEF Shaped, ShapedStore, StoreFields
  <2>2. Publish(st, Armed(store.snap)) \/ Publish(store, Armed(store.snap))
    BY DEF Start, StartAgain
  <2> HIDE DEF st
  <2> QED
    BY <2>1, <2>2 DEF Shaped
<1>2. DOMAIN store.snap = SnapFields /\ ListOf(store.snap) /\ SeenBy(workers)
  BY RecentIs DEF Shaped, ShapedStore
<1>3. DOMAIN Armed(store.snap) = SnapFields /\ ListOf(Armed(store.snap))
  BY <1>2, ArmedShape, ClearingLeaves, LeavesList
<1>4. ListOf(store'.snap)
  BY <1>1, <1>3, PublishedList
<1>5. SeenBy(workers')
  BY <1>2 DEF Start, StartAgain, SeenBy, Nothing, Objects
<1> QED
  BY <1>4, <1>5, RecentIsNext

LEMMA ListReplaced ==
    ASSUME Shaped, RecentInv, StartWithoutWindow \/ AttachResets
    PROVE  RecentInv'
<1>1. PICK key : store' = NewStore(key) /\ workers' = Signalled
  BY DEF StartWithoutWindow, AttachResets
<1>2. ListOf(store'.snap)
  BY <1>1, NewList
<1> QED
  BY <1>1, <1>2, SignalledSeen, RecentIs, RecentIsNext

(* A command or a thread that ends the picking clears the hover.           *)
LEMMA ListDarkens ==
    ASSUME NEW st, ShapedStore(st), ListOf(st.snap),
           \/ Publish(Stopped(st), Cancelled(st.snap))
           \/ Publish(Stopped(st), Failed(st.snap))
           \/ Publish(Stopped(st), Idle(st.snap))
    PROVE  ListOf(store'.snap)
<1>1. DOMAIN st.snap = SnapFields
  BY DEF ShapedStore
<1>2. PICK s : Publish(Stopped(st), s) /\ DOMAIN s = SnapFields /\ Leaves(st.snap, s)
  BY <1>1, DarkShape, ClearingLeaves
<1>3. ListOf(s) /\ ShapedStore(Stopped(st))
  BY <1>2, LeavesList, StoppedShape
<1> QED
  BY <1>2, <1>3, PublishedList

LEMMA ListStop ==
    ASSUME Shaped, RecentInv, Stop
    PROVE  RecentInv'
<1> DEFINE st == Ensured(attached)
<1>1. Publish(Stopped(st), Cancelled(st.snap)) /\ workers' = Signalled
  BY DEF Stop
<1>2. ShapedStore(st) /\ ListOf(st.snap)
  BY EnsuredList, RecentIs
<1> HIDE DEF st
<1>3. ListOf(store'.snap)
  BY <1>1, <1>2, ListDarkens
<1> QED
  BY <1>1, <1>3, SignalledSeen, RecentIs, RecentIsNext

(* What a thread has seen is what it polled.                               *)
LEMMA ListThread ==
    ASSUME Shaped, RecentInv, NEW w \in workers,
           WorkerLoops(w) \/ WorkerPolls(w) \/ WorkerObserves(w)
    PROVE  RecentInv'
<1>1. /\ Thread(w) /\ DOMAIN store.snap = SnapFields /\ ShapedStore(store)
      /\ ListOf(store.snap) /\ SeenBy(workers) /\ w.seen.hit \in Objects
  BY RecentIs DEF Shaped, ShapedStore, SeenBy
<1>2. PICK v : Step(w, v) /\ v.seen.hit \in Objects
  <2>1. ASSUME NEW end PROVE [w EXCEPT !.pc = end].seen = w.seen
    BY <1>1 DEF Thread, ThreadFields
  <2>2. [w EXCEPT !.pc = "poll", !.target = store.snap.target].seen = w.seen
    BY <1>1 DEF Thread, ThreadFields
  <2>3. ASSUME NEW seen PROVE [w EXCEPT !.pc = "observe", !.seen = seen].seen = seen
    BY <1>1 DEF Thread, ThreadFields
  <2>4. [w EXCEPT !.pc = "loop", !.target = NoWindow, !.seen = Nothing].seen = Nothing
    BY <1>1 DEF Thread, ThreadFields
  <2>5. Nothing.hit \in Objects /\ \A seen \in Seen : seen.hit \in Objects
    BY DEF Nothing, Seen, Objects
  <2>6. CASE WorkerLoops(w)
    BY <1>1, <2>1, <2>2, <2>6 DEF WorkerLoops
  <2>7. CASE WorkerPolls(w)
    BY <1>1, <2>1, <2>3, <2>5, <2>7 DEF WorkerPolls
  <2>8. CASE WorkerObserves(w)
    BY <2>4, <2>5, <2>8 DEF WorkerObserves
  <2> QED
    BY <2>6, <2>7, <2>8
<1>3. SeenBy(workers')
  BY <1>1, <1>2, SeenStep
<1>4. ListOf(store'.snap)
  <2> DEFINE s == [store.snap EXCEPT !.session = store.session]
             o == Observed(s, w.target, w.seen)
  <2>1. store' = store \/ Publish(store, o)
    BY DEF WorkerLoops, WorkerPolls, WorkerObserves, Unheard
  <2>2. DOMAIN s = SnapFields /\ Leaves(store.snap, s)
    BY <1>1 DEF SnapFields, Leaves
  <2> HIDE DEF s
  <2>3. DOMAIN o = SnapFields /\ ListOf(o)
    BY <1>1, <2>2, LeavesList, ObservedList, ObservedShape
  <2> HIDE DEF o
  <2> QED
    BY <1>1, <2>1, <2>3, PublishedList
<1> QED
  BY <1>3, <1>4, RecentIsNext

LEMMA ListEnds ==
    ASSUME Shaped, RecentInv, NEW w \in workers,
           WorkerCancels(w) \/ WorkerFails(w) \/ WorkerFinishes(w)
    PROVE  RecentInv'
<1> DEFINE Done(v) == [v EXCEPT !.pc = IF v.id = w.id /\ v.inc = w.inc THEN "finish" ELSE v.pc]
<1>1. /\ Thread(w) /\ ShapedStore(store) /\ ListOf(store.snap) /\ SeenBy(workers)
      /\ SeenBy(Signalled) /\ w.seen.hit \in Objects
  BY RecentIs, SignalledSeen DEF Shaped, SeenBy
<1>2. ListOf(store'.snap)
  BY <1>1, ListDarkens DEF WorkerCancels, WorkerFails, WorkerFinishes, Unheard
<1>3. SeenBy(workers')
  <2>1. [w EXCEPT !.pc = "finish"].seen = w.seen
    BY <1>1 DEF Thread, ThreadFields
  <2>2. \A v \in Signalled : Done(v).seen = v.seen
    BY SignalledThreads DEF OldThreads, Thread, ThreadFields
  <2>3. CASE WorkerCancels(w)
    <3>1. Step(w, [w EXCEPT !.pc = "finish"]) \/ workers' = {Done(v) : v \in Signalled}
      BY <2>3 DEF WorkerCancels
    <3> HIDE DEF Done
    <3>2. CASE Step(w, [w EXCEPT !.pc = "finish"])
      BY <1>1, <2>1, <3>2, SeenStep
    <3>3. CASE workers' = {Done(v) : v \in Signalled}
      <4> SUFFICES ASSUME NEW x \in workers' PROVE x.seen.hit \in Objects
        BY DEF SeenBy
      <4>1. PICK v \in Signalled : x = Done(v)
        BY <3>3
      <4> QED
        BY <1>1, <2>2, <4>1 DEF SeenBy
    <3> QED
      BY <3>1, <3>2, <3>3
  <2>4. CASE WorkerFails(w) \/ WorkerFinishes(w)
    BY <1>1, <2>4 DEF WorkerFails, WorkerFinishes, SeenBy
  <2> QED
    BY <2>3, <2>4
<1> QED
  BY <1>2, <1>3, RecentIsNext

LEMMA RecentInit == Init => RecentInv
<1> SUFFICES ASSUME Init PROVE RecentInv
  OBVIOUS
<1>1. store = NewStore(NoSession) /\ workers = {}
  BY DEF Init
<1> QED
  BY <1>1, NewList, RecentIs DEF SeenBy

LEMMA RecentStep == Shaped /\ RecentInv /\ [Next]_vars => RecentInv'
<1> SUFFICES ASSUME Shaped, RecentInv, [Next]_vars PROVE RecentInv'
  OBVIOUS
<1>1. CASE UNCHANGED <<store, workers>>
  BY <1>1, RecentIs, RecentIsNext
<1>2. CASE UNCHANGED vars
  BY <1>1, <1>2 DEF vars
<1>3. ASSUME NEW w \in workers, WorkerNext(w)
      PROVE  RecentInv'
  BY <1>3, ListThread, ListEnds DEF WorkerNext
<1>4. CASE AttachBegins \/ \E key \in Keys : AttachEnds(key)
  BY <1>1, <1>4 DEF AttachBegins, AttachEnds
<1> QED
  BY <1>2, <1>3, <1>4, ListSetTarget, ListStart, ListReplaced, ListStop DEF Next

(* The list of recent picks names every object once, begins with the one   *)
(* under the cursor and keeps to its cap, for every sequence of picks,     *)
(* whatever the cap, the windows and the number of threads.                *)
THEOREM RecentAlwaysDistinct == Spec => []RecentDistinct
<1>1. RecentInv => RecentDistinct
  BY DEF RecentInv
<1>2. Spec => []RecentInv
  <2>1. Shaped /\ PickerInv => Shaped
    OBVIOUS
  <2> QED
    BY <2>1, PickerCorrect, RecentInit, RecentStep, PTL DEF Spec
<1> QED
  BY <1>1, <1>2, PTL
===============================================================================
