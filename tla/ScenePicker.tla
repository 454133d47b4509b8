----------------------------- MODULE ScenePicker -----------------------------
(***************************************************************************)
(* The scene mouse picker: its store (state/scene_store.rs,                *)
(* SceneMousePickerState), and the commands and the polling thread of      *)
(* kernel/scene/picker.rs.                                                 *)
(*                                                                         *)
(* Every method of the store runs under one mutex and is one action. The   *)
(* poll of the game window, the cursor and the Escape key happens outside  *)
(* the lock. Commands and the attach run on the main thread.               *)
(***************************************************************************)
EXTENDS Naturals, Sequences, FiniteSets, Functions

CONSTANTS
    Windows,        \* windows of the game
    NoWindow,       \* no window selected
    Hits,           \* objects the cursor can hit
    NoHit,          \* nothing under the cursor
    Sessions,       \* runtime session keys
    NoSession,      \* the key None
    MaxRecent,      \* MAX_RECENT_SCENE_MOUSE_PICKS
    MaxRevision,    \* bound: commands are given below this revision
    MaxObserved,    \* bound: the game is observed below this revision
    MaxResets       \* bound: resets of a store in use

ASSUME PickerAssumption ==
    /\ NoWindow \notin Windows /\ NoHit \notin Hits /\ NoSession \notin Sessions
    /\ MaxRecent \in Nat /\ MaxRevision \in Nat /\ MaxObserved \in Nat /\ MaxResets \in Nat

VARIABLES
    store,        \* SceneMousePickerStore
    workers,      \* run_scene_mouse_picker_worker threads
    attached,     \* session key of the workspace lifecycle
    attachPhase,  \* progress of the attach command on the main thread
    incarnation   \* history: how many times the store was replaced

vars == <<store, workers, attached, attachPhase, incarnation>>

-----------------------------------------------------------------------------
Keys   == Sessions \cup {NoSession}
Status == {"idle", "armed", "observing", "cancelled", "error"}

(* RuntimeSceneMousePickerSnapshot; `inside' is cursor_inside_client and   *)
(* stands for the cursor positions.                                        *)
Snapshot == [session : Keys, target : Windows \cup {NoWindow}, running : BOOLEAN,
             status : Status, inside : BOOLEAN, hit : Hits \cup {NoHit},
             recent : Seq(Hits), rev : Nat]
Default(key) == [session |-> key, target |-> NoWindow, running |-> FALSE, status |-> "idle",
                 inside |-> FALSE, hit |-> NoHit, recent |-> <<>>, rev |-> 0]

(* The store; active is 0 when no worker is active. The cancel flag the    *)
(* store holds is always the one of its active worker: it is the field     *)
(* `cancelled' of that thread.                                             *)
Store == [session : Keys, snap : Snapshot, next : Nat, active : Nat]
NewStore(key) == [session |-> key, snap |-> Default(key), next |-> 0, active |-> 0]

Seen   == [inside : BOOLEAN, hit : Hits \cup {NoHit}]
Nothing == [inside |-> FALSE, hit |-> NoHit]
Worker == [id : Nat, session : Keys, inc : Nat, cancelled : BOOLEAN,
           pc : {"loop", "poll", "observe", "cancel", "fail", "finish"},
           target : Windows \cup {NoWindow}, seen : Seen]

TypeOK ==
    /\ store \in Store
    /\ workers \subseteq Worker
    /\ attached \in Keys
    /\ attachPhase \in {"idle", "begun", "reset"}
    /\ incarnation \in Nat

Init ==
    /\ store = NewStore(NoSession)
    /\ workers = {}
    /\ attached = NoSession /\ attachPhase = "idle"
    /\ incarnation = 0

-----------------------------------------------------------------------------
Unpreviewed(s)     == [s EXCEPT !.inside = FALSE, !.hit = NoHit]
Idle(s)            == [Unpreviewed(s) EXCEPT !.running = FALSE, !.status = "idle"]
Armed(s)           == [s EXCEPT !.running = TRUE, !.status = "armed"]
Cancelled(s)       == [Unpreviewed(s) EXCEPT !.running = FALSE, !.status = "cancelled"]
(* Mutant of Failed: the preview is not cleared.                           *)
FailedWithPreview(s) == [s EXCEPT !.running = FALSE, !.status = "error"]
Failed(s)          == [Unpreviewed(s) EXCEPT !.running = FALSE, !.status = "error"]

(* Mutant of Recent: an object picked again is not removed first.          *)
RecentWithRepeats(recent, hit) ==
    SubSeq(<<hit>> \o recent, 1, IF Len(recent) < MaxRecent THEN Len(recent) + 1 ELSE MaxRecent)
(* The picks of the list but one object: retain.                           *)
Without(recent, hit) ==
    LET kept[i \in 0..Len(recent)] ==
          IF i = 0 THEN <<>>
          ELSE IF recent[i] = hit THEN kept[i - 1] ELSE Append(kept[i - 1], recent[i])
    IN  kept[Len(recent)]
(* push_recent_scene_mouse_pick                                            *)
Recent(recent, hit) ==
    LET all == <<hit>> \o Without(recent, hit)
    IN  SubSeq(all, 1, IF Len(all) < MaxRecent THEN Len(all) ELSE MaxRecent)

Observed(s, window, seen) ==
    [s EXCEPT !.target = window, !.inside = seen.inside, !.hit = seen.hit,
              !.recent = IF seen.hit = NoHit THEN @ ELSE Recent(@, seen.hit),
              !.running = TRUE,
              !.status = IF seen.inside THEN "observing" ELSE "armed"]

Retargeted(s, window) ==
    IF window # NoWindow THEN [s EXCEPT !.target = window]
    ELSE LET cleared == [Unpreviewed(s) EXCEPT !.target = NoWindow]
         IN  IF s.running THEN Armed(cleared) ELSE Idle(cleared)

(* The snapshot takes the next revision and is stored.                     *)
Publish(st, s) == store' = [st EXCEPT !.snap = [s EXCEPT !.rev = @ + 1]]

(* The active worker of the store sees its cancel flag set.                *)
Signalled == {IF w.inc = incarnation /\ w.id = store.active THEN [w EXCEPT !.cancelled = TRUE] ELSE w
                : w \in workers}

(* ensure_scene_mouse_picker_session. A store without a key never had a    *)
(* worker, so replacing it does not begin a new incarnation.               *)
Ensured(key) == IF store.session = key THEN store ELSE NewStore(key)
Renewed(key) ==
    incarnation' = IF store.session \in {key, NoSession} THEN incarnation ELSE incarnation + 1

-----------------------------------------------------------------------------
(* Commands of the page; `Ready' is the main thread being free.            *)
Ready == attachPhase = "idle" /\ store.snap.rev < MaxRevision

SetTarget(window) ==
    /\ Ready /\ attached # NoSession
    /\ Renewed(attached)
    /\ LET st == Ensured(attached)
       IN  Publish(st, Retargeted([st.snap EXCEPT !.session = st.session], window))
    /\ workers' = IF store.session = attached THEN workers ELSE Signalled
    /\ UNCHANGED <<attached, attachPhase>>

(* start, without a worker: one is spawned. Ensuring the session is no     *)
(* separate case: a store of another session has no window to start on.    *)
Start ==
    /\ Ready /\ attached # NoSession
    /\ store.session = attached /\ store.snap.target # NoWindow
    /\ store.active = 0
    /\ UNCHANGED incarnation
    /\ Publish([store EXCEPT !.next = @ + 1, !.active = store.next + 1], Armed(store.snap))
    /\ workers' = workers \cup
         {[id |-> store.next + 1, session |-> attached, inc |-> incarnation, cancelled |-> FALSE,
           pc |-> "loop", target |-> NoWindow, seen |-> Nothing]}
    /\ UNCHANGED <<attached, attachPhase>>

StartAgain ==
    /\ Ready /\ attached # NoSession
    /\ store.session = attached /\ store.snap.target # NoWindow
    /\ store.active # 0
    /\ UNCHANGED incarnation
    /\ Publish(store, Armed(store.snap))
    /\ UNCHANGED <<workers, attached, attachPhase>>

(* start on a store of another session replaces it and then finds no       *)
(* window: the command fails and emits nothing.                            *)
StartWithoutWindow ==
    /\ Ready /\ attached # NoSession
    /\ store.session # attached
    /\ Renewed(attached)
    /\ store' = NewStore(attached) /\ workers' = Signalled
    /\ UNCHANGED <<attached, attachPhase>>

(* Mutant of Stopped: the worker stays the active one.                     *)
StoppedButActive(st) == st
Stopped(st) == [st EXCEPT !.active = 0]

Stop ==
    /\ Ready
    /\ Renewed(attached)
    /\ Publish(Stopped(Ensured(attached)), Cancelled(Ensured(attached).snap))
    /\ workers' = Signalled
    /\ UNCHANGED <<attached, attachPhase>>

-----------------------------------------------------------------------------
(* run_scene_mouse_picker_worker                                           *)
Step(w, v) == workers' = (workers \ {w}) \cup {v}

(* Mutant of Hears: the id of the worker is not compared.                  *)
HearsAnyWorker(w) == store.session = w.session
Hears(w) == store.session = w.session /\ store.active = w.id

(* The loop condition and current_target_window. A flag set between the    *)
(* two is seen as a worker that is no longer active.                       *)
Continues(w) == ~w.cancelled /\ Hears(w) /\ store.snap.target # NoWindow

(* Mutant of WorkerLoops: the thread waits for a window to be selected.    *)
WorkerWaitsForWindow(w) ==
    /\ w.pc = "loop"
    /\ Hears(w) => store.snap.target # NoWindow
    /\ Step(w, IF Continues(w) THEN [w EXCEPT !.pc = "poll", !.target = store.snap.target]
                               ELSE [w EXCEPT !.pc = "finish"])
    /\ UNCHANGED <<store, attached, attachPhase, incarnation>>
WorkerLoops(w) ==
    /\ w.pc = "loop"
    /\ Step(w, IF Continues(w) THEN [w EXCEPT !.pc = "poll", !.target = store.snap.target]
                               ELSE [w EXCEPT !.pc = "finish"])
    /\ UNCHANGED <<store, attached, attachPhase, incarnation>>

(* The window may be minimised or the cursor outside it (nothing seen),    *)
(* the window may be gone or the pick fail, the user may press Escape.     *)
WorkerPolls(w) ==
    /\ w.pc = "poll"
    /\ \/ /\ store.snap.rev < MaxObserved
          /\ \E seen \in Seen : /\ seen.hit # NoHit => seen.inside
                                /\ Step(w, [w EXCEPT !.pc = "observe", !.seen = seen])
       \/ \E end \in {"cancel", "fail"} : Step(w, [w EXCEPT !.pc = end])
    /\ UNCHANGED <<store, attached, attachPhase, incarnation>>

(* A call of the store the worker is no longer entitled to.                *)
Unheard(w) == ~Hears(w) /\ UNCHANGED store

WorkerObserves(w) ==
    /\ w.pc = "observe"
    /\ UNCHANGED incarnation
    /\ \/ Unheard(w)
       \/ Hears(w) /\ Publish(store, Observed([store.snap EXCEPT !.session = store.session],
                                              w.target, w.seen))
    /\ Step(w, [w EXCEPT !.pc = "loop", !.target = NoWindow, !.seen = Nothing])
    /\ UNCHANGED <<attached, attachPhase>>

(* Escape. The cancel flag the store holds is the one of its active worker,*)
(* which need not be this thread.                                          *)
WorkerCancels(w) ==
    /\ w.pc = "cancel"
    /\ UNCHANGED incarnation
    /\ \/ Unheard(w) /\ Step(w, [w EXCEPT !.pc = "finish"])
       \/ /\ Hears(w) /\ Publish(Stopped(store), Cancelled(store.snap))
          /\ workers' = {[v EXCEPT !.pc = IF v.id = w.id /\ v.inc = w.inc THEN "finish" ELSE @]
                           : v \in Signalled}
    /\ UNCHANGED <<attached, attachPhase>>

WorkerFails(w) ==
    /\ w.pc = "fail"
    /\ UNCHANGED incarnation
    /\ \/ Unheard(w) /\ workers' = workers \ {w}
       \/ /\ Hears(w) /\ Publish(Stopped(store), Failed(store.snap))
          /\ workers' = {v \in Signalled : v.id # w.id \/ v.inc # w.inc}
    /\ UNCHANGED <<attached, attachPhase>>

WorkerFinishes(w) ==
    /\ w.pc = "finish"
    /\ UNCHANGED incarnation
    /\ \/ Unheard(w)
       \/ Hears(w) /\ Publish(Stopped(store), Idle(store.snap))
    /\ workers' = workers \ {w}
    /\ UNCHANGED <<attached, attachPhase>>

WorkerNext(w) ==
    \/ WorkerLoops(w)   \/ WorkerPolls(w) \/ WorkerObserves(w)
    \/ WorkerCancels(w) \/ WorkerFails(w) \/ WorkerFinishes(w)

-----------------------------------------------------------------------------
(* attach_to_process on the main thread.                                   *)
AttachBegins ==
    /\ attachPhase = "idle" /\ (store.session = NoSession \/ incarnation < MaxResets)
    /\ attachPhase' = "begun" /\ attached' = NoSession
    /\ UNCHANGED <<store, workers, incarnation>>

(* SceneMousePickerState::reset                                            *)
AttachResets ==
    /\ attachPhase = "begun"
    /\ workers' = Signalled
    /\ store' = NewStore(NoSession)
    /\ Renewed(NoSession)
    /\ attachPhase' = "reset"
    /\ UNCHANGED attached

AttachEnds(key) ==
    /\ attachPhase = "reset"
    /\ attachPhase' = "idle" /\ attached' = key
    /\ UNCHANGED <<store, workers, incarnation>>

Next ==
    \/ \E window \in Windows \cup {NoWindow} : SetTarget(window)
    \/ Start \/ StartAgain \/ StartWithoutWindow \/ Stop
    \/ \E w \in workers : WorkerNext(w)
    \/ AttachBegins \/ AttachResets \/ \E key \in Keys : AttachEnds(key)

Spec == Init /\ [][Next]_vars

(* The blocking pool runs every polling thread.                            *)
WorkerThread(n, id) == \E w \in workers : w.inc = n /\ w.id = id /\ WorkerNext(w)
FairSpec ==
    /\ Spec
    /\ \A n \in 0..MaxResets, id \in 1..MaxRevision : WF_vars(WorkerThread(n, id))

-----------------------------------------------------------------------------
(* The snapshot says running exactly while a worker is active, and then    *)
(* its thread is there: the picker never looks alive with nobody polling,  *)
(* whatever order stop, Escape, a lost window and a re-attach come in.     *)
RunningHasWorker ==
    /\ store.snap.running <=> store.active # 0
    /\ store.active # 0 => \E w \in workers : w.inc = incarnation /\ w.id = store.active

(* A thread of this incarnation that was told to stop changes nothing any  *)
(* more.                                                                   *)
StoppedIsUnheard == \A w \in workers : w.inc = incarnation /\ w.cancelled => ~Hears(w)

(* A picker that is not running shows no cursor and no hover: an           *)
(* observation made before the stop does not come in after it.             *)
IdleShowsNothing == ~store.snap.running => ~store.snap.inside /\ store.snap.hit = NoHit

(* The recent list names an object once, the hovered one first, and keeps  *)
(* to its cap.                                                             *)
RecentDistinct ==
    LET recent == store.snap.recent
    IN  /\ IsInjective(recent) /\ Len(recent) <= MaxRecent
        /\ store.snap.hit # NoHit /\ MaxRecent > 0 => recent[1] = store.snap.hit

(* A picker without a window does not stay armed.                          *)
WindowlessEnds ==
    (store.snap.running /\ store.snap.target = NoWindow)
        ~> ~(store.snap.running /\ store.snap.target = NoWindow)

-----------------------------------------------------------------------------
(* What the safety properties rest on: the threads of this incarnation     *)
(* belong to the session of the store and have ids it has given out.       *)
ThreadsOfStore ==
    /\ store.active <= store.next
    /\ \A w \in workers :
         /\ w.id # 0 /\ w.inc <= incarnation
         /\ w.inc = incarnation =>
               w.id <= store.next /\ w.session = store.session /\ store.session # NoSession

PickerInv == ThreadsOfStore /\ RunningHasWorker /\ StoppedIsUnheard /\ IdleShowsNothing

(* What a thread has seen is an object or nothing; with it the recent list *)
(* stays a list of objects.                                                *)
RecentInv ==
    /\ store.snap.recent \in Seq(Hits) /\ store.snap.hit \in Hits \cup {NoHit}
    /\ RecentDistinct
    /\ \A w \in workers : w.seen.hit \in Hits \cup {NoHit}
=============================================================================
