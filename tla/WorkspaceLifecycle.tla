------------------------- MODULE WorkspaceLifecycle -------------------------
(***************************************************************************)
(* Attaching to a game and loading its metadata: the workspace of the      *)
(* backend (state/workspace_store.rs, kernel/workspace, kernel/metadata,   *)
(* kernel/runtime/access.rs) and the application store of the front end    *)
(* (app/state), which runs an attach as one thunk of several calls.        *)
(*                                                                         *)
(* Attach and get_workspace_lifecycle are synchronous commands: the main   *)
(* thread takes them one at a time, in the order of "calls", and what they *)
(* return arrives in that order in "answers".  A metadata load and the     *)
(* requests for runtime fields run on the blocking pool.  Each change of   *)
(* the backend is a step of its own.                                       *)
(*                                                                         *)
(* A process stands for a game and its metadata source.  The games have a  *)
(* runtime the program knows, so their capabilities never block a page.    *)
(***************************************************************************)
EXTENDS Naturals, Sequences

CONSTANTS
  Processes,     \* games that can be attached to
  NoProcess,     \* no process
  MaxAttaches,   \* bound: attach thunks
  MaxRequests,   \* bound: requests for runtime fields
  MaxRefreshes   \* bound: refreshes because the window got the focus

ASSUME ConstantsAssumption ==
  /\ NoProcess \notin Processes
  /\ MaxAttaches \in Nat /\ MaxRequests \in Nat /\ MaxRefreshes \in Nat

VARIABLES
  lifecycle,   \* WorkspaceState.lifecycle
  metadata,    \* the game of WorkspaceState.metadata_snapshot
  session,     \* the game of the runtime session in RuntimeKernelState
  attaching,   \* where attach_to_process is on the main thread
  loads,       \* load_all_metadata of each thunk
  requests,    \* requests for runtime fields
  calls,       \* synchronous commands not handled yet
  answers,     \* what they returned, on its way to the page
  page,        \* workspace.lifecycle of the store
  analysis,    \* analysis.analysisSnapshot
  loading,     \* analysis.loadingSnapshot
  overlay,     \* the game of analysis.runtimeOverlays of a class
  asking,      \* analysis.loadingRuntimeByKey of that class
  thunks,      \* calls of attachToProcess
  refreshed,   \* history: refreshes so far
  crossed      \* history: a process was selected while an attach was under way

backend == <<lifecycle, metadata, session, attaching>>
transit == <<loads, requests, calls, answers>>
store   == <<page, analysis, loading, overlay, asking, thunks>>
vars    == <<lifecycle, metadata, session, attaching, loads, requests, calls, answers,
             page, analysis, loading, overlay, asking, thunks, refreshed, crossed>>

Attaches == 1..MaxAttaches
Requests == 1..MaxRequests
Focus == 0             \* the caller of a refresh that no thunk awaits
SomeProcess == Processes \cup {NoProcess}

-----------------------------------------------------------------------------
\* WorkspaceLifecycleState; "rt" is the status of its runtime session.

Lifecycle == [status : {"detached", "attaching", "attached", "loading", "ready", "error"},
              process : SomeProcess, snapshot : BOOLEAN,
              rt : {"idle", "starting", "ready", "error"}, connected : BOOLEAN]

Unattached(status, rt) ==
  [status |-> status, process |-> NoProcess, snapshot |-> FALSE, rt |-> rt, connected |-> FALSE]

Detached == Unattached("detached", "idle")
Attaching == Unattached("attaching", "starting")

AttachedTo(p) ==
  [status |-> "attached", process |-> p, snapshot |-> FALSE, rt |-> "starting",
   connected |-> FALSE]

Loading(l) ==
  [l EXCEPT !.status = "loading", !.snapshot = FALSE, !.rt = "starting", !.connected = FALSE]

Ready(l, connected) ==
  [l EXCEPT !.status = "ready", !.snapshot = TRUE, !.connected = connected,
            !.rt = IF connected THEN "ready" ELSE "starting"]

\* mark_runtime_error: the snapshot stays.
Faulted(l) == [l EXCEPT !.status = "error", !.rt = "error", !.connected = FALSE]

\* fail_snapshot_load; errors of a metadata load never drop the runtime session.
LoadFailed(l) ==
  IF l.process = NoProcess THEN Faulted(l)
  ELSE [l EXCEPT !.status = "attached", !.snapshot = FALSE]

\* record_runtime_heartbeat.
Alive(l) ==
  [l EXCEPT !.connected = TRUE,
            !.rt = IF l.snapshot THEN "ready"
                   ELSE IF l.process # NoProcess THEN "starting" ELSE "idle"]

-----------------------------------------------------------------------------
\* The main thread.

Callers == {Focus} \cup Attaches
Calls == [kind : {"attach", "lifecycle"}, thunk : Callers, process : SomeProcess]
Answers == [call : Calls, ok : BOOLEAN, state : Lifecycle]

Call(kind, thunk, process) == [kind |-> kind, thunk |-> thunk, process |-> process]
Answer(call, ok, state) == [call |-> call, ok |-> ok, state |-> state]

Calling(kind) == calls # <<>> /\ Head(calls).kind = kind

\* The command at the head of the queue returns.
Returns(ok, state) ==
  /\ calls' = Tail(calls)
  /\ answers' = Append(answers, Answer(Head(calls), ok, state))

\* get_workspace_lifecycle.
GetsLifecycle ==
  /\ Calling("lifecycle") /\ attaching = "idle"
  /\ Returns(TRUE, lifecycle)
  /\ UNCHANGED <<backend, loads, requests, store, refreshed, crossed>>

\* A step of attach_to_process.
AttachStep(from, to) == Calling("attach") /\ attaching = from /\ attaching' = to

AttachBegins ==
  /\ AttachStep("idle", "begun")
  /\ lifecycle' = Attaching
  /\ UNCHANGED <<metadata, session, transit, store, refreshed, crossed>>

\* Metadata is kept if the lifecycle still has the process it was read from.
Kept(p) == IF lifecycle.process = p THEN metadata ELSE NoProcess

\* The process is there, or it is not.
AttachFinds ==
  /\ AttachStep("begun", "found")
  /\ metadata' = Kept(Head(calls).process)
  /\ UNCHANGED <<lifecycle, session, transit, store, refreshed, crossed>>

AttachMisses ==
  /\ AttachStep("begun", "missed")
  /\ metadata' = NoProcess
  /\ UNCHANGED <<lifecycle, session, transit, store, refreshed, crossed>>

\* Mutant of AttachResets: the runtime session is forgotten about.
AttachKeepsSession ==
  /\ \/ AttachStep("found", "reset")
     \/ AttachStep("missed", "lost")
  /\ UNCHANGED <<lifecycle, metadata, session, transit, store, refreshed, crossed>>
\* reset_runtime_backing_state, of finish_attach and of fail_attach.
AttachResets ==
  /\ \/ AttachStep("found", "reset")
     \/ AttachStep("missed", "lost")
  /\ session' = NoProcess
  /\ UNCHANGED <<lifecycle, metadata, transit, store, refreshed, crossed>>

AttachFails ==
  /\ AttachStep("lost", "idle")
  /\ lifecycle' = Unattached("detached", "error")
  /\ Returns(FALSE, Detached)
  /\ UNCHANGED <<metadata, session, loads, requests, store, refreshed, crossed>>

AttachCompletes ==
  /\ AttachStep("reset", "attached")
  /\ lifecycle' = AttachedTo(Head(calls).process)
  /\ UNCHANGED <<metadata, session, transit, store, refreshed, crossed>>

\* refresh_runtime_session; if it fails the attach succeeds all the same.
SessionOpens ==
  /\ AttachStep("attached", "idle")
  /\ session' = Head(calls).process
  /\ Returns(TRUE, Detached)
  /\ UNCHANGED <<lifecycle, metadata, loads, requests, store, refreshed, crossed>>

SessionFails ==
  /\ AttachStep("attached", "idle")
  /\ lifecycle' \in {lifecycle, Faulted(lifecycle)}
  /\ Returns(TRUE, Detached)
  /\ UNCHANGED <<metadata, session, loads, requests, store, refreshed, crossed>>

-----------------------------------------------------------------------------
\* load_all_metadata on the blocking pool.

Load == [at : {"none", "asked", "begun", "reading", "found", "checked", "failing", "loaded",
                "failed"},
         process : SomeProcess, connected : BOOLEAN]
NoLoad == [at |-> "none", process |-> NoProcess, connected |-> FALSE]

LoadBegins(t) ==
  /\ loads[t].at = "asked"
  /\ lifecycle' = Loading(lifecycle)
  /\ loads' = [loads EXCEPT ![t].at = "begun"]
  /\ UNCHANGED <<metadata, session, attaching, requests, calls, answers, store, refreshed,
                 crossed>>

\* ensure_attached_session, and the snapshot there is.
LoadFinds(t) ==
  LET p == lifecycle.process
  IN /\ loads[t].at = "begun"
     /\ loads' = [loads EXCEPT ![t].process = p,
                               ![t].at = IF p = NoProcess THEN "failing"
                                         ELSE IF metadata = p THEN "found" ELSE "reading"]
     /\ UNCHANGED <<backend, requests, calls, answers, store, refreshed, crossed>>

\* Mutant of LoadReads: a tool that fails is not noticed.
LoadReadsBlindly(t) ==
  /\ loads[t].at = "reading"
  /\ \/ metadata' = loads[t].process
     \/ UNCHANGED metadata
  /\ loads' = [loads EXCEPT ![t].at = "found"]
  /\ UNCHANGED <<lifecycle, session, attaching, requests, calls, answers, store, refreshed,
                 crossed>>
\* The metadata tool reads the source of that process, or fails.
LoadReads(t) ==
  /\ loads[t].at = "reading"
  /\ \/ /\ metadata' = loads[t].process
        /\ loads' = [loads EXCEPT ![t].at = "found"]
     \/ /\ loads' = [loads EXCEPT ![t].at = "failing"]
        /\ UNCHANGED metadata
  /\ UNCHANGED <<lifecycle, session, attaching, requests, calls, answers, store, refreshed,
                 crossed>>

\* finish_snapshot_load: is there a session, and then the transition.
LoadChecks(t) ==
  /\ loads[t].at = "found"
  /\ loads' = [loads EXCEPT ![t].at = "checked", ![t].connected = session # NoProcess]
  /\ UNCHANGED <<backend, requests, calls, answers, store, refreshed, crossed>>

LoadCompletes(t) ==
  /\ loads[t].at = "checked"
  /\ lifecycle' = Ready(lifecycle, loads[t].connected)
  /\ loads' = [loads EXCEPT ![t].at = "loaded"]
  /\ UNCHANGED <<metadata, session, attaching, requests, calls, answers, store, refreshed,
                 crossed>>

LoadFails(t) ==
  /\ loads[t].at = "failing"
  /\ lifecycle' = LoadFailed(lifecycle)
  /\ loads' = [loads EXCEPT ![t].at = "failed"]
  /\ UNCHANGED <<metadata, session, attaching, requests, calls, answers, store, refreshed,
                 crossed>>

-----------------------------------------------------------------------------
\* get_runtime_static_fields on the blocking pool, as every operation that
\* execute_runtime_operation tracks.

Request == [at : {"none", "asked", "running", "faulty", "ok", "failed", "answered"},
            session : SomeProcess]
NoRequest == [at |-> "none", session |-> NoProcess]

\* The class needs metadata, the fields need a session, which the request keeps.
RequestStarts(k) ==
  /\ requests[k].at = "asked"
  /\ requests' = [requests EXCEPT
       ![k] = [at |-> IF metadata = NoProcess THEN "failed"
                      ELSE IF session = NoProcess THEN "faulty" ELSE "running",
               session |-> session]]
  /\ UNCHANGED <<backend, loads, calls, answers, store, refreshed, crossed>>

RequestSucceeds(k) ==
  /\ requests[k].at = "running"
  /\ lifecycle' = Alive(lifecycle)
  /\ requests' = [requests EXCEPT ![k].at = "ok"]
  /\ UNCHANGED <<metadata, session, attaching, loads, calls, answers, store, refreshed, crossed>>

\* The error drops the runtime session, or it does not.
RequestFails(k) ==
  /\ \/ requests[k].at \in {"running", "faulty"} /\ lifecycle' = Faulted(lifecycle)
     \/ requests[k].at = "running" /\ UNCHANGED lifecycle
  /\ requests' = [requests EXCEPT ![k].at = "failed"]
  /\ UNCHANGED <<metadata, session, attaching, loads, calls, answers, store, refreshed, crossed>>

-----------------------------------------------------------------------------
\* The store.  A thunk is the call of attachToProcess: what it awaits.

Thunk == [at : {"none", "attach", "refresh", "load", "settle", "done", "rejected"},
          process : SomeProcess]
NoThunk == [at |-> "none", process |-> NoProcess]
Ended == {"none", "done", "rejected"}
Active(t) == thunks[t].at \notin Ended

Analysis == [label : SomeProcess, content : SomeProcess]
NoAnalysis == [label |-> NoProcess, content |-> NoProcess]

\* shouldClearRuntimeState.
ClearsRuntime(l) ==
  \/ l.process = NoProcess \/ ~l.snapshot \/ l.status = "error"
  \/ ~l.connected \/ l.rt = "error"

ClearRuntime == overlay' = NoProcess /\ asking' = FALSE

\* refreshWorkspaceLifecycle.fulfilled, without what it does to the analysis.
ShowLifecycle(l) ==
  /\ page' = l
  /\ IF ClearsRuntime(l) THEN ClearRuntime ELSE UNCHANGED <<overlay, asking>>

AnalysisUnder(l) == IF l.process = NoProcess THEN NoAnalysis ELSE analysis

\* The process selector sends a process and attachToProcess starts: the lifecycle
\* becomes attaching, resetForSession clears the analysis.
SelectProcess(t, p) ==
  /\ thunks[t].at = "none" /\ \A u \in Attaches : u < t => thunks[u].at # "none"
  /\ thunks' = [thunks EXCEPT ![t] = [at |-> "attach", process |-> p]]
  /\ page' = Attaching
  /\ analysis' = NoAnalysis /\ loading' = FALSE /\ ClearRuntime
  /\ calls' = Append(calls, Call("attach", t, p))
  /\ crossed' = (crossed \/ \E u \in Attaches : Active(u))
  /\ UNCHANGED <<backend, loads, requests, answers, refreshed>>

\* The window gets the focus, or the document becomes visible.
Refresh ==
  /\ refreshed < MaxRefreshes
  /\ page.process # NoProcess /\ ~loading
  /\ refreshed' = refreshed + 1
  /\ calls' = Append(calls, Call("lifecycle", Focus, NoProcess))
  /\ UNCHANGED <<backend, loads, requests, answers, store, crossed>>

\* Mutant of Rejects: the lifecycle stays as it was.
RejectsAnalysis(t) ==
  /\ thunks' = [thunks EXCEPT ![t].at = "rejected"]
  /\ analysis' = NoAnalysis /\ ClearRuntime
  /\ UNCHANGED page
\* The thunk's catch, and attachToProcess.rejected.
Rejects(t) ==
  /\ thunks' = [thunks EXCEPT ![t].at = "rejected"]
  /\ page' = Unattached("error", "error")
  /\ analysis' = NoAnalysis /\ ClearRuntime

Awaited(kind, t, at) ==
  /\ answers # <<>>
  /\ LET call == Head(answers).call
     IN call.kind = kind /\ call.thunk = t
  /\ t # Focus => thunks[t].at = at
  /\ answers' = Tail(answers)

\* The answer of attach_to_process: the lifecycle is asked for.
AttachAnswered(t) ==
  /\ Awaited("attach", t, "attach")
  /\ IF Head(answers).ok
     THEN /\ page' = AttachedTo(thunks[t].process)
          /\ thunks' = [thunks EXCEPT ![t].at = "refresh"]
          /\ calls' = Append(calls, Call("lifecycle", t, NoProcess))
          /\ UNCHANGED <<analysis, overlay, asking>>
     ELSE Rejects(t) /\ UNCHANGED calls
  /\ UNCHANGED <<backend, loads, requests, loading, refreshed, crossed>>

FocusAnswered ==
  /\ Awaited("lifecycle", Focus, "none")
  /\ ShowLifecycle(Head(answers).state)
  /\ analysis' = AnalysisUnder(Head(answers).state)
  /\ UNCHANGED <<backend, loads, requests, calls, loading, thunks, refreshed, crossed>>

\* The refresh after the attach; loadAnalysisSnapshot is pending.
RefreshAnswered(t) ==
  /\ Awaited("lifecycle", t, "refresh")
  /\ ShowLifecycle(Head(answers).state)
  /\ analysis' = NoAnalysis /\ loading' = TRUE
  /\ thunks' = [thunks EXCEPT ![t].at = "load"]
  /\ loads' = [loads EXCEPT ![t].at = "asked"]
  /\ UNCHANGED <<backend, requests, calls, refreshed, crossed>>

\* Mutant of LoadAnswered: a load that failed is not followed up.
LoadAnsweredIfLoaded(t) ==
  /\ thunks[t].at = "load" /\ loads[t].at = "loaded"
  /\ thunks' = [thunks EXCEPT ![t].at = "settle"]
  /\ calls' = Append(calls, Call("lifecycle", t, NoProcess))
  /\ UNCHANGED <<backend, loads, requests, answers, page, analysis, loading, overlay, asking,
                 refreshed, crossed>>
\* The answer of the load: its `finally' asks for the lifecycle.
LoadAnswered(t) ==
  /\ thunks[t].at = "load" /\ loads[t].at \in {"loaded", "failed"}
  /\ thunks' = [thunks EXCEPT ![t].at = "settle"]
  /\ calls' = Append(calls, Call("lifecycle", t, NoProcess))
  /\ UNCHANGED <<backend, loads, requests, answers, page, analysis, loading, overlay, asking,
                 refreshed, crossed>>

\* That answer, and the load is fulfilled or rejected: the snapshot gets the process
\* the thunk attached to, or the attach is rejected.
LoadSettles(t) ==
  /\ Awaited("lifecycle", t, "settle")
  /\ loading' = FALSE
  /\ IF loads[t].at = "loaded"
     THEN /\ ShowLifecycle(Head(answers).state)
          /\ analysis' = [label |-> thunks[t].process, content |-> loads[t].process]
          /\ thunks' = [thunks EXCEPT ![t].at = "done"]
     ELSE Rejects(t)
  /\ UNCHANGED <<backend, loads, requests, calls, refreshed, crossed>>

\* ensureRuntimeOverlayLoaded, for a class of the analysis.
RequestFields(k) ==
  /\ requests[k].at = "none" /\ \A j \in Requests : j < k => requests[j].at # "none"
  /\ analysis # NoAnalysis
  /\ overlay = NoProcess /\ ~asking
  /\ asking' = TRUE
  /\ requests' = [requests EXCEPT ![k].at = "asked"]
  /\ UNCHANGED <<backend, loads, calls, answers, page, analysis, loading, overlay, thunks,
                 refreshed, crossed>>

\* Mutant of FieldsAnswered: a request that failed is still said to be loading.
FieldsAnsweredIfRead(k) ==
  /\ requests[k].at \in {"ok", "failed"}
  /\ requests' = [requests EXCEPT ![k].at = "answered"]
  /\ overlay' = IF requests[k].at = "ok" THEN requests[k].session ELSE overlay
  /\ asking' = (asking /\ requests[k].at = "failed")
  /\ UNCHANGED <<backend, loads, calls, answers, page, analysis, loading, thunks, refreshed,
                 crossed>>
\* ensureRuntimeOverlayLoaded, fulfilled or rejected.
FieldsAnswered(k) ==
  /\ requests[k].at \in {"ok", "failed"}
  /\ requests' = [requests EXCEPT ![k].at = "answered"]
  /\ overlay' = IF requests[k].at = "ok" THEN requests[k].session ELSE overlay
  /\ asking' = FALSE
  /\ UNCHANGED <<backend, loads, calls, answers, page, analysis, loading, thunks, refreshed,
                 crossed>>

-----------------------------------------------------------------------------
\* Before the first attach: the page has mounted and read the lifecycle.
Init ==
  /\ lifecycle = Detached /\ metadata = NoProcess /\ session = NoProcess
  /\ attaching = "idle"
  /\ loads = [t \in Attaches |-> NoLoad]
  /\ requests = [k \in Requests |-> NoRequest]
  /\ calls = <<>> /\ answers = <<>>
  /\ page = Detached /\ analysis = NoAnalysis /\ loading = FALSE
  /\ overlay = NoProcess /\ asking = FALSE
  /\ thunks = [t \in Attaches |-> NoThunk]
  /\ refreshed = 0 /\ crossed = FALSE

User ==
  \/ \E t \in Attaches, p \in Processes : SelectProcess(t, p)
  \/ Refresh
  \/ \E k \in Requests : RequestFields(k)

MainThread ==
  \/ GetsLifecycle
  \/ AttachBegins \/ AttachFinds \/ AttachMisses \/ AttachResets
  \/ AttachFails \/ AttachCompletes \/ SessionOpens \/ SessionFails

LoadThread(t) ==
  LoadBegins(t) \/ LoadFinds(t) \/ LoadReads(t) \/ LoadChecks(t) \/ LoadCompletes(t)
    \/ LoadFails(t)

RequestThread(k) == RequestStarts(k) \/ RequestSucceeds(k) \/ RequestFails(k)

PageHears ==
  \/ FocusAnswered
  \/ \E t \in Attaches : AttachAnswered(t) \/ RefreshAnswered(t) \/ LoadSettles(t)

Next ==
  \/ User \/ MainThread \/ PageHears
  \/ \E t \in Attaches : LoadThread(t) \/ LoadAnswered(t)
  \/ \E k \in Requests : RequestThread(k) \/ FieldsAnswered(k)

Spec == Init /\ [][Next]_vars

\* The main thread comes to every command, answers arrive, and what runs on the
\* blocking pool returns.
FairSpec ==
  /\ Spec
  /\ WF_vars(MainThread) /\ WF_vars(PageHears)
  /\ \A t \in Attaches : WF_vars(LoadThread(t)) /\ WF_vars(LoadAnswered(t))
  /\ \A k \in Requests : WF_vars(RequestThread(k)) /\ WF_vars(FieldsAnswered(k))

-----------------------------------------------------------------------------
\* Types.
TypeOK ==
  /\ lifecycle \in Lifecycle /\ page \in Lifecycle
  /\ metadata \in SomeProcess /\ session \in SomeProcess /\ overlay \in SomeProcess
  /\ attaching \in {"idle", "begun", "missed", "lost", "found", "reset", "attached"}
  /\ loads \in [Attaches -> Load] /\ requests \in [Requests -> Request]
  /\ calls \in Seq(Calls) /\ answers \in Seq(Answers)
  /\ analysis \in Analysis /\ thunks \in [Attaches -> Thunk]
  /\ loading \in BOOLEAN /\ asking \in BOOLEAN /\ crossed \in BOOLEAN
  /\ refreshed \in Nat

\* No runtime session outlives its attachment: between two attaches it is the one of
\* the attached process or there is none, whatever loads and operations of an
\* earlier attachment still do, and although the native session may fail to open.
SessionOfProcess ==
  attaching = "idle" => session \in {NoProcess, lifecycle.process}

\* Scene and studio open once the lifecycle has a snapshot: then the metadata is
\* loaded, and it is that of the attached process, unless a process was selected
\* while an attach was under way.
SnapshotOfProcess ==
  ~crossed /\ lifecycle.snapshot =>
    lifecycle.process # NoProcess /\ metadata = lifecycle.process

AtRest == calls = <<>> /\ answers = <<>> /\ \A t \in Attaches : ~Active(t)
Latest(t) == thunks[t].at # "none" /\ \A u \in Attaches : u > t => thunks[u].at = "none"

\* getWorkspacePageReadiness: the scene page can be used.
SceneReady(l) ==
  l.process # NoProcess /\ l.snapshot /\ l.status = "ready" /\ l.connected /\ l.rt = "ready"

\* With no attach under way the page and the backend agree on the process, the analysis
\* shown is the metadata of that process, and no page is open without it.
PageAgrees ==
  AtRest /\ ~crossed => \A t \in Attaches : Latest(t) =>
    IF thunks[t].at = "done"
    THEN /\ page.process = thunks[t].process /\ lifecycle.process = thunks[t].process
         /\ analysis = [label |-> page.process, content |-> page.process]
         /\ metadata = page.process
    ELSE page.process = NoProcess /\ analysis = NoAnalysis /\ ~SceneReady(page)

\* A flag that refuses a second call is set only while a call is under way that will
\* clear it, through resets of the session and answers of earlier calls.
LoadingIsAsked ==
  /\ loading => \E t \in Attaches : thunks[t].at \in {"load", "settle"}
  /\ asking => \E k \in Requests : requests[k].at \notin {"none", "answered"}

\* An attach ends, and with it what the page says is being done.
AttachSettles == \A t \in Attaches : Active(t) ~> ~Active(t)

-----------------------------------------------------------------------------
\* What SessionOfProcess relies on: while an attach is under way the lifecycle has no
\* process until the session of the earlier one is gone.
AttachInOrder ==
  /\ attaching # "idle" => Calling("attach")
  /\ attaching \in {"begun", "found", "missed", "reset", "lost"} => lifecycle.process = NoProcess
  /\ attaching \in {"reset", "lost", "attached"} => session = NoProcess
  /\ attaching = "attached" => lifecycle.process = Head(calls).process

Running(t) == loads[t].at \notin {"none", "loaded", "failed"}
Attach(call) == call.kind = "attach"

\* What SnapshotOfProcess relies on: thunks that do not cross hand over to one another.
\* Only one is active, its attach is asked for once, and its load runs after it, with the
\* process that is attached.
OneAtATime ==
  /\ \A t, u \in Attaches : Active(t) /\ Active(u) => t = u
  /\ \A i \in DOMAIN calls : Attach(calls[i]) => thunks[calls[i].thunk].at = "attach"
  /\ \A i \in DOMAIN answers :
       Attach(answers[i].call) => thunks[answers[i].call.thunk].at = "attach"
  /\ \A i, j \in DOMAIN calls : Attach(calls[i]) /\ Attach(calls[j]) => i = j
  /\ \A i, j \in DOMAIN answers : Attach(answers[i].call) /\ Attach(answers[j].call) => i = j
  /\ \A i \in DOMAIN calls, j \in DOMAIN answers :
       ~(Attach(calls[i]) /\ Attach(answers[j].call))
  /\ \A t \in Attaches : Running(t) => thunks[t].at = "load"

LoadsAttached ==
  /\ \A t \in Attaches : loads[t].at \in {"reading", "found", "checked"} =>
       loads[t].process = lifecycle.process /\ lifecycle.process # NoProcess
  /\ \A t \in Attaches : loads[t].at \in {"found", "checked"} => metadata = loads[t].process
  /\ attaching # "idle" => ~lifecycle.snapshot

\* Attach is only ever called by a thunk, for a process.
AttachesNamed ==
  /\ \A i \in DOMAIN calls : Attach(calls[i]) =>
       calls[i].thunk \in Attaches /\ calls[i].process \in Processes
  /\ \A i \in DOMAIN answers : Attach(answers[i].call) => answers[i].call.thunk \in Attaches

\* The inductive invariant.
WorkspaceInv ==
  /\ TypeOK /\ AttachesNamed /\ AttachInOrder /\ SessionOfProcess /\ LoadingIsAsked
  /\ ~crossed => OneAtATime /\ LoadsAttached /\ SnapshotOfProcess
=============================================================================
