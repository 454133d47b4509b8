----------------------------- MODULE StudioFlow -----------------------------
(***************************************************************************)
(* The studio flow engine (executeStudioFlow.ts, core/graphInterpreter.ts) *)
(* and the hook that owns its runs (useStudioRuntimeState.ts).             *)
(*                                                                         *)
(* Everything runs on one event loop: an action is a stretch of code from  *)
(* one timer, answer or event to the next `await'.  A token is one call of *)
(* runNode on its way from the timer to its settlement; it is named by the *)
(* edge that started it and by how often that edge had been taken.         *)
(***************************************************************************)
EXTENDS Naturals, FiniteSets

CONSTANTS
    Nodes,          \* nodes with control ports
    Passive,        \* canMaterializePassiveJsonNode: data providers
    Starts,         \* the triggers a run can start from
    Edges,          \* control edges, [from, port, to]
    Needs,          \* the passive nodes that feed a node
    Loops,          \* For Loop nodes
    LoopCount,      \* their loop count, constant in a run
    Branches,       \* If nodes
    Unknown,        \* nodes of a type that is not registered
    Page,           \* where the edge of a start comes from
    MaxRuns         \* bound: runs of a session

Entry(n) == [from |-> Page, port |-> "start", to |-> n]
Entries  == {Entry(n) : n \in Starts}

ASSUME GraphAssumption ==
    /\ Starts \subseteq Nodes /\ Loops \subseteq Nodes /\ Branches \subseteq Nodes
    /\ Loops \cap Branches = {} /\ Unknown \subseteq Nodes /\ Nodes \cap Passive = {}
    /\ Edges \subseteq [from : Nodes, port : {"out", "true", "false", "loop", "done"}, to : Nodes]
    /\ IsFiniteSet(Edges) /\ IsFiniteSet(Nodes) /\ Page \notin Nodes
    /\ Needs \in [Nodes -> SUBSET Passive] /\ LoopCount \in [Loops -> Nat] /\ MaxRuns \in Nat

VARIABLES
    runs,      \* the closures of executeStudioFlow, by order of their start
    started,   \* how many runs were started
    tokens,    \* the calls of runNode under way
    current,   \* executionCleanupRef: the run it cleans up, 0 when null
    shown,     \* nodeStates and nodeSnapshots of the hook
    ready,     \* workspaceExecutionReadiness.canExecute
    mounted    \* the component is mounted

vars == <<runs, started, tokens, current, shown, ready, mounted>>

-----------------------------------------------------------------------------
All      == Nodes \cup Passive
Outcomes == {"success", "error", "aborted"}
States   == {"idle", "running"} \cup Outcomes

Run == [disposed : BOOLEAN, pending : Nat, errors : BOOLEAN, aborts : BOOLEAN,
        done : {"none"} \cup Outcomes, snaps : [All -> States],
        loopAt : [Nodes -> Nat],      \* nodeRuntimeStateById: iterations begun
        fired : [Edges -> Nat]]       \* history: tokens an edge was taken by
NewRun == [disposed |-> FALSE, pending |-> 0, errors |-> FALSE, aborts |-> FALSE,
           done |-> "none", snaps |-> [n \in All |-> "idle"],
           loopAt |-> [n \in Nodes |-> 0], fired |-> [e \in Edges |-> 0]]

(* todo: passive nodes prepareNodeExecution still has to materialise.      *)
(* index: the runtime state read when the node was prepared.               *)
Token == [run : 1..MaxRuns, edge : Edges \cup Entries, visit : Nat \ {0},
          pc : {"queued", "prepare", "delay", "exec"}, todo : SUBSET Passive, index : Nat]
NewToken(r, e, k) == [run |-> r, edge |-> e, visit |-> k, pc |-> "queued",
                      todo |-> {}, index |-> 0]
At(t) == t.edge.to

Blank == [states |-> [n \in Nodes |-> "idle"], snaps |-> [n \in All |-> "idle"]]

-----------------------------------------------------------------------------
(* publishSnapshot, in the record of the run and on the page.              *)
Published(R, n, s) == IF R.disposed THEN R ELSE [R EXCEPT !.snaps[n] = s]
(* Mutant of SnapShown: the page hears of a cancelled run.                 *)
SnapShownAlways(R, n, s) == IF ~mounted THEN shown ELSE [shown EXCEPT !.snaps[n] = s]
SnapShown(R, n, s) == IF R.disposed \/ ~mounted THEN shown
                      ELSE [shown EXCEPT !.snaps[n] = s]

(* onNodeStateChange and publishSnapshot one after the other.              *)
NodeShown(R, n, s) == IF ~mounted THEN shown
                      ELSE [SnapShown(R, n, s) EXCEPT !.states[n] = s]

(* Mutant of RunStatus: the backend's word for an error.                   *)
RunStatusFailed(R) == IF R.errors THEN "failed" ELSE IF R.aborts THEN "aborted" ELSE "success"
RunStatus(R) == IF R.errors THEN "error" ELSE IF R.aborts THEN "aborted" ELSE "success"

(* Mutant of Settled: the run ends as its last node does.                  *)
SettledByLast(R, status) ==
    LET S == [R EXCEPT !.pending = IF @ > 0 THEN @ - 1 ELSE 0]
    IN  IF S.done = "none" /\ ~S.disposed /\ S.pending = 0
        THEN [S EXCEPT !.done = status] ELSE S

(* settleNode; the completion is published once.                           *)
Settled(R, status) ==
    LET S == [R EXCEPT !.errors  = @ \/ status = "error",
                       !.aborts  = @ \/ status = "aborted",
                       !.pending = IF @ > 0 THEN @ - 1 ELSE 0]
    IN  IF S.done = "none" /\ ~S.disposed /\ S.pending = 0
        THEN [S EXCEPT !.done = RunStatus(S)] ELSE S

(* runNode along the edges of out: schedule starts no timer once disposed. *)
Spawned(R, out) == [R EXCEPT !.pending = @ + Cardinality(out),
                             !.fired = [e \in Edges |->
                                 IF e \in out /\ ~R.disposed THEN @[e] + 1 ELSE @[e]]]
SpawnedTokens(r, out) == IF runs[r].disposed THEN {}
                         ELSE {NewToken(r, e, runs[r].fired[e] + 1) : e \in out}

Executing(R) == {n \in Nodes : R.snaps[n] = "running"}

(* Mutant of Cleaned: the outcome is left to the nodes that still run.     *)
CleanedSilently(R) ==
    IF R.disposed THEN R
    ELSE [R EXCEPT !.disposed = TRUE,
                   !.snaps = [n \in All |-> IF n \in Executing(R) THEN "aborted" ELSE @[n]]]

(* The cleanup of a run: publishAbortedSnapshots settles one node for each *)
(* running snapshot while the run still counts, then the run is disposed,  *)
(* and only then the signal aborts and the timers are cleared.             *)
Cleaned(R) ==
    LET k == Cardinality(Executing(R))
        result == IF R.errors /\ k > 0 /\ R.pending <= k THEN "error" ELSE "aborted"
    IN  IF R.disposed THEN R
        ELSE [R EXCEPT !.disposed = TRUE, !.aborts = @ \/ k > 0,
                       !.pending = IF @ > k THEN @ - k ELSE 0,
                       !.snaps = [n \in All |-> IF n \in Executing(R) THEN "aborted" ELSE @[n]],
                       !.done = IF @ = "none" THEN result ELSE @]
Waiting(r) == {t \in tokens : t.run = r /\ t.pc \in {"queued", "delay"}}

RunsCleaned   == IF current = 0 THEN runs ELSE [runs EXCEPT ![current] = Cleaned(@)]
TokensCleaned == IF current = 0 THEN tokens ELSE tokens \ Waiting(current)

-----------------------------------------------------------------------------
Init == /\ runs = [r \in 1..MaxRuns |-> NewRun]
        /\ started = 0 /\ tokens = {} /\ current = 0 /\ shown = Blank
        /\ ready \in BOOLEAN /\ mounted = TRUE

(* executeFlow: the page, cleared by onReset, belongs to the new run.      *)
ExecuteFlow(n) ==
    /\ mounted /\ ready /\ started < MaxRuns
    /\ started' = started + 1 /\ current' = started + 1
    /\ runs' = [RunsCleaned EXCEPT ![started + 1].pending = 1]
    /\ tokens' = TokensCleaned \cup {NewToken(started + 1, Entry(n), 1)}
    /\ shown' = Blank
    /\ UNCHANGED <<ready, mounted>>

(* The effects that let go of the current run and clear the page.          *)
ResetRuntime == /\ mounted
                /\ runs' = RunsCleaned /\ tokens' = TokensCleaned
                /\ current' = 0 /\ shown' = Blank
                /\ UNCHANGED <<started, mounted>>
DocumentChanges == ResetRuntime /\ UNCHANGED ready
WorkspaceUnready == ResetRuntime /\ ready' = FALSE
WorkspaceReady == /\ mounted /\ ~ready /\ ready' = TRUE
                  /\ UNCHANGED <<runs, started, tokens, current, shown, mounted>>

(* The cleanup of the unmounted component keeps the reference; from now on *)
(* setState does nothing.                                                  *)
Unmounts == /\ mounted /\ mounted' = FALSE
            /\ runs' = RunsCleaned /\ tokens' = TokensCleaned /\ shown' = Blank
            /\ UNCHANGED <<started, current, ready>>

-----------------------------------------------------------------------------
Moves(t, u) == tokens' = (tokens \ {t}) \cup {u}
Leaves(t)   == tokens' = tokens \ {t}
Becomes(r, R) == runs' = [runs EXCEPT ![r] = R]
HookUnchanged == UNCHANGED <<started, current, ready, mounted>>

(* The node reports a status, its snapshot is published, the call settles. *)
Reports(t, status) == /\ Becomes(t.run, Settled(Published(runs[t.run], At(t), status), status))
                      /\ shown' = NodeShown(runs[t.run], At(t), status)
                      /\ Leaves(t)

(* The timer of runNode; passive nodes that have a snapshot are not asked. *)
(* A cleared timer does not fire, so the run is not disposed here.         *)
TimerFires(t) ==
    /\ t.pc = "queued"
    /\ Moves(t, [t EXCEPT !.pc = "prepare",
                          !.todo = {p \in Needs[At(t)] : runs[t.run].snaps[p] = "idle"}])
    /\ HookUnchanged /\ UNCHANGED <<runs, shown>>

(* materializePassiveJsonNode: the answer of a provider is published       *)
(* whoever else asked meanwhile; providers that got a snapshot since are   *)
(* not asked any more.                                                     *)
Materializes(t, p, status) ==
    /\ t.pc = "prepare" /\ p \in t.todo
    /\ LET R == Published(runs[t.run], p, status)
       IN  /\ Becomes(t.run, R)
           /\ Moves(t, [t EXCEPT !.todo = {q \in @ \ {p} : R.snaps[q] = "idle"}])
    /\ shown' = SnapShown(runs[t.run], p, status)
    /\ HookUnchanged

(* Mutant of Prepared: the run may have been cancelled meanwhile.          *)
PreparedRegardless(t) ==
    /\ t.pc = "prepare" /\ t.todo = {}
    /\ Becomes(t.run, Published(runs[t.run], At(t), "running"))
    /\ shown' = NodeShown(runs[t.run], At(t), "running")
    /\ IF runs[t.run].disposed THEN Leaves(t)
       ELSE Moves(t, [t EXCEPT !.pc = "delay", !.index = runs[t.run].loopAt[At(t)]])
    /\ HookUnchanged

(* prepareNodeExecution returns, with the runtime state as it is now.      *)
Prepared(t) ==
    /\ t.pc = "prepare" /\ t.todo = {}
    /\ IF runs[t.run].disposed
       THEN Leaves(t) /\ UNCHANGED <<runs, shown>>
       ELSE /\ Moves(t, [t EXCEPT !.pc = "delay", !.index = runs[t.run].loopAt[At(t)]])
            /\ Becomes(t.run, Published(runs[t.run], At(t), "running"))
            /\ shown' = NodeShown(runs[t.run], At(t), "running")
    /\ HookUnchanged

(* Mutant of PrepareFails: the call is not settled.                        *)
PrepareFailsUnsettled(t) ==
    /\ t.pc = "prepare" /\ Leaves(t) /\ HookUnchanged
    /\ IF runs[t.run].disposed THEN UNCHANGED <<runs, shown>>
       ELSE /\ Becomes(t.run, Published(runs[t.run], At(t), "error"))
            /\ shown' = NodeShown(runs[t.run], At(t), "error")

(* prepareNodeExecution throws: the catch of the timer.                    *)
PrepareFails(t) ==
    /\ t.pc = "prepare"
    /\ IF runs[t.run].disposed
       THEN Leaves(t) /\ UNCHANGED <<runs, shown>>
       ELSE Reports(t, "error")
    /\ HookUnchanged

(* The timer of the step delay: the node starts to execute.                *)
Executes(t) ==
    /\ t.pc = "delay" /\ At(t) \notin Unknown
    /\ Moves(t, [t EXCEPT !.pc = "exec"])
    /\ HookUnchanged /\ UNCHANGED <<runs, shown>>

(* The same timer for a node that could not be prepared.                   *)
NotFound(t) == t.pc = "delay" /\ At(t) \in Unknown /\ Reports(t, "error") /\ HookUnchanged

(* publishNodeProgress                                                     *)
Progresses(t) ==
    /\ t.pc = "exec"
    /\ Becomes(t.run, Published(runs[t.run], At(t), "running"))
    /\ shown' = SnapShown(runs[t.run], At(t), "running")
    /\ HookUnchanged /\ UNCHANGED tokens

-----------------------------------------------------------------------------
(* Mutant of Another: one round too many.                                  *)
AnotherAndOne(t) == At(t) \in Loops /\ t.index <= LoopCount[At(t)]

(* The ports a node selects: a loop by the index it was prepared with, a   *)
(* branch by its condition, any other node all of them.                    *)
Another(t) == At(t) \in Loops /\ t.index < LoopCount[At(t)]
PortChoices(t) ==
    IF At(t) \in Loops THEN {IF Another(t) THEN {"loop"} ELSE {"done"}}
    ELSE IF At(t) \in Branches THEN {{"true"}, {"false"}}
    ELSE {{"out", "true", "false", "loop", "done"}}
Outgoing(n, ports) == {e \in Edges : e.from = n /\ e.port \in ports}

(* The next runtime state of a loop: its index, or the empty state.        *)
Remembered(R, t) == [R EXCEPT !.loopAt[At(t)] = IF Another(t) THEN t.index + 1 ELSE 0]

(* Mutant of Succeeds: settled before the calls it starts are counted.     *)
SucceedsSettledFirst(t, ports) ==
    /\ t.pc = "exec" /\ ports \in PortChoices(t)
    /\ LET out == Outgoing(At(t), ports)
           R   == Published(Remembered(runs[t.run], t), At(t), "success")
       IN  /\ Becomes(t.run, Spawned(Settled(R, "success"), out))
           /\ tokens' = (tokens \ {t}) \cup SpawnedTokens(t.run, out)
    /\ shown' = NodeShown(runs[t.run], At(t), "success")
    /\ HookUnchanged

(* The node succeeds: its state is told to the page whatever became of the *)
(* run; the calls it starts are counted before its own is settled.         *)
Succeeds(t, ports) ==
    /\ t.pc = "exec" /\ ports \in PortChoices(t)
    /\ LET out == Outgoing(At(t), ports)
           R   == Published(Remembered(runs[t.run], t), At(t), "success")
       IN  /\ Becomes(t.run, Settled(Spawned(R, out), "success"))
           /\ tokens' = (tokens \ {t}) \cup SpawnedTokens(t.run, out)
    /\ shown' = NodeShown(runs[t.run], At(t), "success")
    /\ HookUnchanged

(* The node fails, by a result, a validation or a throw.                   *)
Fails(t) == t.pc = "exec" /\ Reports(t, "error") /\ HookUnchanged

(* The node gives up with an AbortError: silent once the run is disposed.  *)
Aborts(t) == /\ t.pc = "exec"
             /\ IF runs[t.run].disposed THEN Leaves(t) /\ UNCHANGED <<runs, shown>>
                ELSE Reports(t, "aborted")
             /\ HookUnchanged

Steps(t) == \/ TimerFires(t) \/ Prepared(t) \/ PrepareFails(t)
            \/ \E p \in Passive, status \in Outcomes : Materializes(t, p, status)
            \/ Executes(t) \/ NotFound(t) \/ Fails(t) \/ Aborts(t)
            \/ \E ports \in PortChoices(t) : Succeeds(t, ports)

Next == \/ \E n \in Starts : ExecuteFlow(n)
        \/ DocumentChanges \/ WorkspaceUnready \/ WorkspaceReady \/ Unmounts
        \/ \E t \in tokens : Steps(t) \/ Progresses(t)

Spec == Init /\ [][Next]_vars

(* Timers fire and what a node awaits is answered in the end: in each run  *)
(* the event loop comes to its calls.  Progress is not a duty.             *)
FairSpec == Spec /\ \A r \in 1..MaxRuns : WF_vars(\E t \in tokens : t.run = r /\ Steps(t))

-----------------------------------------------------------------------------
TokensOf(r) == {t \in tokens : t.run = r}
Busy(r, n) == \E t \in TokensOf(r) : At(t) = n /\ t.pc \in {"delay", "exec"}

(* Types of the engine, its tokens and the state of the hook.              *)
TypeOK == /\ runs \in [1..MaxRuns -> Run] /\ started \in 0..MaxRuns
          /\ tokens \subseteq Token /\ current \in 0..started
          /\ shown \in [states : [Nodes -> States], snaps : [All -> States]]
          /\ ready \in BOOLEAN /\ mounted \in BOOLEAN

(* settleNode: a run that was not cancelled counts exactly the calls of    *)
(* runNode under way, through forks, loops, failures of a preparation and  *)
(* nodes that end in any order; no call is lost and none settles twice.    *)
PendingCountsCalls == \A r \in 1..started :
    ~runs[r].disposed => runs[r].pending = Cardinality(TokensOf(r))

(* publishRunCompletion: a run has its outcome exactly when it was         *)
(* cancelled or none of its calls is left, never between two of them.      *)
DoneMeansQuiet == \A r \in 1..started :
    runs[r].done # "none" <=> runs[r].disposed \/ TokensOf(r) = {}

(* A run that says success has no node that failed or was aborted.         *)
SuccessIsClean == \A r \in 1..started : runs[r].done = "success" =>
    \A n \in Nodes : runs[r].snaps[n] \in {"idle", "success"}

(* Neither a snapshot of a run nor the page says that a node is running    *)
(* unless a call of that run is at that node: cancelled runs leave none.   *)
RunningIsBusy == \A n \in Nodes :
    /\ \A r \in 1..started : runs[r].snaps[n] = "running" => ~runs[r].disposed /\ Busy(r, n)
    /\ shown.states[n] = "running" => current # 0 /\ Busy(current, n)

(* The snapshots on the page are those of the current run: an answer of an *)
(* earlier run never shows among them.                                     *)
PageShowsCurrentRun == mounted =>
    shown.snaps = IF current = 0 THEN Blank.snaps ELSE runs[current].snaps

(* The sets of ports a node may select when it succeeds.                   *)
Alternatives(n) == IF n \in Loops THEN {{"loop"}, {"done"}}
                   ELSE IF n \in Branches THEN {{"true"}, {"false"}}
                   ELSE {{"out", "true", "false", "loop", "done"}}
Inward(n, ports, K) == {e \in Outgoing(n, ports) : e.to \in K}

(* A round of loop l: it holds one call at most, since whatever a node of  *)
(* it selects leads back into it by one edge at most, and `done' by none.  *)
(* The round is closed if only `done' leads out of it for good.            *)
Round(l, K) == /\ l \in K /\ K \subseteq Nodes \ Starts /\ Inward(l, {"done"}, K) = {}
               /\ \A n \in K : \A ports \in Alternatives(n) :
                      \A e, f \in Inward(n, ports, K) : e = f
Closed(l, K) == \A n \in K : \A ports \in Alternatives(n) :
    Inward(n, ports, K) # {} \/ (n = l /\ ports = {"done"})

Entering(K) == {e \in Edges : e.from \notin K /\ e.to \in K}
Entered(R, K) == \E e \in Entering(K) : R.fired[e] > 0
EnteredOnce(R, K) == \A e, f \in Entering(K) :
    R.fired[e] <= 1 /\ (R.fired[e] > 0 /\ R.fired[f] > 0 => e = f)

(* README, For Loop: a loop whose round is entered once repeats it no more *)
(* than the given number of times, leaves by `done' once and only after    *)
(* all of them; if the round is closed, a run that succeeds has done so.   *)
LoopRunsFixedCount == \A r \in 1..started, l \in Loops : \A K \in SUBSET Nodes :
    Round(l, K) /\ EnteredOnce(runs[r], K) =>
        \A e \in Outgoing(l, {"loop"}), d \in Outgoing(l, {"done"}) :
            /\ runs[r].fired[e] <= LoopCount[l] /\ runs[r].fired[d] <= 1
            /\ runs[r].fired[d] = 1 => runs[r].fired[e] = LoopCount[l]
            /\ Closed(l, K) /\ Entered(runs[r], K) /\ runs[r].done = "success" =>
                   runs[r].fired[d] = 1

(* The contract of a run, with its liveness: StudioRun.                    *)
Contract == INSTANCE StudioRun WITH live <- current,
                                    outcome <- [r \in 1..MaxRuns |-> runs[r].done]
ContractHolds == Contract!ContractSpec

-----------------------------------------------------------------------------
(* A call is named by its run, its edge and its visit.                     *)
SameCall(t, u) == t.run = u.run /\ t.edge = u.edge /\ t.visit = u.visit
CallsNamed == \A t \in tokens :
    /\ t.run <= started
    /\ t.edge \in Edges => t.visit <= runs[t.run].fired[t.edge]
    /\ \A u \in tokens : SameCall(t, u) => t = u

(* What settling relies on: only the current run lives, and it has its     *)
(* outcome once it counts no call.                                         *)
Settlement == \A r \in 1..started :
    IF runs[r].disposed THEN runs[r].done # "none"
    ELSE /\ r = current /\ runs[r].pending = Cardinality(TokensOf(r))
         /\ runs[r].done # "none" <=> runs[r].pending = 0

Unstarted == \A r \in 1..MaxRuns : r > started => runs[r] = NewRun

(* The inductive invariant.                                                *)
FlowInv == TypeOK /\ IsFiniteSet(tokens) /\ CallsNamed /\ Settlement /\ Unstarted

(* A failure a snapshot of a run tells of counts for its outcome.          *)
FlagsTold(R) == \A n \in Nodes : /\ R.snaps[n] = "error" => R.errors
                                 /\ R.snaps[n] = "aborted" => R.aborts

(* A mounted page is that of a run that lives, an unmounted one is blank.  *)
PageLives == /\ mounted /\ current # 0 => ~runs[current].disposed
             /\ ~mounted => shown = Blank

(* What the snapshots of the runs and the page say, inductive with FlowInv. *)
ShownInv == /\ RunningIsBusy /\ PageShowsCurrentRun /\ SuccessIsClean /\ PageLives
            /\ \A r \in 1..started : ~runs[r].disposed => FlagsTold(runs[r])
(* Of the calls T of a run R that a round K of loop l holds: the loop goes *)
(* on, its index is the number of rounds begun and its next decision will  *)
(* be taken by it; or it is over and the round is empty.                   *)
Taken(R, l, port, k) == \A e \in Outgoing(l, {port}) : R.fired[e] = k
GoesRound(R, T, l) == /\ R.loopAt[l] <= LoopCount[l]
                      /\ Taken(R, l, "loop", R.loopAt[l]) /\ Taken(R, l, "done", 0)
                      /\ \A t \in T : At(t) = l /\ t.pc \in {"delay", "exec"} => t.index = R.loopAt[l]
Emptied(T, K) == \A t \in T : At(t) \notin K
IsOver(R, l) == Taken(R, l, "loop", LoopCount[l]) /\ Taken(R, l, "done", 1)

Rounds(R, T, l, K) ==
    /\ \A t, u \in T : At(t) \in K /\ At(u) \in K => t = u
    /\ GoesRound(R, T, l) \/ (IsOver(R, l) /\ Emptied(T, K))
    /\ ~Entered(R, K) => GoesRound(R, T, l) /\ Emptied(T, K)
    /\ Closed(l, K) /\ Entered(R, K) /\ ~R.errors /\ ~R.aborts => IsOver(R, l) \/ ~Emptied(T, K)

(* Of the edges a loop has taken, whatever became of the run.              *)
Counts(R, l, K) ==
    /\ (\E k \in 0..LoopCount[l] : Taken(R, l, "loop", k) /\ Taken(R, l, "done", 0)) \/ IsOver(R, l)
    /\ Closed(l, K) /\ Entered(R, K) /\ R.done = "success" => IsOver(R, l)

(* What a loop has done, inductive with FlowInv.                           *)
LoopInv == \A r \in 1..started, l \in Loops : \A K \in SUBSET Nodes :
    Round(l, K) /\ EnteredOnce(runs[r], K) =>
        /\ Counts(runs[r], l, K)
        /\ ~runs[r].disposed => Rounds(runs[r], TokensOf(r), l, K)
=============================================================================
