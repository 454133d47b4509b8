--------------------------- MODULE StudioDocument ---------------------------
(***************************************************************************)
(* The document of the Studio page: the graph reducer, the store with its  *)
(* undo history and id counters (graphStore.ts), drags of a node, the      *)
(* reconciliation effect that runs after every render and the two slots of *)
(* the browser's storage (useStudioGraphPersistence.ts).                   *)
(*                                                                         *)
(* Every node is a For Loop, the node whose data the effect keeps in step  *)
(* with the graph.  A control edge leads from its loop-out to a flow-in,   *)
(* which takes many; a data edge from its iteration-out to a count-in,     *)
(* which takes one.  Node and edge ids are the number the code puts behind *)
(* the type.  New ids are above those of the document, so the arrays are   *)
(* sorted by id and a set of records loses nothing of them.                *)
(*                                                                         *)
(* A click or a key is handled, rendered and its effects run before the    *)
(* next one: the user acts only when there is nothing to reconcile.  The   *)
(* autosave timer fires, and the page may be reloaded, at any time.        *)
(***************************************************************************)
EXTENDS Naturals, Sequences, FiniteSets

CONSTANTS
  NoDocument,   \* an empty slot
  Values,       \* literal loop counts, 1 is the one of a new node
  Offsets,      \* how far a drag moves a node
  MaxHistory,   \* MAX_STUDIO_GRAPH_HISTORY_ENTRIES, 100 in the code
  MaxNodes,     \* bound: nodes of a document
  MaxActions    \* bound: what the user does, reloads included

Channels == {"control", "data"}
Counts == [kind : {"literal", "input", "none"}, of : Nat]
Literal(v) == [kind |-> "literal", of |-> v]
InputFrom(id) == [kind |-> "input", of |-> id]   \* the output of a node
NoCount == [kind |-> "none", of |-> 0]

Nodes == [id : Nat \ {0}, at : Nat, count : Counts]
Edges == [id : Nat \ {0}, channel : Channels, source : Nat, target : Nat]
Documents == [nodes : SUBSET Nodes, edges : SUBSET Edges]
Empty == [nodes |-> {}, edges |-> {}]

ASSUME ConstantsAssumption ==
  /\ NoDocument \notin Documents
  /\ Values \subseteq Nat /\ 1 \in Values
  /\ Offsets \subseteq Nat
  /\ MaxHistory \in Nat \ {0}
  /\ MaxNodes \in Nat
  /\ MaxActions \in Nat

VARIABLES
  document,      \* graphState.document
  past, future,  \* the documents undo and redo go to
  counters,      \* idCounter and edgeCounter: the next ids
  drag,          \* the node being dragged, the snapshot taken and where it began
  saved,         \* storage: the manual save
  autosaved,     \* storage: the autosave
  snapshot,      \* savedDocumentSnapshot: what the page takes for saved
  timer,         \* the autosave of the document is due
  undone,        \* history: what the last action undid, if it was an undo
  actions        \* how often the user has acted

vars == <<document, past, future, counters, drag, saved, autosaved, snapshot,
          timer, undone, actions>>

NoDrag == [node |-> 0]

TypeOK ==
  /\ document \in Documents
  /\ past \in Seq(Documents) /\ Len(past) <= MaxHistory
  /\ future \in Seq(Documents)
  /\ counters \in [node : Nat \ {0}, edge : Nat \ {0}]
  /\ drag \in [node : Nat \ {0}, before : Documents, from : Nat] \cup {NoDrag}
  /\ saved \in Documents \cup {NoDocument}
  /\ autosaved \in Documents \cup {NoDocument}
  /\ snapshot \in Documents \cup {NoDocument}
  /\ timer \in BOOLEAN
  /\ undone \in Documents \cup {NoDocument}
  /\ actions \in Nat

Ids(d) == {n.id : n \in d.nodes}

-----------------------------------------------------------------------------
\* The document.

\* Mutant of Derived: the highest id is given out again.
DerivedFromHighest(d, c) ==
  /\ \A n \in d.nodes : n.id <= c.node
  /\ \A e \in d.edges : e.id < c.edge
  /\ c.node \in {1} \cup {n.id : n \in d.nodes}
  /\ c.edge \in {1} \cup {e.id + 1 : e \in d.edges}
\* deriveStudioGraphCounters: one above the highest id, 1 at least.
Derived(d, c) ==
  /\ \A n \in d.nodes : n.id < c.node
  /\ \A e \in d.edges : e.id < c.edge
  /\ c.node \in {1} \cup {n.id + 1 : n \in d.nodes}
  /\ c.edge \in {1} \cup {e.id + 1 : e \in d.edges}

\* delete-nodes: the nodes and the edges at either end.
Without(d, ids) ==
  [nodes |-> {n \in d.nodes : n.id \notin ids},
   edges |-> {e \in d.edges : e.source \notin ids /\ e.target \notin ids}]

\* add-node: a For Loop runs once until it is told otherwise.
WithNew(d, id) ==
  [d EXCEPT !.nodes = @ \cup {[id |-> id, at |-> 0, count |-> Literal(1)]}]

\* update-node-instance and update-node-position.
WithCount(d, id, count) ==
  [d EXCEPT !.nodes = {IF n.id = id THEN [n EXCEPT !.count = count] ELSE n : n \in @}]
WithPlace(d, id, at) ==
  [d EXCEPT !.nodes = {IF n.id = id THEN [n EXCEPT !.at = at] ELSE n : n \in @}]

\* validateConnection: two different nodes, not connected in this way.
Connectable(d, channel, source, target) ==
  /\ source # target
  /\ ~\E e \in d.edges : e.channel = channel /\ e.source = source /\ e.target = target

\* collectReplacementEdgeIds: count-in takes one edge.
Replaced(d, channel, target) ==
  {e \in d.edges : channel = "data" /\ e.channel = "data" /\ e.target = target}

\* disconnect-edge.
WithoutEdge(d, id) == [d EXCEPT !.edges = {e \in @ : e.id # id}]

\* connect-ports.
WithEdge(d, id, channel, source, target) ==
  [d EXCEPT !.edges = (@ \ Replaced(d, channel, target))
     \cup {[id |-> id, channel |-> channel, source |-> source, target |-> target]}]

\* The copies duplicateStudioGraphSelection makes get the next ids in the
\* order of the document; an edge is copied when both its ends are.
Renamings(ids, first) ==
  {f \in [ids -> first..(first + Cardinality(ids) - 1)] :
     \A i, j \in ids : i < j => f[i] < f[j]}

Inner(d, ids) == {e.id : e \in {e \in d.edges : e.source \in ids /\ e.target \in ids}}

WithCopies(d, f, g) ==
  [nodes |-> d.nodes \cup
     {[id |-> f[n.id], at |-> n.at + 1, count |-> n.count] :
        n \in {n \in d.nodes : n.id \in DOMAIN f}},
   edges |-> d.edges \cup
     {[id |-> g[e.id], channel |-> e.channel, source |-> f[e.source], target |-> f[e.target]] :
        e \in {e \in d.edges : e.id \in DOMAIN g}}]

\* reconcileForLoopNodeData: a fed count-in decides the count; a count taken
\* from an edge that is gone becomes null.
Feeding(d, n) == {e \in d.edges : e.channel = "data" /\ e.target = n.id}
Wanted(d, n) ==
  IF Feeding(d, n) # {} THEN InputFrom((CHOOSE e \in Feeding(d, n) : TRUE).source)
  ELSE IF n.count.kind = "input" THEN NoCount
  ELSE n.count
InStep(d) == [d EXCEPT !.nodes = {[n EXCEPT !.count = Wanted(d, n)] : n \in @}]
OutOfStep(d) == {n \in d.nodes : n.count # Wanted(d, n)}
Settled == OutOfStep(document) = {}

\* pushStudioGraphHistoryEntry, as often as it is called in one go.
Pushed(history, d, times) ==
  LET next == history \o [i \in 1..times |-> d]
  IN IF Len(next) > MaxHistory
       THEN SubSeq(next, Len(next) - MaxHistory + 1, Len(next))
       ELSE next

\* A drag ends without a commit when its node is unmounted.
Kept(next) == IF drag.node \in Ids(next) THEN drag ELSE NoDrag

Init ==
  /\ document = Empty
  /\ past = <<>> /\ future = <<>>
  /\ counters = [node |-> 1, edge |-> 1]
  /\ drag = NoDrag
  /\ saved = NoDocument /\ autosaved = NoDocument /\ snapshot = NoDocument
  /\ timer = TRUE
  /\ undone = NoDocument
  /\ actions = 0

-----------------------------------------------------------------------------
\* What the user does.

Acts ==
  /\ actions < MaxActions
  /\ Settled
  /\ actions' = actions + 1

\* Everything but the keys needs the pointer, which a drag holds.
Points == Acts /\ drag = NoDrag

\* Mutant of Becomes: the timer of the document before is not replaced.
BecomesQuietly(next) ==
  /\ document' = next
  /\ drag' = Kept(next)
  /\ UNCHANGED timer
\* The document changes: its wrappers are mounted anew, its autosave is due.
Becomes(next) ==
  /\ document' = next
  /\ drag' = Kept(next)
  /\ timer' = TRUE

\* applyGraphAction.
Edits(next) ==
  /\ Becomes(next)
  /\ past' = Pushed(past, document, 1)
  /\ future' = <<>>
  /\ undone' = NoDocument
  /\ UNCHANGED <<saved, autosaved, snapshot>>

AddNode ==
  /\ Points
  /\ Cardinality(document.nodes) < MaxNodes
  /\ Edits(WithNew(document, counters.node))
  /\ counters' = [counters EXCEPT !.node = @ + 1]

\* updateNodeData, from the panel of the node.
EditNode(id, v) ==
  /\ Points
  /\ \E n \in document.nodes : n.id = id /\ n.count # Literal(v)
  /\ Edits(WithCount(document, id, Literal(v)))
  /\ UNCHANGED counters

DeleteNodes(ids) ==
  /\ Acts
  /\ ids # {}
  /\ Edits(Without(document, ids))
  /\ UNCHANGED counters

DuplicateNodes(ids) ==
  LET inner == Inner(document, ids)
  IN /\ Acts
     /\ ids # {}
     /\ Cardinality(document.nodes) + Cardinality(ids) <= MaxNodes
     /\ \E f \in Renamings(ids, counters.node), g \in Renamings(inner, counters.edge) :
          Edits(WithCopies(document, f, g))
     /\ counters' = [node |-> counters.node + Cardinality(ids),
                     edge |-> counters.edge + Cardinality(inner)]

\* finishConnection and connectPorts.
ConnectPorts(channel, source, target) ==
  /\ Points
  /\ Connectable(document, channel, source, target)
  /\ Edits(WithEdge(document, counters.edge, channel, source, target))
  /\ counters' = [counters EXCEPT !.edge = @ + 1]

DisconnectEdge(e) ==
  /\ Points
  /\ Edits(WithoutEdge(document, e.id))
  /\ UNCHANGED counters

\* syncCountersFromDocument.
Syncs(next) ==
  \E k \in {1} \cup {n.id + 1 : n \in next.nodes},
     l \in {1} \cup {e.id + 1 : e \in next.edges} :
    /\ counters' = [node |-> k, edge |-> l]
    /\ Derived(next, counters')

\* replaceDocumentState.
Replaces(next) == Becomes(next) /\ Syncs(next)

Undo ==
  /\ Acts
  /\ past # <<>>
  /\ Replaces(past[Len(past)])
  /\ past' = SubSeq(past, 1, Len(past) - 1)
  /\ future' = <<document>> \o future
  /\ undone' = document
  /\ UNCHANGED <<saved, autosaved, snapshot>>

\* Mutant of Redo: the rest of what was undone is forgotten.
RedoForgets ==
  /\ Acts
  /\ future # <<>>
  /\ Replaces(future[1])
  /\ past' = Pushed(past, document, 1)
  /\ future' = <<>>
  /\ undone' = NoDocument
  /\ UNCHANGED <<saved, autosaved, snapshot>>
Redo ==
  /\ Acts
  /\ future # <<>>
  /\ Replaces(future[1])
  /\ past' = Pushed(past, document, 1)
  /\ future' = Tail(future)
  /\ undone' = NoDocument
  /\ UNCHANGED <<saved, autosaved, snapshot>>

\* beginNodePositionSession; moves are not counted as actions.
BeginDrag(n) ==
  /\ Points
  /\ drag' = [node |-> n.id, before |-> document, from |-> n.at]
  /\ UNCHANGED <<document, past, future, counters, saved, autosaved, snapshot, timer, undone>>

\* updateNodePosition without history.
Move(offset) ==
  /\ Settled
  /\ drag # NoDrag
  /\ Becomes(WithPlace(document, drag.node, drag.from + offset))
  /\ UNCHANGED <<past, future, counters, saved, autosaved, snapshot, undone, actions>>

\* commitNodePositionSession.
Drop ==
  /\ Settled
  /\ drag # NoDrag
  /\ drag' = NoDrag
  /\ IF drag.before = document
       THEN UNCHANGED <<past, future, undone>>
       ELSE /\ past' = Pushed(past, drag.before, 1)
            /\ future' = <<>>
            /\ undone' = NoDocument
  /\ UNCHANGED <<document, counters, saved, autosaved, snapshot, timer, actions>>

SaveWorkflow ==
  /\ Acts
  /\ saved' = document
  /\ snapshot' = document
  /\ UNCHANGED <<document, past, future, counters, drag, autosaved, timer, undone>>

Restarts(next) ==
  /\ Replaces(next)
  /\ past' = <<>>
  /\ future' = <<>>
  /\ undone' = NoDocument

LoadSavedWorkflow ==
  /\ Points
  /\ saved # NoDocument
  /\ Restarts(saved)
  /\ snapshot' = saved
  /\ UNCHANGED <<saved, autosaved>>

\* Mutant of ClearWorkflow: the page still compares with the save that is gone.
ClearWorkflowComparing ==
  /\ Points
  /\ Restarts(Empty)
  /\ saved' = NoDocument
  /\ autosaved' = NoDocument
  /\ UNCHANGED snapshot
\* Both slots are removed; the autosave comes back with the empty document.
ClearWorkflow ==
  /\ Points
  /\ Restarts(Empty)
  /\ saved' = NoDocument
  /\ autosaved' = NoDocument
  /\ snapshot' = NoDocument

\* The page goes and comes again: the hydration effect reads both slots.
Reload ==
  /\ actions < MaxActions
  /\ actions' = actions + 1
  /\ LET d == IF autosaved = NoDocument THEN Empty ELSE autosaved
     IN document' = d /\ Syncs(d)
  /\ past' = <<>> /\ future' = <<>>
  /\ drag' = NoDrag
  /\ timer' = TRUE
  /\ snapshot' = saved
  /\ undone' = NoDocument
  /\ UNCHANGED <<saved, autosaved>>

-----------------------------------------------------------------------------
\* What the page does by itself.

\* The effect of useStudioNodeLifecycle updates every node that is out of step
\* from the document of one render: each update is an edit of its own that puts
\* that document into the history.
Reconcile ==
  /\ ~Settled
  /\ Becomes(InStep(document))
  /\ past' = Pushed(past, document, Cardinality(OutOfStep(document)))
  /\ future' = <<>>
  /\ UNCHANGED <<counters, saved, autosaved, snapshot, undone, actions>>

Autosave ==
  /\ timer
  /\ timer' = FALSE
  /\ autosaved' = document
  /\ UNCHANGED <<document, past, future, counters, drag, saved, snapshot, undone, actions>>

Next ==
  \/ AddNode
  \/ \E id \in Ids(document), v \in Values : EditNode(id, v)
  \/ \E ids \in SUBSET Ids(document) : DeleteNodes(ids) \/ DuplicateNodes(ids)
  \/ \E channel \in Channels, source, target \in Ids(document) :
       ConnectPorts(channel, source, target)
  \/ \E e \in document.edges : DisconnectEdge(e)
  \/ Undo \/ Redo
  \/ \E n \in document.nodes : BeginDrag(n)
  \/ \E offset \in Offsets : Move(offset)
  \/ Drop
  \/ SaveWorkflow \/ LoadSavedWorkflow \/ ClearWorkflow \/ Reload
  \/ Reconcile \/ Autosave

Spec == Init /\ [][Next]_vars

\* React runs effects and the timer fires.
FairSpec == Spec /\ WF_vars(Reconcile) /\ WF_vars(Autosave)
-----------------------------------------------------------------------------
\* Ids name one node and one edge, every edge joins two nodes, and a port that
\* takes one edge has at most one.
UniqueIds(d) ==
  /\ \A m, n \in d.nodes : m.id = n.id => m = n
  /\ \A e, f \in d.edges : e.id = f.id => e = f
Attached(d) == \A e \in d.edges : e.source \in Ids(d) /\ e.target \in Ids(d)
SingleFed(d) ==
  \A e, f \in d.edges :
    (e.channel = "data" /\ f.channel = "data" /\ e.target = f.target) => e = f
Sound(d) == UniqueIds(d) /\ Attached(d) /\ SingleFed(d)

\* Every document a user can come back to is sound (the one shown, the undo and
\* redo entries, the one a drag will record, both slots), and the ids given out
\* next are new to the document although undo and load set the counters back.
DocumentsSound ==
  /\ Sound(document)
  /\ \A n \in document.nodes : n.id < counters.node
  /\ \A e \in document.edges : e.id < counters.edge
  /\ \A i \in DOMAIN past : Sound(past[i])
  /\ \A i \in DOMAIN future : Sound(future[i])
  /\ drag # NoDrag => Sound(drag.before)
  /\ \A slot \in {saved, autosaved} : slot # NoDocument => Sound(slot)

Dirty == IF snapshot = NoDocument THEN document # Empty ELSE document # snapshot

\* "Saved" in the toolbar is true: what it calls saved is what a load would
\* bring back, or there is no save and the canvas is empty.
SavedIsSaved ==
  ~Dirty => document = IF saved = NoDocument THEN Empty ELSE saved

\* Reconciliation ends and the autosave catches up with every document, so a
\* reload shows what was there.
AutosaveCatchesUp == []<>(Settled /\ autosaved = document)

\* "Undo: Revert the most recent workflow edit." (StudioToolbar.tsx:133): once the
\* page has settled after an undo the document is not the one that was undone.
UndoReverts == (undone # NoDocument /\ Settled) => document # undone

\* Undo and redo only move along what was recorded: neither loses a document, whatever
\* the limit, and an edit forgets only what was undone and what is beyond the limit.
History == INSTANCE EditHistory WITH Limit <- MaxHistory, at <- Len(past) + 1,
             timeline <- past \o <<document>> \o future
HistoryHolds == /\ History!HistorySpec
                /\ [][Undo => History!Undone]_vars
                /\ [][Redo => History!Redone]_vars
=============================================================================
