------------------------ MODULE StudioDocument_proofs ------------------------
(***************************************************************************)
(* Every document the Studio page holds is sound, for every history limit, *)
(* every number of nodes and every sequence of edits, undos, drags, loads  *)
(* and reloads.                                                            *)
(*                                                                         *)
(* "Good" is what an edit needs of the document and leaves behind: typed,  *)
(* finite and sound.  The lemmas show it of each operation of the reducer; *)
(* the invariant says it of every place a document is kept, and that the   *)
(* counters are above the ids of the document that is shown.               *)
(***************************************************************************)
EXTENDS StudioDocument, FiniteSetTheorems, FunctionTheorems, SequenceTheorems, TLAPS

Good == {d \in Documents : IsFiniteSet(d.nodes) /\ IsFiniteSet(d.edges) /\ Sound(d)}

\* The next ids are new to the document.
Below(d, c) ==
  /\ \A n \in d.nodes : n.id < c.node
  /\ \A e \in d.edges : e.id < c.edge

Counters == [node : Nat \ {0}, edge : Nat \ {0}]

LEMMA ImageFinite ==
  ASSUME NEW S, IsFiniteSet(S), NEW f, DOMAIN f = S, f = [x \in S |-> f[x]]
  PROVE  IsFiniteSet({f[x] : x \in S})
<1> DEFINE T == {f[x] : x \in S}
<1>1. f \in [S -> T] /\ \A t \in T : \E x \in S : f[x] = t
  OBVIOUS
<1>2. f \in Surjection(S, T)
  BY <1>1, Fun_IsSurj
<1> QED BY <1>2, FS_Surjection

LEMMA EmptyGood == Empty \in Good /\ Below(Empty, [node |-> 1, edge |-> 1])
  BY FS_EmptySet DEF Empty, Good, Documents, Sound, UniqueIds, Attached, SingleFed, Ids, Below

LEMMA CountTypes ==
  ASSUME NEW v \in Nat
  PROVE  Literal(v) \in Counts /\ InputFrom(v) \in Counts /\ NoCount \in Counts
  BY DEF Literal, InputFrom, NoCount, Counts

\* A subset of the nodes with every edge between them, or fewer edges.
LEMMA RemovalGood ==
  ASSUME NEW d \in Good, NEW next \in Documents,
         next.nodes \subseteq d.nodes, next.edges \subseteq d.edges,
         Attached(next)
  PROVE  next \in Good
<1>1. IsFiniteSet(next.nodes) /\ IsFiniteSet(next.edges)
  BY FS_Subset DEF Good
<1>2. UniqueIds(next) /\ SingleFed(next)
  BY DEF Good, Sound, UniqueIds, SingleFed
<1> QED BY <1>1, <1>2 DEF Good, Sound

LEMMA WithoutGood ==
  ASSUME NEW d \in Good, NEW ids
  PROVE  Without(d, ids) \in Good
<1> DEFINE next == Without(d, ids)
<1>1. next \in Documents /\ next.nodes \subseteq d.nodes /\ next.edges \subseteq d.edges
  BY DEF Good, Documents, Without
<1>2. Attached(next)
  BY DEF Good, Sound, Attached, Ids, Without
<1> QED BY <1>1, <1>2, RemovalGood

LEMMA WithoutEdgeGood ==
  ASSUME NEW d \in Good, NEW id
  PROVE  WithoutEdge(d, id) \in Good
<1> DEFINE next == WithoutEdge(d, id)
<1>1. next \in Documents /\ next.nodes = d.nodes /\ next.edges \subseteq d.edges
  BY DEF Good, Documents, WithoutEdge
<1>2. Attached(next)
  BY <1>1 DEF Good, Sound, Attached, Ids
<1> QED BY <1>1, <1>2, RemovalGood

LEMMA WithNewGood ==
  ASSUME NEW d \in Good, NEW id \in Nat \ {0}, \A n \in d.nodes : n.id < id
  PROVE  WithNew(d, id) \in Good
<1> DEFINE next == WithNew(d, id)
           new == [id |-> id, at |-> 0, count |-> Literal(1)]
<1>1. new \in Nodes
  BY CountTypes DEF Nodes
<1>2. /\ next \in Documents
      /\ next.nodes = d.nodes \cup {new}
      /\ next.edges = d.edges
  BY <1>1 DEF WithNew, Good, Documents
<1>3. IsFiniteSet(next.nodes) /\ IsFiniteSet(next.edges)
  BY <1>2, FS_AddElement DEF Good
<1>4. \A n \in d.nodes : n.id \in Nat
  BY DEF Good, Documents, Nodes
<1>5. UniqueIds(next)
  BY <1>2, <1>4 DEF Good, Sound, UniqueIds
<1>6. Attached(next) /\ SingleFed(next)
  BY <1>2 DEF Good, Sound, Attached, SingleFed, Ids
<1> QED BY <1>2, <1>3, <1>5, <1>6 DEF Good, Sound

\* Changing nodes one by one, ids kept.
LEMMA ChangeGood ==
  ASSUME NEW d \in Good, NEW f \in [d.nodes -> Nodes],
         \A n \in d.nodes : f[n].id = n.id,
         NEW next, next = [d EXCEPT !.nodes = {f[n] : n \in d.nodes}]
  PROVE  next \in Good /\ Ids(next) = Ids(d)
<1>0. next = [nodes |-> {f[n] : n \in d.nodes}, edges |-> d.edges]
  BY DEF Good, Documents
<1>1. next \in Documents
  BY <1>0 DEF Good, Documents
<1>2. IsFiniteSet(next.nodes) /\ IsFiniteSet(next.edges)
  BY <1>0, ImageFinite DEF Good
<1>3. Ids(next) = Ids(d)
  BY <1>0 DEF Ids
<1>4. UniqueIds(next)
  BY <1>0 DEF Good, Sound, UniqueIds
<1>5. Attached(next) /\ SingleFed(next)
  BY <1>0, <1>3 DEF Good, Sound, Attached, SingleFed
<1> QED BY <1>1, <1>2, <1>3, <1>4, <1>5 DEF Good, Sound

LEMMA WithCountGood ==
  ASSUME NEW d \in Good, NEW id, NEW count \in Counts
  PROVE  WithCount(d, id, count) \in Good /\ Ids(WithCount(d, id, count)) = Ids(d)
<1> DEFINE f == [n \in d.nodes |-> IF n.id = id THEN [n EXCEPT !.count = count] ELSE n]
<1>1. f \in [d.nodes -> Nodes] /\ \A n \in d.nodes : f[n].id = n.id
  BY DEF Good, Documents, Nodes
<1>2. WithCount(d, id, count) = [d EXCEPT !.nodes = {f[n] : n \in d.nodes}]
  <2>1. {f[n] : n \in d.nodes}
          = {IF n.id = id THEN [n EXCEPT !.count = count] ELSE n : n \in d.nodes}
    OBVIOUS
  <2> QED BY <2>1, Zenon DEF WithCount
<1> HIDE DEF f
<1> QED BY <1>1, <1>2, ChangeGood

LEMMA WithPlaceGood ==
  ASSUME NEW d \in Good, NEW id, NEW at \in Nat
  PROVE  WithPlace(d, id, at) \in Good /\ Ids(WithPlace(d, id, at)) = Ids(d)
<1> DEFINE f == [n \in d.nodes |-> IF n.id = id THEN [n EXCEPT !.at = at] ELSE n]
<1>1. f \in [d.nodes -> Nodes] /\ \A n \in d.nodes : f[n].id = n.id
  BY DEF Good, Documents, Nodes
<1>2. WithPlace(d, id, at) = [d EXCEPT !.nodes = {f[n] : n \in d.nodes}]
  <2>1. {f[n] : n \in d.nodes}
          = {IF n.id = id THEN [n EXCEPT !.at = at] ELSE n : n \in d.nodes}
    OBVIOUS
  <2> QED BY <2>1, Zenon DEF WithPlace
<1> HIDE DEF f
<1> QED BY <1>1, <1>2, ChangeGood

LEMMA InStepGood ==
  ASSUME NEW d \in Good
  PROVE  InStep(d) \in Good /\ Ids(InStep(d)) = Ids(d)
<1> DEFINE f == [n \in d.nodes |-> [n EXCEPT !.count = Wanted(d, n)]]
<1>1. ASSUME NEW n \in d.nodes PROVE Wanted(d, n) \in Counts
  <2>1. n.count \in Counts
    BY DEF Good, Documents, Nodes
  <2>2. \A e \in Feeding(d, n) : e.source \in Nat
    BY DEF Good, Documents, Edges, Feeding
  <2>3. CASE Feeding(d, n) # {}
    <3>1. (CHOOSE e \in Feeding(d, n) : TRUE) \in Feeding(d, n)
      BY <2>3
    <3> QED BY <2>2, <2>3, <3>1, CountTypes DEF Wanted
  <2>4. CASE Feeding(d, n) = {}
    BY <2>1, <2>4, CountTypes DEF Wanted
  <2> QED BY <2>3, <2>4
<1>2. f \in [d.nodes -> Nodes] /\ \A n \in d.nodes : f[n].id = n.id
  BY <1>1 DEF Good, Documents, Nodes
<1>3. InStep(d) = [d EXCEPT !.nodes = {f[n] : n \in d.nodes}]
  <2>1. {f[n] : n \in d.nodes} = {[n EXCEPT !.count = Wanted(d, n)] : n \in d.nodes}
    OBVIOUS
  <2> QED BY <2>1, Zenon DEF InStep
<1> HIDE DEF f
<1> QED BY <1>2, <1>3, ChangeGood

\* The new edge takes the place of those at a port that takes one.
LEMMA WithEdgeGood ==
  ASSUME NEW d \in Good, NEW id \in Nat \ {0}, \A e \in d.edges : e.id < id,
         NEW channel \in Channels, NEW source \in Ids(d), NEW target \in Ids(d)
  PROVE  WithEdge(d, id, channel, source, target) \in Good
<1> DEFINE next == WithEdge(d, id, channel, source, target)
           new == [id |-> id, channel |-> channel, source |-> source, target |-> target]
           rest == d.edges \ Replaced(d, channel, target)
<1>1. new \in Edges
  BY DEF Edges, Ids, Good, Documents, Nodes
<1>2. /\ next \in Documents
      /\ next.nodes = d.nodes
      /\ next.edges = rest \cup {new}
  BY <1>1 DEF WithEdge, Good, Documents
<1>3. IsFiniteSet(next.nodes) /\ IsFiniteSet(next.edges)
  <2>1. rest \in SUBSET d.edges /\ IsFiniteSet(d.edges)
    BY DEF Good
  <2>2. IsFiniteSet(rest)
    BY <2>1, FS_Subset
  <2>3. IsFiniteSet(rest \cup {new}) /\ IsFiniteSet(d.nodes)
    BY <2>2, FS_AddElement DEF Good
  <2> QED BY <1>2, <2>3, Zenon
<1>4. \A e \in d.edges : e.id \in Nat /\ e.id # id
  BY DEF Good, Documents, Edges
<1>5. UniqueIds(next)
  BY <1>2, <1>4 DEF Good, Sound, UniqueIds
<1>6. Attached(next)
  BY <1>2 DEF Good, Sound, Attached, Ids
<1>7. SingleFed(next)
  <2>1. \A e \in rest : ~(channel = "data" /\ e.channel = "data" /\ e.target = target)
    BY DEF Replaced
  <2>2. \A e, f \in d.edges :
          (e.channel = "data" /\ f.channel = "data" /\ e.target = f.target) => e = f
    BY DEF Good, Sound, SingleFed
  <2> QED BY <1>2, <2>1, <2>2 DEF SingleFed
<1> QED BY <1>2, <1>3, <1>5, <1>6, <1>7 DEF Good, Sound

\* The ids of a good document are finitely many numbers.
LEMMA IdsFinite ==
  ASSUME NEW d \in Good, NEW ids \in SUBSET Ids(d)
  PROVE  /\ ids \subseteq Nat \ {0} /\ IsFiniteSet(ids) /\ Cardinality(ids) \in Nat
         /\ Inner(d, ids) \subseteq Nat \ {0} /\ IsFiniteSet(Inner(d, ids))
         /\ Cardinality(Inner(d, ids)) \in Nat
<1> DEFINE inside == {e \in d.edges : e.source \in ids /\ e.target \in ids}
           nodeId == [n \in d.nodes |-> n.id]
           edgeId == [e \in inside |-> e.id]
<1>1. Ids(d) \subseteq Nat \ {0} /\ Inner(d, ids) \subseteq Nat \ {0}
  BY DEF Ids, Inner, Good, Documents, Nodes, Edges
<1>2. IsFiniteSet(Ids(d))
  <2>1. IsFiniteSet({nodeId[n] : n \in d.nodes})
    BY ImageFinite DEF Good
  <2> QED BY <2>1 DEF Ids
<1>3. IsFiniteSet(Inner(d, ids))
  <2>1. inside \in SUBSET d.edges /\ IsFiniteSet(d.edges)
    BY DEF Good
  <2>2. IsFiniteSet(inside)
    BY <2>1, FS_Subset
  <2>3. IsFiniteSet({edgeId[e] : e \in inside})
    BY <2>2, ImageFinite
  <2> QED BY <2>3 DEF Inner
<1>4. IsFiniteSet(ids)
  BY <1>2, FS_Subset
<1> QED BY <1>1, <1>3, <1>4, FS_CardinalityType

\* A renaming gives different new ids, all of them below the next counter.
LEMMA RenamingFacts ==
  ASSUME NEW ids \in SUBSET Nat, Cardinality(ids) \in Nat,
         NEW first \in Nat \ {0}, NEW f \in Renamings(ids, first)
  PROVE  /\ DOMAIN f = ids
         /\ \A i \in ids : f[i] \in Nat \ {0} /\ first <= f[i]
                           /\ f[i] < first + Cardinality(ids)
         /\ \A i, j \in ids : f[i] = f[j] => i = j
<1>1. f \in [ids -> first..(first + Cardinality(ids) - 1)]
  BY DEF Renamings
<1>2. \A i \in ids : f[i] \in Nat \ {0} /\ first <= f[i] /\ f[i] < first + Cardinality(ids)
  BY <1>1
<1>3. \A i, j \in ids : i < j => f[i] < f[j]
  BY DEF Renamings
<1>4. ASSUME NEW i \in ids, NEW j \in ids, f[i] = f[j] PROVE i = j
  <2>1. i \in Nat /\ j \in Nat
    OBVIOUS
  <2>2. ~(i < j) /\ ~(j < i)
    BY <1>2, <1>3, <1>4
  <2> QED BY <2>1, <2>2
<1> QED BY <1>1, <1>2, <1>4

\* Copies of some nodes and of the edges between them.
LEMMA WithCopiesGood ==
  ASSUME NEW d \in Good, NEW c \in Counters, Below(d, c), NEW ids \in SUBSET Ids(d),
         NEW f \in Renamings(ids, c.node), NEW g \in Renamings(Inner(d, ids), c.edge)
  PROVE  /\ WithCopies(d, f, g) \in Good
         /\ Below(WithCopies(d, f, g), [node |-> c.node + Cardinality(ids),
                                        edge |-> c.edge + Cardinality(Inner(d, ids))])
<1> DEFINE inner == Inner(d, ids)
           next == WithCopies(d, f, g)
           node(n) == [id |-> f[n.id], at |-> n.at + 1, count |-> n.count]
           edge(e) == [id |-> g[e.id], channel |-> e.channel,
                       source |-> f[e.source], target |-> f[e.target]]
           nodes == {n \in d.nodes : n.id \in ids}
           edges == {e \in d.edges : e.id \in inner}
<1>1. /\ c.node \in Nat \ {0} /\ c.edge \in Nat \ {0}
      /\ ids \subseteq Nat \ {0} /\ Cardinality(ids) \in Nat
      /\ inner \subseteq Nat \ {0} /\ Cardinality(inner) \in Nat
  BY IdsFinite DEF Counters
<1>2. /\ DOMAIN f = ids
      /\ \A i \in ids : f[i] \in Nat \ {0} /\ c.node <= f[i]
                        /\ f[i] < c.node + Cardinality(ids)
      /\ \A i, j \in ids : f[i] = f[j] => i = j
  BY <1>1, RenamingFacts
<1>3. /\ DOMAIN g = inner
      /\ \A i \in inner : g[i] \in Nat \ {0} /\ c.edge <= g[i]
                          /\ g[i] < c.edge + Cardinality(inner)
      /\ \A i, j \in inner : g[i] = g[j] => i = j
  <2> inner \in SUBSET Nat
    BY <1>1
  <2> HIDE DEF inner
  <2> QED BY <1>1, RenamingFacts DEF inner
<1>4. \A n \in d.nodes : /\ n.id \in Nat \ {0} /\ n.id < c.node /\ n.at \in Nat /\ n.count \in Counts
                         /\ n = [id |-> n.id, at |-> n.at, count |-> n.count]
  BY DEF Good, Documents, Nodes, Below
<1>5. \A e \in d.edges : /\ e.id \in Nat \ {0} /\ e.id < c.edge /\ e.channel \in Channels
                         /\ e.source \in Ids(d) /\ e.target \in Ids(d)
                         /\ e.source \in Nat /\ e.target \in Nat
                         /\ e = [id |-> e.id, channel |-> e.channel,
                                 source |-> e.source, target |-> e.target]
  BY DEF Good, Documents, Edges, Below, Sound, Attached
<1>6. \A e \in edges : e \in d.edges /\ e.id \in inner /\ e.source \in ids /\ e.target \in ids
  <2> SUFFICES ASSUME NEW e \in edges PROVE e.source \in ids /\ e.target \in ids
    OBVIOUS
  <2>1. PICK e0 \in d.edges : e0.id = e.id /\ e0.source \in ids /\ e0.target \in ids
    BY DEF Inner
  <2>2. e0 = e
    BY <2>1 DEF Good, Sound, UniqueIds
  <2> QED BY <2>1, <2>2
<1>7. next.nodes = d.nodes \cup {node(n) : n \in nodes}
  BY <1>2, Zenon DEF WithCopies
<1>8. next.edges = d.edges \cup {edge(e) : e \in edges}
  BY <1>3, Zenon DEF WithCopies
<1>9. \A n \in nodes : /\ n \in d.nodes /\ n.id \in ids
                       /\ node(n) \in Nodes /\ node(n).id = f[n.id]
  BY <1>2, <1>4 DEF Nodes
<1>10. \A e \in edges : /\ edge(e) \in Edges /\ edge(e).id = g[e.id]
                        /\ edge(e).channel = e.channel
                        /\ edge(e).source = f[e.source] /\ edge(e).target = f[e.target]
  BY <1>2, <1>3, <1>5, <1>6 DEF Edges
<1>11. next \in Documents
  <2>1. d.nodes \subseteq Nodes /\ d.edges \subseteq Edges
    BY DEF Good, Documents
  <2>2. next.nodes \subseteq Nodes
    BY <2>1, <1>7, <1>9
  <2>3. next.edges \subseteq Edges
    BY <2>1, <1>8, <1>10
  <2>4. next = [nodes |-> next.nodes, edges |-> next.edges]
    BY DEF WithCopies
  <2> QED BY <2>2, <2>3, <2>4 DEF Documents
<1>12. IsFiniteSet(next.nodes) /\ IsFiniteSet(next.edges)
  <2> DEFINE fn == [n \in nodes |-> node(n)]
             fe == [e \in edges |-> edge(e)]
  <2>1. nodes \in SUBSET d.nodes /\ edges \in SUBSET d.edges
        /\ IsFiniteSet(d.nodes) /\ IsFiniteSet(d.edges)
    BY DEF Good
  <2>2. IsFiniteSet(nodes) /\ IsFiniteSet(edges)
    BY <2>1, FS_Subset
  <2> HIDE DEF node, edge, nodes, edges
  <2>3. IsFiniteSet({fn[n] : n \in nodes}) /\ IsFiniteSet({fe[e] : e \in edges})
    <3>1. IsFiniteSet({fn[n] : n \in nodes})
      BY <2>2, ImageFinite
    <3>2. IsFiniteSet({fe[e] : e \in edges})
      BY <2>2, ImageFinite
    <3> QED BY <3>1, <3>2
  <2>4. {fn[n] : n \in nodes} = {node(n) : n \in nodes}
        /\ {fe[e] : e \in edges} = {edge(e) : e \in edges}
    OBVIOUS
  <2>5. IsFiniteSet(d.nodes \cup {node(n) : n \in nodes})
        /\ IsFiniteSet(d.edges \cup {edge(e) : e \in edges})
    BY <2>1, <2>3, <2>4, FS_Union
  <2> QED BY <2>5, <1>7, <1>8, Zenon
<1> HIDE DEF next, node, edge, inner
<1>13. UniqueIds(next)
  <2>1. \A m, n \in next.nodes : m.id = n.id => m = n
    <3>1. \A m, n \in d.nodes : m.id = n.id => m = n
      BY DEF Good, Sound, UniqueIds
    <3>2. \A m \in d.nodes, n \in nodes : m.id # node(n).id
      BY <1>1, <1>2, <1>4, <1>9
    <3>3. \A m, n \in nodes : node(m).id = node(n).id => node(m) = node(n)
      BY <3>1, <1>2, <1>9
    <3> QED BY <3>1, <3>2, <3>3, <1>7
  <2>2. \A e, h \in next.edges : e.id = h.id => e = h
    <3>1. \A e, h \in d.edges : e.id = h.id => e = h
      BY DEF Good, Sound, UniqueIds
    <3>2. \A e \in d.edges, h \in edges : e.id # edge(h).id
      BY <1>1, <1>3, <1>5, <1>6, <1>10
    <3>3. \A e, h \in edges : edge(e).id = edge(h).id => edge(e) = edge(h)
      BY <3>1, <1>3, <1>6, <1>10
    <3> QED BY <3>1, <3>2, <3>3, <1>8
  <2> QED BY <2>1, <2>2 DEF UniqueIds
<1>14. Attached(next)
  <2>1. Ids(d) \subseteq Ids(next)
    BY <1>7 DEF Ids
  <2>2. \A i \in ids : f[i] \in Ids(next)
    <3> TAKE i \in ids
    <3>1. PICK n \in nodes : n.id = i
      BY DEF Ids
    <3>2. node(n) \in next.nodes /\ node(n).id = f[i]
      BY <3>1, <1>7, <1>9
    <3> QED BY <3>2 DEF Ids
  <2> QED BY <2>1, <2>2, <1>5, <1>6, <1>8, <1>10 DEF Attached
<1>15. SingleFed(next)
  <2>1. \A e, h \in d.edges :
          (e.channel = "data" /\ h.channel = "data" /\ e.target = h.target) => e = h
    BY DEF Good, Sound, SingleFed
  <2>2. \A e \in d.edges : e.target < c.node
    BY <1>4, <1>5 DEF Ids
  <2>3. \A e \in d.edges, h \in edges : e.target # edge(h).target
    BY <2>2, <1>1, <1>2, <1>5, <1>6, <1>10
  <2>4. \A e, h \in edges :
          (edge(e).channel = "data" /\ edge(h).channel = "data"
           /\ edge(e).target = edge(h).target) => edge(e) = edge(h)
    BY <2>1, <1>2, <1>6, <1>10
  <2> QED BY <2>1, <2>3, <2>4, <1>8 DEF SingleFed
<1>16. \A n \in next.nodes : n.id < c.node + Cardinality(ids)
  BY <1>1, <1>2, <1>4, <1>7, <1>9
<1>17. \A e \in next.edges : e.id < c.edge + Cardinality(inner)
  BY <1>1, <1>3, <1>5, <1>6, <1>8, <1>10
<1> QED BY <1>11, <1>12, <1>13, <1>14, <1>15, <1>16, <1>17 DEF Good, Sound, Below, next, inner

-----------------------------------------------------------------------------
\* The history and the counters.

LEMMA PushedGood ==
  ASSUME NEW history \in Seq(Good), NEW d \in Good, NEW times \in Nat
  PROVE  Pushed(history, d, times) \in Seq(Good) /\ Len(Pushed(history, d, times)) <= MaxHistory
<1> DEFINE entries == [i \in 1..times |-> d]
           next == history \o entries
<1>1. entries \in Seq(Good)
  BY IsASeq
<1>2. next \in Seq(Good)
  BY <1>1, ConcatProperties
<1> HIDE DEF next
<1>3. Len(next) \in Nat /\ \A i \in 1..Len(next) : next[i] \in Good
  BY <1>2, LenProperties, ElementOfSeq
<1>4. MaxHistory \in Nat \ {0}
  BY ConstantsAssumption
<1>5. CASE Len(next) > MaxHistory
  <2> DEFINE first == Len(next) - MaxHistory + 1
  <2>1. first \in Int /\ Len(next) \in Int /\ \A i \in first..Len(next) : next[i] \in Good
    BY <1>3, <1>4, <1>5
  <2>2. /\ SubSeq(next, first, Len(next)) \in Seq(Good)
        /\ Len(SubSeq(next, first, Len(next)))
             = IF first <= Len(next) THEN Len(next) - first + 1 ELSE 0
    BY <2>1, SubSeqProperties
  <2>3. Len(SubSeq(next, first, Len(next))) = MaxHistory
    BY <2>2, <1>3, <1>4, <1>5
  <2> QED BY <2>2, <2>3, <1>4, <1>5 DEF Pushed, next
<1>6. CASE ~(Len(next) > MaxHistory)
  BY <1>2, <1>3, <1>4, <1>6 DEF Pushed, next
<1> QED BY <1>5, <1>6

\* syncCountersFromDocument leaves the next ids above those of the document.
LEMMA SyncsBelow ==
  ASSUME NEW d \in Good, Syncs(d)
  PROVE  counters' \in Counters /\ Below(d, counters')
<1>1. PICK k \in {1} \cup {n.id + 1 : n \in d.nodes}, l \in {1} \cup {e.id + 1 : e \in d.edges} :
        counters' = [node |-> k, edge |-> l] /\ Derived(d, counters')
  BY DEF Syncs
<1>2. (\A n \in d.nodes : n.id \in Nat) /\ (\A e \in d.edges : e.id \in Nat)
  BY DEF Good, Documents, Nodes, Edges
<1>3. k \in Nat \ {0} /\ l \in Nat \ {0}
  BY <1>2
<1> QED BY <1>1, <1>3 DEF Counters, Derived, Below

-----------------------------------------------------------------------------
\* The invariant.

Drags == [node : Nat \ {0}, before : Good, from : Nat]
Slots == Good \cup {NoDocument}

\* Wherever a document is kept it is good, and the page takes for saved what
\* the slot of the manual save holds.
IInv ==
  /\ document \in Good
  /\ counters \in Counters /\ Below(document, counters)
  /\ past \in Seq(Good) /\ Len(past) <= MaxHistory
  /\ future \in Seq(Good)
  /\ drag \in Drags \cup {NoDrag}
  /\ saved \in Slots /\ autosaved \in Slots /\ undone \in Slots
  /\ snapshot = saved
  /\ timer \in BOOLEAN
  /\ actions \in Nat

LEMMA InitIInv == Init => IInv
<1> SUFFICES ASSUME Init PROVE IInv
  OBVIOUS
<1>1. <<>> \in Seq(Good) /\ Len(<<>>) <= MaxHistory
  BY EmptySeq, ConstantsAssumption
<1>2. [node |-> 1, edge |-> 1] \in Counters
  BY DEF Counters
<1> QED BY <1>1, <1>2, EmptyGood DEF Init, IInv, Slots

LEMMA BecomesKeeps ==
  ASSUME IInv, NEW next \in Good, Becomes(next)
  PROVE  document' = next /\ drag' \in Drags \cup {NoDrag} /\ timer' \in BOOLEAN
  BY DEF IInv, Becomes, Kept

LEMMA EditsKeeps ==
  ASSUME IInv, NEW next \in Good, Edits(next),
         counters' \in Counters, Below(next, counters'), actions' \in Nat
  PROVE  IInv'
<1>1. document' = next /\ drag' \in Drags \cup {NoDrag} /\ timer' \in BOOLEAN
  BY BecomesKeeps DEF Edits
<1>2. past' \in Seq(Good) /\ Len(past') <= MaxHistory
  BY PushedGood DEF Edits, IInv
<1>3. future' \in Seq(Good)
  BY EmptySeq DEF Edits
<1> QED BY <1>1, <1>2, <1>3 DEF Edits, IInv, Slots

LEMMA ActsCounts ==
  ASSUME IInv, Acts
  PROVE  actions' \in Nat
  BY DEF IInv, Acts

\* The counters are left as they are and no id is new.
LEMMA OldIdsKeep ==
  ASSUME IInv, NEW next, UNCHANGED counters,
         \A n \in next.nodes : n.id \in Ids(document),
         next.edges \subseteq document.edges
  PROVE  counters' \in Counters /\ Below(next, counters')
  BY DEF IInv, Below, Ids

LEMMA AddNodeKeeps ==
  ASSUME IInv, AddNode
  PROVE  IInv'
<1> DEFINE next == WithNew(document, counters.node)
<1>1. counters.node \in Nat \ {0} /\ counters.edge \in Nat \ {0}
      /\ counters' = [node |-> counters.node + 1, edge |-> counters.edge]
  BY DEF IInv, Counters, AddNode
<1>2. next \in Good
  BY <1>1, WithNewGood DEF IInv, Below
<1>3. next.nodes = document.nodes \cup {[id |-> counters.node, at |-> 0, count |-> Literal(1)]}
      /\ next.edges = document.edges
  BY DEF WithNew, IInv, Good, Documents
<1>4. \A n \in document.nodes : n.id \in Nat /\ n.id < counters.node
  BY DEF IInv, Good, Documents, Nodes, Below
<1>5. counters' \in Counters /\ Below(next, counters')
  <2>1. \A n \in next.nodes : n.id < counters.node + 1
    BY <1>1, <1>3, <1>4
  <2>2. \A e \in next.edges : e.id < counters.edge
    BY <1>3 DEF IInv, Below
  <2> QED BY <1>1, <2>1, <2>2 DEF Below, Counters
<1> QED BY <1>2, <1>5, EditsKeeps, ActsCounts DEF AddNode, Points

LEMMA EditNodeKeeps ==
  ASSUME IInv, NEW id, NEW v \in Values, EditNode(id, v)
  PROVE  IInv'
<1> DEFINE next == WithCount(document, id, Literal(v))
<1>1. Literal(v) \in Counts
  BY CountTypes, ConstantsAssumption
<1>2. next \in Good /\ Ids(next) = Ids(document)
  BY <1>1, WithCountGood DEF IInv
<1>3. next.edges = document.edges /\ \A n \in next.nodes : n.id \in Ids(document)
  <2>1. next.edges = document.edges
    BY DEF WithCount, IInv, Good, Documents
  <2> HIDE DEF next
  <2> QED BY <1>2, <2>1 DEF Ids
<1>4. counters' \in Counters /\ Below(next, counters')
  BY <1>3, OldIdsKeep DEF EditNode
<1> QED BY <1>2, <1>4, EditsKeeps, ActsCounts DEF EditNode, Points

LEMMA DeleteNodesKeeps ==
  ASSUME IInv, NEW ids, DeleteNodes(ids)
  PROVE  IInv'
<1> DEFINE next == Without(document, ids)
<1>1. next \in Good
  BY WithoutGood DEF IInv
<1>2. next.edges \subseteq document.edges /\ \A n \in next.nodes : n.id \in Ids(document)
  BY DEF Without, Ids
<1>3. counters' \in Counters /\ Below(next, counters')
  BY <1>2, OldIdsKeep DEF DeleteNodes
<1> QED BY <1>1, <1>3, EditsKeeps, ActsCounts DEF DeleteNodes

LEMMA DuplicateNodesKeeps ==
  ASSUME IInv, NEW ids \in SUBSET Ids(document), DuplicateNodes(ids)
  PROVE  IInv'
<1> DEFINE inner == Inner(document, ids)
<1>1. PICK f \in Renamings(ids, counters.node), g \in Renamings(inner, counters.edge) :
        Edits(WithCopies(document, f, g))
  BY DEF DuplicateNodes
<1> DEFINE next == WithCopies(document, f, g)
<1>2. /\ next \in Good
      /\ Below(next, [node |-> counters.node + Cardinality(ids),
                      edge |-> counters.edge + Cardinality(inner)])
  BY WithCopiesGood DEF IInv
<1>3. counters' = [node |-> counters.node + Cardinality(ids),
                   edge |-> counters.edge + Cardinality(inner)]
  BY DEF DuplicateNodes
<1>4. counters' \in Counters
  <2>1. Cardinality(ids) \in Nat /\ Cardinality(inner) \in Nat
    BY IdsFinite DEF IInv
  <2>2. counters.node \in Nat \ {0} /\ counters.edge \in Nat \ {0}
    BY DEF IInv, Counters
  <2> HIDE DEF inner
  <2> QED BY <1>3, <2>1, <2>2 DEF Counters
<1> QED BY <1>1, <1>2, <1>3, <1>4, EditsKeeps, ActsCounts DEF DuplicateNodes

LEMMA ConnectPortsKeeps ==
  ASSUME IInv, NEW channel \in Channels,
         NEW source \in Ids(document), NEW target \in Ids(document),
         ConnectPorts(channel, source, target)
  PROVE  IInv'
<1> DEFINE next == WithEdge(document, counters.edge, channel, source, target)
<1>1. counters.node \in Nat \ {0} /\ counters.edge \in Nat \ {0}
      /\ counters' = [node |-> counters.node, edge |-> counters.edge + 1]
  BY DEF IInv, Counters, ConnectPorts
<1>2. next \in Good
  BY <1>1, WithEdgeGood DEF IInv, Below
<1>3. next.nodes = document.nodes
      /\ \A e \in next.edges : e \in document.edges \/ e.id = counters.edge
  BY DEF WithEdge, IInv, Good, Documents
<1>4. \A e \in document.edges : e.id \in Nat /\ e.id < counters.edge
  BY DEF IInv, Good, Documents, Edges, Below
<1>5. counters' \in Counters /\ Below(next, counters')
  <2>1. \A n \in next.nodes : n.id < counters.node
    BY <1>3 DEF IInv, Below
  <2>2. \A e \in next.edges : e.id < counters.edge + 1
    BY <1>1, <1>3, <1>4
  <2> QED BY <1>1, <2>1, <2>2 DEF Below, Counters
<1> QED BY <1>2, <1>5, EditsKeeps, ActsCounts DEF ConnectPorts, Points

LEMMA DisconnectEdgeKeeps ==
  ASSUME IInv, NEW e \in document.edges, DisconnectEdge(e)
  PROVE  IInv'
<1> DEFINE next == WithoutEdge(document, e.id)
<1>1. next \in Good
  BY WithoutEdgeGood DEF IInv
<1>2. next.edges \subseteq document.edges /\ \A n \in next.nodes : n.id \in Ids(document)
  BY DEF WithoutEdge, Ids, IInv, Good, Documents
<1>3. counters' \in Counters /\ Below(next, counters')
  BY <1>2, OldIdsKeep DEF DisconnectEdge
<1> QED BY <1>1, <1>3, EditsKeeps, ActsCounts DEF DisconnectEdge, Points

LEMMA ReplacesKeeps ==
  ASSUME IInv, NEW next \in Good, Replaces(next)
  PROVE  /\ document' = next /\ drag' \in Drags \cup {NoDrag} /\ timer' \in BOOLEAN
         /\ counters' \in Counters /\ Below(next, counters')
  BY BecomesKeeps, SyncsBelow DEF Replaces

LEMMA UndoKeeps ==
  ASSUME IInv, Undo
  PROVE  IInv'
<1>1. past \in Seq(Good) /\ Len(past) \in Nat /\ Len(past) > 0 /\ Len(past) <= MaxHistory
  BY EmptySeq, LenProperties DEF IInv, Undo
<1>2. past[Len(past)] \in Good
  BY <1>1, ElementOfSeq
<1>3. past' \in Seq(Good) /\ Len(past') <= MaxHistory
  <2>1. \A i \in 1..(Len(past) - 1) : past[i] \in Good
    BY <1>1, ElementOfSeq
  <2>2. SubSeq(past, 1, Len(past) - 1) \in Seq(Good)
        /\ Len(SubSeq(past, 1, Len(past) - 1))
             = IF 1 <= Len(past) - 1 THEN Len(past) - 1 - 1 + 1 ELSE 0
    BY <1>1, <2>1, SubSeqProperties
  <2>3. past' = SubSeq(past, 1, Len(past) - 1) /\ MaxHistory \in Nat
    BY ConstantsAssumption DEF Undo
  <2> QED BY <1>1, <2>2, <2>3
<1>4. future' \in Seq(Good)
  <2>1. <<document>> \in Seq(Good)
    BY DEF IInv
  <2> QED BY <2>1, ConcatProperties DEF IInv, Undo
<1>5. /\ document' = past[Len(past)] /\ drag' \in Drags \cup {NoDrag} /\ timer' \in BOOLEAN
      /\ counters' \in Counters /\ Below(document', counters')
  BY <1>2, ReplacesKeeps DEF Undo
<1>6. UNCHANGED <<saved, autosaved, snapshot>> /\ undone' = document /\ actions' \in Nat
  BY ActsCounts DEF Undo
<1> QED BY <1>2, <1>3, <1>4, <1>5, <1>6 DEF IInv, Slots

LEMMA RedoKeeps ==
  ASSUME IInv, Redo
  PROVE  IInv'
<1>1. future \in Seq(Good) /\ future # <<>> /\ Len(future) \in Nat /\ 1 \in 1..Len(future)
  BY EmptySeq, LenProperties DEF IInv, Redo
<1>2. future[1] \in Good
  BY <1>1, ElementOfSeq
<1>3. past' \in Seq(Good) /\ Len(past') <= MaxHistory
  BY PushedGood DEF IInv, Redo
<1>4. future' \in Seq(Good)
  BY <1>1, HeadTailProperties DEF Redo
<1>5. /\ document' = future[1] /\ drag' \in Drags \cup {NoDrag} /\ timer' \in BOOLEAN
      /\ counters' \in Counters /\ Below(document', counters')
  BY <1>2, ReplacesKeeps DEF Redo
<1>6. UNCHANGED <<saved, autosaved, snapshot>> /\ undone' = NoDocument /\ actions' \in Nat
  BY ActsCounts DEF Redo
<1> QED BY <1>2, <1>3, <1>4, <1>5, <1>6 DEF IInv, Slots

LEMMA BeginDragKeeps ==
  ASSUME IInv, NEW n \in document.nodes, BeginDrag(n)
  PROVE  IInv'
<1>1. n.id \in Nat \ {0} /\ n.at \in Nat
  BY DEF IInv, Good, Documents, Nodes
<1>2. drag' \in Drags
  BY <1>1 DEF BeginDrag, Drags, IInv
<1>3. actions' \in Nat
  BY ActsCounts DEF BeginDrag, Points
<1> QED BY <1>2, <1>3 DEF BeginDrag, IInv

LEMMA MoveKeeps ==
  ASSUME IInv, NEW offset \in Offsets, Move(offset)
  PROVE  IInv'
<1> DEFINE next == WithPlace(document, drag.node, drag.from + offset)
<1>1. drag.from + offset \in Nat
  BY ConstantsAssumption DEF IInv, Move, Drags
<1>2. next \in Good /\ Ids(next) = Ids(document)
  BY <1>1, WithPlaceGood DEF IInv
<1>3. next.edges = document.edges /\ \A n \in next.nodes : n.id \in Ids(document)
  <2>1. next.edges = document.edges
    BY DEF WithPlace, IInv, Good, Documents
  <2> HIDE DEF next
  <2> QED BY <1>2, <2>1 DEF Ids
<1>4. counters' \in Counters /\ Below(next, counters')
  BY <1>3, OldIdsKeep DEF Move
<1>5. document' = next /\ drag' \in Drags \cup {NoDrag} /\ timer' \in BOOLEAN
  BY <1>2, BecomesKeeps DEF Move
<1> QED BY <1>2, <1>4, <1>5 DEF IInv, Move

LEMMA DropKeeps ==
  ASSUME IInv, Drop
  PROVE  IInv'
<1>1. drag.before \in Good
  BY DEF IInv, Drop, Drags
<1>2. past' \in Seq(Good) /\ Len(past') <= MaxHistory /\ future' \in Seq(Good)
  BY <1>1, PushedGood, EmptySeq DEF IInv, Drop
<1>3. undone' \in Slots
  BY DEF IInv, Drop, Slots
<1> QED BY <1>2, <1>3 DEF IInv, Drop

LEMMA SaveWorkflowKeeps ==
  ASSUME IInv, SaveWorkflow
  PROVE  IInv'
  BY ActsCounts DEF IInv, SaveWorkflow, Slots

LEMMA RestartsKeeps ==
  ASSUME IInv, NEW next \in Good, Restarts(next),
         actions' \in Nat, saved' \in Slots, autosaved' \in Slots, snapshot' = saved'
  PROVE  IInv'
<1>1. /\ document' = next /\ drag' \in Drags \cup {NoDrag} /\ timer' \in BOOLEAN
      /\ counters' \in Counters /\ Below(next, counters')
  BY ReplacesKeeps DEF Restarts
<1>2. <<>> \in Seq(Good) /\ Len(<<>>) <= MaxHistory
  BY EmptySeq, ConstantsAssumption
<1> QED BY <1>1, <1>2 DEF Restarts, IInv, Slots

LEMMA LoadSavedWorkflowKeeps ==
  ASSUME IInv, LoadSavedWorkflow
  PROVE  IInv'
<1>1. saved \in Good /\ saved' \in Slots /\ autosaved' \in Slots /\ snapshot' = saved'
  BY DEF IInv, LoadSavedWorkflow, Slots
<1> QED BY <1>1, RestartsKeeps, ActsCounts DEF LoadSavedWorkflow, Points

LEMMA ClearWorkflowKeeps ==
  ASSUME IInv, ClearWorkflow
  PROVE  IInv'
<1>1. saved' \in Slots /\ autosaved' \in Slots /\ snapshot' = saved'
  BY DEF ClearWorkflow, Slots
<1> QED BY <1>1, EmptyGood, RestartsKeeps, ActsCounts DEF ClearWorkflow, Points

LEMMA ReloadKeeps ==
  ASSUME IInv, Reload
  PROVE  IInv'
<1> DEFINE d == IF autosaved = NoDocument THEN Empty ELSE autosaved
<1>1. d \in Good
  BY EmptyGood DEF IInv, Slots
<1>2. document' = d /\ counters' \in Counters /\ Below(d, counters')
  BY <1>1, SyncsBelow DEF Reload
<1>3. <<>> \in Seq(Good) /\ Len(<<>>) <= MaxHistory
  BY EmptySeq, ConstantsAssumption
<1> HIDE DEF d
<1> QED BY <1>1, <1>2, <1>3 DEF IInv, Reload, Slots

LEMMA ReconcileKeeps ==
  ASSUME IInv, Reconcile
  PROVE  IInv'
<1> DEFINE next == InStep(document)
<1>1. next \in Good /\ Ids(next) = Ids(document)
  BY InStepGood DEF IInv
<1>2. next.edges = document.edges /\ \A n \in next.nodes : n.id \in Ids(document)
  <2>1. next.edges = document.edges
    BY DEF InStep, IInv, Good, Documents
  <2> HIDE DEF next
  <2> QED BY <1>1, <2>1 DEF Ids
<1>3. counters' \in Counters /\ Below(next, counters')
  BY <1>2, OldIdsKeep DEF Reconcile
<1>4. document' = next /\ drag' \in Drags \cup {NoDrag} /\ timer' \in BOOLEAN
  BY <1>1, BecomesKeeps DEF Reconcile
<1>5. Cardinality(OutOfStep(document)) \in Nat
  <2>1. OutOfStep(document) \in SUBSET document.nodes /\ IsFiniteSet(document.nodes)
    BY DEF OutOfStep, IInv, Good
  <2> QED BY <2>1, FS_Subset, FS_CardinalityType
<1>6. past' \in Seq(Good) /\ Len(past') <= MaxHistory /\ future' \in Seq(Good)
  BY <1>5, PushedGood, EmptySeq DEF Reconcile, IInv
<1> QED BY <1>1, <1>3, <1>4, <1>6 DEF Reconcile, IInv

LEMMA AutosaveKeeps ==
  ASSUME IInv, Autosave
  PROVE  IInv'
  BY DEF IInv, Autosave, Slots

LEMMA NextIInv == IInv /\ [Next]_vars => IInv'
<1> SUFFICES ASSUME IInv, [Next]_vars PROVE IInv'
  OBVIOUS
<1>1. CASE UNCHANGED vars
  BY <1>1 DEF vars, IInv
<1>2. CASE Next
  <2>1. CASE AddNode
    BY <2>1, AddNodeKeeps
  <2>2. CASE \E id \in Ids(document), v \in Values : EditNode(id, v)
    BY <2>2, EditNodeKeeps
  <2>3. CASE \E ids \in SUBSET Ids(document) : DeleteNodes(ids)
    BY <2>3, DeleteNodesKeeps
  <2>4. CASE \E ids \in SUBSET Ids(document) : DuplicateNodes(ids)
    BY <2>4, DuplicateNodesKeeps
  <2>5. CASE \E channel \in Channels, source, target \in Ids(document) :
             ConnectPorts(channel, source, target)
    BY <2>5, ConnectPortsKeeps
  <2>6. CASE \E e \in document.edges : DisconnectEdge(e)
    BY <2>6, DisconnectEdgeKeeps
  <2>7. CASE Undo
    BY <2>7, UndoKeeps
  <2>8. CASE Redo
    BY <2>8, RedoKeeps
  <2>9. CASE \E n \in document.nodes : BeginDrag(n)
    BY <2>9, BeginDragKeeps
  <2>10. CASE \E offset \in Offsets : Move(offset)
    BY <2>10, MoveKeeps
  <2>11. CASE Drop
    BY <2>11, DropKeeps
  <2>12. CASE SaveWorkflow
    BY <2>12, SaveWorkflowKeeps
  <2>13. CASE LoadSavedWorkflow
    BY <2>13, LoadSavedWorkflowKeeps
  <2>14. CASE ClearWorkflow
    BY <2>14, ClearWorkflowKeeps
  <2>15. CASE Reload
    BY <2>15, ReloadKeeps
  <2>16. CASE Reconcile
    BY <2>16, ReconcileKeeps
  <2>17. CASE Autosave
    BY <2>17, AutosaveKeeps
  <2> QED
    BY <1>2, <2>1, <2>2, <2>3, <2>4, <2>5, <2>6, <2>7, <2>8, <2>9,
       <2>10, <2>11, <2>12, <2>13, <2>14, <2>15, <2>16, <2>17 DEF Next
<1> QED BY <1>1, <1>2

LEMMA SpecIInv == Spec => []IInv
  BY InitIInv, NextIInv, PTL DEF Spec

-----------------------------------------------------------------------------
\* What the invariant says of the page.

\* Every variable has its type: the history keeps to its limit, the counters are
\* numbers above zero, the slots hold documents.
THEOREM TypeCorrect == Spec => []TypeOK
<1>1. IInv => TypeOK
  <2> SUFFICES ASSUME IInv PROVE TypeOK
    OBVIOUS
  <2>1. Good \subseteq Documents
    BY DEF Good
  <2>2. past \in Seq(Documents) /\ future \in Seq(Documents)
    BY <2>1, SeqMonotonic DEF IInv
  <2> QED BY <2>1, <2>2 DEF IInv, TypeOK, Drags, Slots, Counters
<1> QED BY <1>1, SpecIInv, PTL

\* Ids stay unique, edges stay attached and single ports singly fed in every
\* document the page shows, records, keeps for undo and redo, or stores.
THEOREM DocumentsAlwaysSound == Spec => []DocumentsSound
<1>1. IInv => DocumentsSound
  <2> SUFFICES ASSUME IInv PROVE DocumentsSound
    OBVIOUS
  <2>1. \A d \in Good : Sound(d)
    BY DEF Good
  <2>2. \A i \in DOMAIN past : past[i] \in Good
    BY LenProperties, ElementOfSeq DEF IInv
  <2>3. \A i \in DOMAIN future : future[i] \in Good
    BY LenProperties, ElementOfSeq DEF IInv
  <2>4. drag # NoDrag => drag.before \in Good
    BY DEF IInv, Drags
  <2> QED BY <2>1, <2>2, <2>3, <2>4 DEF IInv, DocumentsSound, Below, Slots
<1> QED BY <1>1, SpecIInv, PTL

\* When the toolbar says "Saved" the canvas shows what a load would bring back.
THEOREM SavedAlwaysSaved == Spec => []SavedIsSaved
<1>1. IInv => SavedIsSaved
  BY DEF IInv, SavedIsSaved, Dirty
<1> QED BY <1>1, SpecIInv, PTL

-----------------------------------------------------------------------------
\* The history implements EditHistory: the line is what can be undone, the document,
\* and what can be redone.

Line == past \o <<document>> \o future

\* The line never outgrows the limit, so that a redo finds room for what it records.
Room == Len(past) + Len(future) <= MaxHistory

\* Where the entries of a line are.
LEMMA LineFacts ==
  ASSUME NEW S, NEW h \in Seq(S), NEW d \in S, NEW f \in Seq(S), NEW l, l = h \o <<d>> \o f
  PROVE  /\ l \in Seq(S) /\ Len(l) = Len(h) + 1 + Len(f)
         /\ Len(h) \in Nat /\ Len(f) \in Nat
         /\ \A i \in 1..Len(h) : l[i] = h[i]
         /\ l[Len(h) + 1] = d
         /\ \A i \in 1..Len(f) : l[Len(h) + 1 + i] = f[i]
<1>1. <<d>> \in Seq(S) /\ Len(<<d>>) = 1 /\ <<d>>[1] = d
  OBVIOUS
<1>2. Len(h) \in Nat /\ Len(f) \in Nat
  BY LenProperties
<1> PICK k : k = h \o <<d>>
  OBVIOUS
<1>3. /\ k \in Seq(S) /\ Len(k) = Len(h) + 1
      /\ \A i \in 1..(Len(h) + 1) : k[i] = IF i <= Len(h) THEN h[i] ELSE <<d>>[i - Len(h)]
  BY <1>1, ConcatProperties
<1>4. /\ l \in Seq(S) /\ Len(l) = Len(k) + Len(f)
      /\ \A i \in 1..(Len(k) + Len(f)) : l[i] = IF i <= Len(k) THEN k[i] ELSE f[i - Len(k)]
  BY <1>3, ConcatProperties
<1>5. \A i \in 1..Len(h) : l[i] = h[i]
  BY <1>2, <1>3, <1>4
<1>6. l[Len(h) + 1] = d
  BY <1>1, <1>2, <1>3, <1>4
<1>7. ASSUME NEW i \in 1..Len(f) PROVE l[Len(h) + 1 + i] = f[i]
  BY <1>2, <1>3, <1>4
<1> QED BY <1>2, <1>3, <1>4, <1>5, <1>6, <1>7

\* The line up to the place is what can be undone and the document.
LEMMA LineUpTo ==
  ASSUME NEW S, NEW h \in Seq(S), NEW d \in S, NEW f \in Seq(S), NEW l, l = h \o <<d>> \o f
  PROVE  SubSeq(l, 1, Len(h) + 1) = h \o <<d>> /\ SubSeq(l, 1, Len(h)) = h
<1>1. /\ l \in Seq(S) /\ Len(l) = Len(h) + 1 + Len(f)
      /\ Len(h) \in Nat /\ Len(f) \in Nat
      /\ \A i \in 1..Len(h) : l[i] = h[i]
      /\ l[Len(h) + 1] = d
  BY LineFacts
<1>2. \A i \in 1..(Len(h) + 1) : l[i] \in S
  BY <1>1, ElementOfSeq
<1> PICK k : k = h \o <<d>>
  OBVIOUS
<1>3. /\ k \in Seq(S) /\ Len(k) = Len(h) + 1
      /\ \A i \in 1..Len(h) : k[i] = h[i]
      /\ k[Len(h) + 1] = d
  <2>1. <<>> \in Seq(S) /\ k = h \o <<d>> \o <<>> /\ Len(<<>>) = 0
    <3>1. <<>> \in Seq(S) /\ <<d>> \in Seq(S) /\ Len(<<>>) = 0
      BY EmptySeq
    <3> QED BY <3>1, ConcatProperties, ConcatEmptySeq
  <2> QED BY <1>1, <2>1, LineFacts
<1>4. SubSeq(l, 1, Len(h) + 1) = k
  <2> PICK s : s = SubSeq(l, 1, Len(h) + 1)
    OBVIOUS
  <2>1. s \in Seq(S) /\ Len(s) = Len(h) + 1 /\ \A i \in 1..(Len(h) + 1) : s[i] = l[i]
    BY <1>1, <1>2, SubSeqProperties
  <2>2. \A i \in 1..Len(s) : s[i] = k[i]
    BY <1>1, <1>3, <2>1
  <2> QED BY <1>3, <2>1, <2>2, SeqEqual
<1>5. SubSeq(l, 1, Len(h)) = h
  <2> PICK s : s = SubSeq(l, 1, Len(h))
    OBVIOUS
  <2>1. s \in Seq(S) /\ Len(s) = Len(h) /\ \A i \in 1..Len(h) : s[i] = l[i]
    BY <1>1, <1>2, SubSeqProperties
  <2> QED BY <1>1, <2>1, SeqEqual
<1> QED BY <1>4, <1>5

\* What pushing a document a number of times leaves: the last entries of the history
\* with its copies.
IsPushed(p, h, d, n) ==
  /\ p \in Seq(Good) /\ Len(h) \in Nat /\ Len(p) \in Nat
  /\ Len(p) = IF Len(h) + n > MaxHistory THEN MaxHistory ELSE Len(h) + n
  /\ \A i, k \in Nat : (i \in 1..Len(p) /\ k = i + (Len(h) + n - Len(p))) =>
       p[i] = IF k <= Len(h) THEN h[k] ELSE d

\* The last entries of a line.
IsRecent(r, b) ==
  /\ r \in Seq(Good) /\ Len(b) \in Nat /\ Len(r) \in Nat
  /\ Len(r) = IF Len(b) > MaxHistory + 1 THEN MaxHistory + 1 ELSE Len(b)
  /\ \A i, j \in Nat : (i \in 1..Len(r) /\ j = i + (Len(b) - Len(r))) => r[i] = b[j]

\* The line up to a document, the document again and a new one.
IsContinued(b, h, d, e, n) ==
  /\ b \in Seq(Good) /\ Len(h) \in Nat /\ Len(b) = Len(h) + n + 2
  /\ \A i \in 1..Len(b) : b[i] = IF i <= Len(h) THEN h[i] ELSE IF i < Len(b) THEN d ELSE e

\* A line with one more entry.
LEMMA OneMore ==
  ASSUME NEW S, NEW s \in Seq(S), NEW e \in S
  PROVE  /\ s \o <<e>> \in Seq(S) /\ Len(s) \in Nat /\ Len(s \o <<e>>) = Len(s) + 1
         /\ (s \o <<e>>)[Len(s) + 1] = e
         /\ \A i \in 1..Len(s) : (s \o <<e>>)[i] = s[i]
<1>1. <<e>> \in Seq(S) /\ Len(<<e>>) = 1 /\ <<e>>[1] = e /\ Len(s) \in Nat
  BY LenProperties
<1>2. /\ s \o <<e>> \in Seq(S) /\ Len(s \o <<e>>) = Len(s) + Len(<<e>>)
      /\ \A i \in 1..(Len(s) + Len(<<e>>)) :
           (s \o <<e>>)[i] = IF i <= Len(s) THEN s[i] ELSE <<e>>[i - Len(s)]
  BY <1>1, ConcatProperties
<1> PICK k : k = s \o <<e>>
  OBVIOUS
<1>3. k[Len(s) + 1] = e
  BY <1>1, <1>2
<1>4. \A i \in 1..Len(s) : k[i] = s[i]
  BY <1>1, <1>2
<1> QED BY <1>1, <1>2, <1>3, <1>4

LEMMA Copies ==
  ASSUME NEW s \in Seq(Good), NEW d \in Good, NEW n \in Nat, NEW k, k = s \o [i \in 1..n |-> d]
  PROVE  /\ k \in Seq(Good) /\ Len(s) \in Nat /\ Len(k) = Len(s) + n
         /\ \A i \in 1..(Len(s) + n) : k[i] = IF i <= Len(s) THEN s[i] ELSE d
<1> PICK copies : copies = [i \in 1..n |-> d]
  OBVIOUS
<1>1. copies \in Seq(Good) /\ Len(copies) = n
  <2>1. copies \in Seq(Good)
    BY IsASeq
  <2> QED BY <2>1
<1>2. /\ k \in Seq(Good) /\ Len(k) = Len(s) + n /\ Len(s) \in Nat
      /\ \A i \in 1..(Len(s) + n) : k[i] = IF i <= Len(s) THEN s[i] ELSE copies[i - Len(s)]
  BY <1>1, ConcatProperties, LenProperties
<1> QED BY <1>2

LEMMA PushedFacts ==
  ASSUME NEW h \in Seq(Good), NEW d \in Good, NEW n \in Nat
  PROVE  IsPushed(Pushed(h, d, n), h, d, n)
<1>0. PICK p, next : p = Pushed(h, d, n) /\ next = h \o [i \in 1..n |-> d]
  OBVIOUS
<1>1. /\ next \in Seq(Good) /\ Len(h) \in Nat /\ Len(next) = Len(h) + n
      /\ \A i \in 1..(Len(h) + n) : next[i] = IF i <= Len(h) THEN h[i] ELSE d
  BY <1>0, Copies
<1>4. p = IF Len(next) > MaxHistory THEN SubSeq(next, Len(next) - MaxHistory + 1, Len(next))
                                    ELSE next
  BY <1>0 DEF Pushed
<1>5. MaxHistory \in Nat \ {0}
  BY ConstantsAssumption
<1>6. CASE Len(next) > MaxHistory
  <2>0. PICK first : first = Len(next) - MaxHistory + 1
    OBVIOUS
  <2>1. first \in Int /\ Len(next) \in Int /\ first >= 1 /\ Len(next) - first + 1 = MaxHistory
    BY <1>1, <1>5, <1>6, <2>0
  <2>2. \A i \in first..Len(next) : next[i] \in Good
    BY <1>1, <2>1, ElementOfSeq
  <2>3. /\ p \in Seq(Good) /\ Len(p) = MaxHistory
        /\ \A i \in 1..MaxHistory : p[i] = next[first + i - 1]
    BY <1>4, <1>5, <1>6, <2>0, <2>1, <2>2, SubSeqProperties
  <2>4. ASSUME NEW i \in Nat, NEW k \in Nat, i \in 1..Len(p), k = i + (Len(h) + n - Len(p))
        PROVE  p[i] = IF k <= Len(h) THEN h[k] ELSE d
    <3>1. k = first + i - 1 /\ k \in 1..(Len(h) + n)
      BY <1>1, <1>5, <1>6, <2>0, <2>3, <2>4
    <3>2. p[i] = next[k]
      BY <2>3, <2>4, <3>1
    <3> QED BY <1>1, <3>1, <3>2
  <2>5. IsPushed(p, h, d, n)
    BY <1>1, <1>5, <1>6, <2>3, <2>4 DEF IsPushed
  <2> QED BY <1>0, <2>5
<1>7. CASE ~(Len(next) > MaxHistory)
  <2>1. p = next /\ Len(p) = Len(h) + n /\ ~(Len(h) + n > MaxHistory)
    BY <1>1, <1>4, <1>7
  <2>2. ASSUME NEW i \in Nat, NEW k \in Nat, i \in 1..Len(p), k = i + (Len(h) + n - Len(p))
        PROVE  p[i] = IF k <= Len(h) THEN h[k] ELSE d
    <3>1. k = i /\ i \in 1..(Len(h) + n)
      BY <1>1, <2>1, <2>2
    <3> QED BY <1>1, <2>1, <3>1
  <2>3. IsPushed(p, h, d, n)
    BY <1>1, <2>1, <2>2 DEF IsPushed
  <2> QED BY <1>0, <2>3
<1> QED BY <1>6, <1>7

LEMMA RecentFacts ==
  ASSUME NEW b \in Seq(Good)
  PROVE  IsRecent(History!Recent(b), b)
<1>0. PICK r : r = History!Recent(b)
  OBVIOUS
<1>1. MaxHistory \in Nat \ {0} /\ Len(b) \in Nat
  BY ConstantsAssumption, LenProperties
<1>2. CASE Len(b) > MaxHistory + 1
  <2>0. PICK first : first = Len(b) - MaxHistory
    OBVIOUS
  <2>1. first \in Int /\ first >= 1 /\ Len(b) - first + 1 = MaxHistory + 1 /\ first <= Len(b)
    BY <1>1, <1>2, <2>0
  <2>2. \A i \in first..Len(b) : b[i] \in Good
    BY <1>1, <2>1, ElementOfSeq
  <2>3. r = SubSeq(b, first, Len(b))
    BY <1>0, <1>2, <2>0 DEF History!Recent
  <2>4. /\ r \in Seq(Good) /\ Len(r) = MaxHistory + 1
        /\ \A i \in 1..(MaxHistory + 1) : r[i] = b[first + i - 1]
    BY <1>1, <2>1, <2>2, <2>3, SubSeqProperties
  <2>5. ASSUME NEW i \in Nat, NEW j \in Nat, i \in 1..Len(r), j = i + (Len(b) - Len(r))
        PROVE  r[i] = b[j]
    <3>1. first + i - 1 = j /\ i \in 1..(MaxHistory + 1)
      BY <1>1, <2>0, <2>4, <2>5
    <3> QED BY <2>4, <3>1
  <2>6. IsRecent(r, b)
    BY <1>1, <1>2, <2>4, <2>5 DEF IsRecent
  <2> QED BY <1>0, <2>6
<1>3. CASE ~(Len(b) > MaxHistory + 1)
  <2>1. r = b
    BY <1>0, <1>3 DEF History!Recent
  <2>2. ASSUME NEW i \in Nat, NEW j \in Nat, j = i + (Len(b) - Len(r)) PROVE j = i
    BY <1>1, <2>1, <2>2
  <2>3. IsRecent(r, b)
    BY <1>1, <1>3, <2>1, <2>2 DEF IsRecent
  <2> QED BY <1>0, <2>3
<1> QED BY <1>2, <1>3

LEMMA ContinuedFacts ==
  ASSUME NEW h \in Seq(Good), NEW d \in Good, NEW e \in Good, NEW n \in Nat
  PROVE  IsContinued((h \o <<d>>) \o [i \in 1..n |-> d] \o <<e>>, h, d, e, n)
<1>0. PICK k, l, b : /\ k = h \o <<d>> /\ l = k \o [i \in 1..n |-> d] /\ b = l \o <<e>>
                     /\ b = (h \o <<d>>) \o [i \in 1..n |-> d] \o <<e>>
  OBVIOUS
<1>1. /\ k \in Seq(Good) /\ Len(h) \in Nat /\ Len(k) = Len(h) + 1
      /\ k[Len(h) + 1] = d /\ \A i \in 1..Len(h) : k[i] = h[i]
  BY <1>0, OneMore
<1>2. /\ l \in Seq(Good) /\ Len(l) = Len(k) + n
      /\ \A i \in 1..(Len(k) + n) : l[i] = IF i <= Len(k) THEN k[i] ELSE d
  BY <1>0, <1>1, Copies
<1>3. /\ b \in Seq(Good) /\ Len(b) = Len(l) + 1
      /\ b[Len(l) + 1] = e /\ \A i \in 1..Len(l) : b[i] = l[i]
  BY <1>0, <1>2, OneMore
<1>4. Len(b) = Len(h) + n + 2 /\ Len(l) = Len(h) + n + 1
  BY <1>1, <1>2, <1>3
<1>5. ASSUME NEW i \in 1..Len(b)
      PROVE  b[i] = IF i <= Len(h) THEN h[i] ELSE IF i < Len(b) THEN d ELSE e
  <2>1. CASE i <= Len(h)
    <3>1. i \in 1..Len(h) /\ i \in 1..Len(l) /\ i <= Len(k) /\ i \in 1..(Len(k) + n)
      BY <1>1, <1>4, <2>1
    <3> QED BY <1>1, <1>2, <1>3, <2>1, <3>1
  <2>2. CASE i = Len(h) + 1
    <3>1. i \in 1..Len(l) /\ i <= Len(k) /\ i \in 1..(Len(k) + n) /\ ~(i <= Len(h)) /\ i < Len(b)
      BY <1>1, <1>4, <2>2
    <3> QED BY <1>1, <1>2, <1>3, <2>2, <3>1
  <2>3. CASE i > Len(h) + 1 /\ i < Len(b)
    <3>1. i \in 1..Len(l) /\ ~(i <= Len(k)) /\ i \in 1..(Len(k) + n) /\ ~(i <= Len(h))
      BY <1>1, <1>4, <2>3
    <3> QED BY <1>2, <1>3, <2>3, <3>1
  <2>4. CASE i = Len(b)
    <3>1. i = Len(l) + 1 /\ ~(i <= Len(h)) /\ ~(i < Len(b))
      BY <1>1, <1>4, <2>4
    <3> QED BY <1>3, <3>1
  <2>5. i \in Nat /\ i <= Len(b) /\ Len(h) \in Nat
    BY <1>1, <1>4
  <2> QED BY <1>1, <1>4, <2>1, <2>2, <2>3, <2>4, <2>5
<1>6. IsContinued(b, h, d, e, n)
  BY <1>1, <1>3, <1>4, <1>5 DEF IsContinued
<1> QED BY <1>0, <1>6

\* Where the entries of a history that was pushed to are on the line.
LEMMA PushedPlaces ==
  ASSUME NEW m \in Nat \ {0}, NEW n \in Nat \ {0}, NEW lh \in Nat,
         NEW again \in Nat, NEW lp \in Nat, NEW lb \in Nat, NEW lr \in Nat,
         again = IF n - 1 <= m THEN n - 1 ELSE m,
         lp = IF lh + n > m THEN m ELSE lh + n,
         lb = lh + again + 2,
         lr = IF lb > m + 1 THEN m + 1 ELSE lb
  PROVE  /\ lr = lp + 1 /\ lr <= lb /\ lp <= lh + n
         /\ n - 1 <= m => lb - lr = lh + n - lp
         /\ ~(n - 1 <= m) => lb - lr >= lh /\ lh + n - lp >= lh
<1>1. CASE n - 1 <= m
  <2>1. again = n - 1
    BY <1>1
  <2>2. CASE lh + n > m
    <3>1. lp = m /\ lr = m + 1
      BY <2>1, <2>2
    <3> QED BY <1>1, <2>1, <2>2, <3>1
  <2>3. CASE ~(lh + n > m)
    <3>1. lp = lh + n /\ lr = lb
      BY <2>1, <2>3
    <3> QED BY <1>1, <2>1, <2>3, <3>1
  <2> QED BY <2>2, <2>3
<1>2. CASE ~(n - 1 <= m)
  <2>1. again = m
    BY <1>2
  <2>2. lp = m /\ lr = m + 1
    BY <1>2, <2>1
  <2> QED BY <1>2, <2>1, <2>2
<1> QED BY <1>1, <1>2

\* Pushing a document and showing another is what an edit is to leave of the line;
\* copies beyond the limit make no difference.
Times(n, again) == again = IF n - 1 <= MaxHistory THEN n - 1 ELSE MaxHistory
PushContinues(h, d, e, n, again) ==
  Pushed(h, d, n) \o <<e>>
    = History!Recent((h \o <<d>>) \o [i \in 1..again |-> d] \o <<e>>)

LEMMA PushedContinues ==
  ASSUME NEW h \in Seq(Good), NEW d \in Good, NEW e \in Good, NEW n \in Nat \ {0},
         NEW again, Times(n, again)
  PROVE  PushContinues(h, d, e, n, again)
<1>0. PICK p, q, b, r :
        /\ p = Pushed(h, d, n) /\ q = p \o <<e>>
        /\ b = (h \o <<d>>) \o [i \in 1..again |-> d] \o <<e>>
        /\ r = History!Recent(b)
  OBVIOUS
<1>1. /\ MaxHistory \in Nat \ {0} /\ n \in Nat /\ again \in Nat
      /\ again = IF n - 1 <= MaxHistory THEN n - 1 ELSE MaxHistory
  BY ConstantsAssumption DEF Times
<1>2. IsPushed(p, h, d, n)
  BY <1>0, <1>1, PushedFacts
<1>3. /\ q \in Seq(Good) /\ Len(q) = Len(p) + 1 /\ q[Len(p) + 1] = e
      /\ \A i \in 1..Len(p) : q[i] = p[i]
  <2>1. p \in Seq(Good)
    BY <1>2 DEF IsPushed
  <2> QED BY <1>0, <2>1, OneMore
<1>4. IsContinued(b, h, d, e, again)
  BY <1>0, <1>1, ContinuedFacts
<1>5. IsRecent(r, b)
  <2>1. b \in Seq(Good)
    BY <1>4 DEF IsContinued
  <2> QED BY <1>0, <2>1, RecentFacts
<1>l. PICK lh, lp, lb, lr : lh = Len(h) /\ lp = Len(p) /\ lb = Len(b) /\ lr = Len(r)
  OBVIOUS
<1>6. /\ lh \in Nat /\ lp \in Nat /\ lb \in Nat /\ lr \in Nat
      /\ lp = IF lh + n > MaxHistory THEN MaxHistory ELSE lh + n
      /\ lb = lh + again + 2
      /\ lr = IF lb > MaxHistory + 1 THEN MaxHistory + 1 ELSE lb
  BY <1>2, <1>4, <1>5, <1>l DEF IsPushed, IsContinued, IsRecent
<1>7. /\ lr = lp + 1 /\ lr <= lb /\ lp <= lh + n
      /\ n - 1 <= MaxHistory => lb - lr = lh + n - lp
      /\ ~(n - 1 <= MaxHistory) => lb - lr >= lh /\ lh + n - lp >= lh
  BY <1>1, <1>6, PushedPlaces
<1>8. ASSUME NEW i \in 1..(lp + 1) PROVE q[i] = r[i]
  <2>0. PICK j, k : j = i + (lb - lr) /\ k = i + (lh + n - lp)
    OBVIOUS
  <2>1. i \in Nat /\ i >= 1 /\ i <= lp + 1 /\ j \in Nat /\ k \in Nat /\ j <= lb /\ j >= i
    BY <1>1, <1>6, <1>7, <1>8, <2>0
  <2>2. r[i] = b[j]
    <3>1. i \in 1..Len(r) /\ j = i + (Len(b) - Len(r))
      BY <1>6, <1>7, <1>l, <2>0, <2>1
    <3> QED BY <1>5, <2>1, <3>1 DEF IsRecent
  <2>3. b[j] = IF j <= lh THEN h[j] ELSE IF j < lb THEN d ELSE e
    <3>1. j \in 1..Len(b)
      BY <1>6, <1>l, <2>1
    <3> QED BY <1>4, <1>l, <3>1 DEF IsContinued
  <2>4. CASE i = lp + 1
    <3>1. j = lb /\ ~(j <= lh)
      BY <1>1, <1>6, <1>7, <2>0, <2>1, <2>4
    <3>2. q[i] = e
      BY <1>3, <1>l, <2>4
    <3> QED BY <1>6, <2>2, <2>3, <3>1, <3>2
  <2>5. CASE i # lp + 1
    <3>1. i \in 1..lp /\ j < lb
      BY <1>6, <1>7, <2>0, <2>1, <2>5
    <3>2. q[i] = IF k <= lh THEN h[k] ELSE d
      <4>1. i \in 1..Len(p) /\ k = i + (Len(h) + n - Len(p))
        BY <1>l, <2>0, <3>1
      <4>2. p[i] = IF k <= Len(h) THEN h[k] ELSE d
        BY <1>2, <2>1, <4>1 DEF IsPushed
      <4> QED BY <1>3, <1>l, <4>1, <4>2
    <3>3. CASE n - 1 <= MaxHistory
      <4>1. j = k
        BY <1>7, <2>0, <3>3
      <4> QED BY <2>2, <2>3, <3>1, <3>2, <4>1
    <3>4. CASE ~(n - 1 <= MaxHistory)
      <4>1. ~(j <= lh) /\ ~(k <= lh)
        BY <1>1, <1>6, <1>7, <2>0, <2>1, <3>4
      <4> QED BY <2>2, <2>3, <3>1, <3>2, <4>1
    <3> QED BY <3>3, <3>4
  <2> QED BY <2>4, <2>5
<1>9. q = r
  <2>1. Len(q) = Len(r) /\ r \in Seq(Good) /\ Len(q) = lp + 1
    BY <1>3, <1>5, <1>7, <1>l DEF IsRecent
  <2> QED BY <1>3, <1>8, <2>1, SeqEqual
<1> QED BY <1>0, <1>9 DEF PushContinues

\* An undo moves along the line.
LEMMA LineBack ==
  ASSUME NEW h \in Seq(Good), h # <<>>, NEW d \in Good, NEW f \in Seq(Good)
  PROVE  /\ SubSeq(h, 1, Len(h) - 1) \o <<h[Len(h)]>> \o (<<d>> \o f) = h \o <<d>> \o f
         /\ SubSeq(h, 1, Len(h) - 1) \in Seq(Good)
         /\ Len(SubSeq(h, 1, Len(h) - 1)) = Len(h) - 1
<1>1. Len(h) \in Nat /\ 1 \in 1..Len(h) /\ Len(h) \in 1..Len(h)
  BY EmptySeq, LenProperties
<1>2. SubSeq(h, 1, Len(h) - 1) \o <<h[Len(h)]>> = h
  BY <1>1, SubSeqRecursiveSecond, SubSeqFull
<1>3. h \o (<<d>> \o f) = h \o <<d>> \o f
  <2>1. <<d>> \in Seq(Good)
    OBVIOUS
  <2> QED BY <2>1, ConcatAssociative
<1>4. \A i \in 1..(Len(h) - 1) : h[i] \in Good
  BY <1>1, ElementOfSeq
<1>5. /\ SubSeq(h, 1, Len(h) - 1) \in Seq(Good)
      /\ Len(SubSeq(h, 1, Len(h) - 1)) = IF 1 <= Len(h) - 1 THEN Len(h) - 1 - 1 + 1 ELSE 0
  BY <1>1, <1>4, SubSeqProperties
<1>6. Len(SubSeq(h, 1, Len(h) - 1)) = Len(h) - 1
  <2> PICK k, m : k = Len(SubSeq(h, 1, Len(h) - 1)) /\ m = Len(h)
    OBVIOUS
  <2>1. m \in Nat /\ m >= 1 /\ k = IF 1 <= m - 1 THEN m - 1 - 1 + 1 ELSE 0
    BY <1>1, <1>5
  <2>2. k = m - 1
    BY <2>1
  <2> QED BY <2>2
<1> QED BY <1>2, <1>3, <1>5, <1>6

\* So does a redo when there is room for what it records.
LEMMA PushedOnce ==
  ASSUME NEW h \in Seq(Good), NEW d \in Good, Len(h) < MaxHistory
  PROVE  Pushed(h, d, 1) = h \o <<d>>
<1>1. [i \in 1..1 |-> d] = <<d>>
  OBVIOUS
<1>2. Len(h) \in Nat /\ Len(h \o <<d>>) = Len(h) + 1
  BY OneMore
<1>3. ~(Len(h \o <<d>>) > MaxHistory)
  BY <1>2, ConstantsAssumption
<1> QED BY <1>1, <1>3 DEF Pushed

LEMMA LineForward ==
  ASSUME NEW h \in Seq(Good), NEW d \in Good, NEW f \in Seq(Good), f # <<>>
  PROVE  (h \o <<d>>) \o <<f[1]>> \o Tail(f) = h \o <<d>> \o f
<1>1. Len(f) \in Nat /\ 1 \in 1..Len(f) /\ Len(f) \in 1..Len(f)
  BY EmptySeq, LenProperties
<1>2. f = <<f[1]>> \o Tail(f)
  BY <1>1, SubSeqRecursiveFirst, SubSeqFull, TailIsSubSeq
<1>3. <<f[1]>> \in Seq(Good) /\ Tail(f) \in Seq(Good) /\ h \o <<d>> \in Seq(Good)
  BY <1>1, ElementOfSeq, HeadTailProperties, OneMore
<1>4. ((h \o <<d>>) \o <<f[1]>>) \o Tail(f) = (h \o <<d>>) \o (<<f[1]>> \o Tail(f))
  BY <1>3, ConcatAssociative
<1> QED BY <1>2, <1>4

\* A document that changes where it is.
LEMMA LineAmended ==
  ASSUME NEW h \in Seq(Good), NEW d \in Good, NEW e \in Good, NEW f \in Seq(Good)
  PROVE  h \o <<e>> \o f = [(h \o <<d>> \o f) EXCEPT ![Len(h) + 1] = e]
<1>0. PICK l, m, n : /\ l = h \o <<d>> \o f /\ m = h \o <<e>> \o f
                     /\ n = [l EXCEPT ![Len(h) + 1] = e]
  OBVIOUS
<1>1. /\ l \in Seq(Good) /\ Len(l) = Len(h) + 1 + Len(f)
      /\ Len(h) \in Nat /\ Len(f) \in Nat
      /\ \A i \in 1..Len(h) : l[i] = h[i]
      /\ \A i \in 1..Len(f) : l[Len(h) + 1 + i] = f[i]
  BY <1>0, LineFacts
<1>2. /\ m \in Seq(Good) /\ Len(m) = Len(h) + 1 + Len(f)
      /\ \A i \in 1..Len(h) : m[i] = h[i]
      /\ m[Len(h) + 1] = e
      /\ \A i \in 1..Len(f) : m[Len(h) + 1 + i] = f[i]
  BY <1>0, LineFacts
<1>3. /\ n \in Seq(Good) /\ Len(n) = Len(l)
      /\ \A j \in 1..Len(l) : n[j] = IF j = Len(h) + 1 THEN e ELSE l[j]
  <2>0. PICK a : a = Len(h) + 1
    OBVIOUS
  <2>1. a \in 1..Len(l) /\ l \in Seq(Good)
    BY <1>1, <2>0
  <2>2. PICK k : k = [l EXCEPT ![a] = e]
    OBVIOUS
  <2>3. /\ k \in Seq(Good) /\ Len(k) = Len(l)
        /\ \A j \in 1..Len(l) : k[j] = IF j = a THEN e ELSE l[j]
    BY <2>1, <2>2, ExceptSeq
  <2>4. n = k
    BY <1>0, <2>0, <2>2
  <2> QED BY <2>0, <2>3, <2>4
<1>4. ASSUME NEW j \in 1..Len(m) PROVE m[j] = n[j]
  <2>1. CASE j \in 1..Len(h)
    BY <1>1, <1>2, <1>3, <2>1
  <2>2. CASE j = Len(h) + 1
    BY <1>1, <1>2, <1>3, <2>2
  <2>3. CASE j > Len(h) + 1
    <3>0. PICK i : i = j - (Len(h) + 1)
      OBVIOUS
    <3>1. i \in 1..Len(f) /\ j = Len(h) + 1 + i /\ j \in 1..Len(l) /\ j # Len(h) + 1
      BY <1>1, <1>2, <2>3, <3>0
    <3> QED BY <1>1, <1>2, <1>3, <3>1
  <2>4. j \in Nat /\ j >= 1 /\ Len(h) \in Nat
    BY <1>1, <1>2
  <2> QED BY <2>1, <2>2, <2>3, <2>4
<1>5. m = n
  BY <1>1, <1>2, <1>3, <1>4, SeqEqual
<1> QED BY <1>0, <1>5

-----------------------------------------------------------------------------
\* The steps.

\* Whatever puts the document into the history is an edit of the line.
LEMMA EditImplements ==
  ASSUME IInv, document' \in Good, NEW n \in Nat \ {0},
         past' = Pushed(past, document, n), future' = <<>>
  PROVE  \E again \in 0..MaxHistory : History!Edited(again)
<1>0. PICK again, h, d, f, e, l :
        /\ again = IF n - 1 <= MaxHistory THEN n - 1 ELSE MaxHistory
        /\ h = past /\ d = document /\ f = future /\ e = document'
        /\ l = h \o <<d>> \o f
  OBVIOUS
<1>1. h \in Seq(Good) /\ d \in Good /\ f \in Seq(Good) /\ e \in Good
  BY <1>0 DEF IInv
<1>2. again \in 0..MaxHistory
  BY <1>0, ConstantsAssumption
<1>3. SubSeq(l, 1, Len(h) + 1) = h \o <<d>> /\ l[Len(h) + 1] = d
  BY <1>0, <1>1, LineUpTo, LineFacts
<1>4. PICK p : p = Pushed(h, d, n)
  OBVIOUS
<1>5. p \in Seq(Good)
  BY <1>1, <1>4, PushedGood
<1>6. PICK m : m = p \o <<e>>
  OBVIOUS
<1>7. m \o <<>> = m /\ Len(m) = Len(p) + 1 /\ m[Len(p) + 1] = e
  BY <1>1, <1>5, <1>6, OneMore, ConcatEmptySeq
<1>8. m = History!Recent((h \o <<d>>) \o [i \in 1..again |-> d] \o <<e>>)
  <2>1. Times(n, again)
    BY <1>0 DEF Times
  <2>2. PushContinues(h, d, e, n, again)
    BY <1>1, <2>1, PushedContinues
  <2> QED BY <1>4, <1>6, <2>2 DEF PushContinues
<1>9. /\ (past \o <<document>> \o future) = l /\ (Len(past) + 1) = Len(h) + 1
      /\ (past \o <<document>> \o future)' = m /\ (Len(past) + 1)' = Len(p) + 1
  BY <1>0, <1>4, <1>6, <1>7
<1>10. m = History!Recent(SubSeq(l, 1, Len(h) + 1) \o [i \in 1..again |-> l[Len(h) + 1]]
                            \o <<m[Len(p) + 1]>>)
  BY <1>3, <1>7, <1>8
<1>11. Len(p) + 1 = Len(m)
  BY <1>7
<1>12. History!Edited(again)
  BY <1>9, <1>10, <1>11 DEF History!Edited, History!Continues
<1> QED BY <1>2, <1>12

LEMMA DropImplements ==
  ASSUME IInv, Drop
  PROVE  History!Dropped \/ UNCHANGED <<past, future, document>>
<1>1. CASE drag.before = document
  BY <1>1 DEF Drop
<1>2. CASE drag.before # document
  <2>0. PICK h, d, f, b, p, m :
          /\ h = past /\ d = document /\ f = future /\ b = drag.before
          /\ p = Pushed(h, b, 1) /\ m = p \o <<d>>
    OBVIOUS
  <2>1. h \in Seq(Good) /\ d \in Good /\ f \in Seq(Good) /\ b \in Good
    BY <2>0 DEF IInv, Drop, Drags
  <2>2. past' = p /\ document' = d /\ future' = <<>>
    BY <1>2, <2>0 DEF Drop
  <2>3. PICK l : l = h \o <<d>> \o f
    OBVIOUS
  <2>4. SubSeq(l, 1, Len(h)) = h /\ l[Len(h) + 1] = d /\ Len(h) \in Nat
    BY <2>1, <2>3, LineUpTo, LineFacts
  <2>5. p \in Seq(Good) /\ Len(p) \in Nat /\ Len(p) > 0 /\ p[Len(p)] = b
    <3>1. IsPushed(p, h, b, 1)
      BY <2>0, <2>1, PushedFacts
    <3>2. Len(p) = IF Len(h) + 1 > MaxHistory THEN MaxHistory ELSE Len(h) + 1
      BY <3>1 DEF IsPushed
    <3>3. p \in Seq(Good) /\ Len(p) \in Nat /\ Len(p) > 0
      BY <2>4, <3>1, <3>2, ConstantsAssumption DEF IsPushed
    <3>4. PICK i, k : i = Len(p) /\ k = Len(h) + 1
      OBVIOUS
    <3>5. i \in Nat /\ k \in Nat /\ i \in 1..Len(p) /\ k = i + (Len(h) + 1 - Len(p))
      BY <2>4, <3>3, <3>4
    <3>6. p[i] = IF k <= Len(h) THEN h[k] ELSE b
      BY <3>1, <3>5 DEF IsPushed
    <3> QED BY <2>4, <3>3, <3>4, <3>6
  <2>6. /\ m \o <<>> = m /\ m \in Seq(Good) /\ Len(m) = Len(p) + 1 /\ m[Len(p) + 1] = d
        /\ m[Len(p)] = b
    <3>1. Len(p) \in 1..Len(p)
      BY <2>5
    <3> QED BY <2>0, <2>1, <2>5, <3>1, OneMore, ConcatEmptySeq
  <2>7. m = History!Recent(h \o <<b, d>>)
    <3>1. PICK z, s, t : /\ z = 0 /\ s = (h \o <<b>>) \o [i \in 1..z |-> b] \o <<d>>
                         /\ t = h \o <<b, d>>
      OBVIOUS
    <3>2. m = History!Recent(s)
      <4>1. Times(1, z)
        BY <3>1, ConstantsAssumption DEF Times
      <4>2. PushContinues(h, b, d, 1, z)
        <5>1. 1 \in Nat \ {0}
          OBVIOUS
        <5> QED BY <2>1, <4>1, <5>1, PushedContinues
      <4> QED BY <2>0, <3>1, <4>2 DEF PushContinues
    <3>3. IsContinued(s, h, b, d, z)
      BY <2>1, <3>1, ContinuedFacts
    <3>4. /\ s \in Seq(Good) /\ Len(s) = Len(h) + 2
          /\ \A i \in 1..Len(s) : s[i] = IF i <= Len(h) THEN h[i] ELSE IF i < Len(s) THEN b ELSE d
      BY <2>4, <3>1, <3>3 DEF IsContinued
    <3>5. PICK two : two = <<b, d>>
      OBVIOUS
    <3>6. two \in Seq(Good) /\ Len(two) = 2 /\ two[1] = b /\ two[2] = d
      BY <2>1, <3>5
    <3>7. /\ t \in Seq(Good) /\ Len(t) = Len(h) + 2
          /\ \A i \in 1..(Len(h) + 2) : t[i] = IF i <= Len(h) THEN h[i] ELSE two[i - Len(h)]
      BY <2>1, <3>1, <3>5, <3>6, ConcatProperties
    <3>8. ASSUME NEW i \in 1..Len(s) PROVE s[i] = t[i]
      <4>1. CASE i <= Len(h)
        BY <2>4, <3>4, <3>7, <4>1
      <4>2. CASE i = Len(h) + 1
        BY <2>4, <3>4, <3>6, <3>7, <4>2
      <4>3. CASE i = Len(h) + 2
        BY <2>4, <3>4, <3>6, <3>7, <4>3
      <4> QED BY <2>4, <3>4, <4>1, <4>2, <4>3
    <3>9. s = t
      BY <3>4, <3>7, <3>8, SeqEqual
    <3> QED BY <3>1, <3>2, <3>9
  <2>8. /\ (past \o <<document>> \o future) = l /\ (Len(past) + 1) = Len(h) + 1
        /\ (past \o <<document>> \o future)' = m /\ (Len(past) + 1)' = Len(p) + 1
    BY <2>0, <2>2, <2>3, <2>6
  <2>9. m = History!Recent(SubSeq(l, 1, Len(h) + 1 - 1) \o <<m[Len(p) + 1 - 1], l[Len(h) + 1]>>)
    <3>1. Len(h) + 1 - 1 = Len(h) /\ Len(p) + 1 - 1 = Len(p)
      BY <2>4, <2>5
    <3> QED BY <2>4, <2>6, <2>7, <3>1
  <2>10. Len(p) + 1 = Len(m) /\ Len(p) + 1 > 1
    BY <2>5, <2>6
  <2>11. History!Dropped
    <3>1. (Len(past) + 1)' > 1
      BY <2>8, <2>10
    <3>2. (past \o <<document>> \o future)' = m
          /\ (Len(past) + 1)' = Len((past \o <<document>> \o future)')
      BY <2>8, <2>10
    <3>3. PICK a, at1 : a = Len(past) + 1 /\ at1 = (Len(past) + 1)'
      OBVIOUS
    <3>4. a = Len(h) + 1 /\ at1 = Len(p) + 1
      BY <2>8, <3>3
    <3>5. m = History!Recent(SubSeq(l, 1, a - 1) \o <<m[at1 - 1], l[a]>>)
      BY <2>9, <3>4
    <3>6. at1 > 1 /\ at1 = Len(m)
      BY <2>10, <3>4
    <3> QED BY <2>8, <3>2, <3>3, <3>5, <3>6 DEF History!Dropped, History!Continues
  <2> QED BY <2>11
<1> QED BY <1>1, <1>2

LEMMA MoveImplements ==
  ASSUME IInv, document' \in Good, UNCHANGED <<past, future>>
  PROVE  History!Amended
<1>0. PICK h, d, f, e, l, m :
        /\ h = past /\ d = document /\ f = future /\ e = document'
        /\ l = h \o <<d>> \o f /\ m = h \o <<e>> \o f
  OBVIOUS
<1>1. h \in Seq(Good) /\ d \in Good /\ f \in Seq(Good) /\ e \in Good
  BY <1>0 DEF IInv
<1>2. /\ (past \o <<document>> \o future) = l /\ (Len(past) + 1) = Len(h) + 1
      /\ (past \o <<document>> \o future)' = m /\ (Len(past) + 1)' = Len(h) + 1
  BY <1>0
<1>3. m[Len(h) + 1] = e
  BY <1>0, <1>1, LineFacts
<1>4. m = [l EXCEPT ![Len(h) + 1] = e]
  <2>1. h \o <<e>> \o f = [(h \o <<d>> \o f) EXCEPT ![Len(h) + 1] = e]
    BY <1>1, LineAmended
  <2> QED BY <1>0, <2>1
<1> QED BY <1>2, <1>3, <1>4 DEF History!Amended

LEMMA UndoImplements ==
  ASSUME IInv, Undo
  PROVE  History!Undone
<1>0. PICK h, d, f, l : h = past /\ d = document /\ f = future /\ l = h \o <<d>> \o f
  OBVIOUS
<1>1. h \in Seq(Good) /\ d \in Good /\ f \in Seq(Good) /\ h # <<>>
  BY <1>0 DEF IInv, Undo
<1>2. Len(h) \in Nat /\ Len(h) > 0
  BY <1>1, EmptySeq
<1>3. /\ past' = SubSeq(h, 1, Len(h) - 1) /\ document' = h[Len(h)] /\ future' = <<d>> \o f
  BY <1>0 DEF Undo, Replaces, Becomes
<1>4. (past \o <<document>> \o future)' = l /\ Len(past') = Len(h) - 1
  <2>1. SubSeq(h, 1, Len(h) - 1) \o <<h[Len(h)]>> \o (<<d>> \o f) = h \o <<d>> \o f
    BY <1>1, LineBack
  <2>2. Len(SubSeq(h, 1, Len(h) - 1)) = Len(h) - 1
    BY <1>1, LineBack
  <2> QED BY <1>0, <1>3, <2>1, <2>2
<1>5. (past \o <<document>> \o future) = l /\ (Len(past) + 1) = Len(h) + 1
  BY <1>0
<1>6. Len(past) + 1 > 1 /\ (Len(past) + 1)' = (Len(past) + 1) - 1
  BY <1>0, <1>2, <1>4
<1>7. UNCHANGED (past \o <<document>> \o future)
  BY <1>4, <1>5
<1> QED BY <1>6, <1>7 DEF History!Undone

LEMMA RedoImplements ==
  ASSUME IInv, Room, Redo
  PROVE  History!Redone
<1>0. PICK h, d, f, l : h = past /\ d = document /\ f = future /\ l = h \o <<d>> \o f
  OBVIOUS
<1>1. h \in Seq(Good) /\ d \in Good /\ f \in Seq(Good) /\ f # <<>>
  BY <1>0 DEF IInv, Redo
<1>2. Len(h) \in Nat /\ Len(f) \in Nat /\ Len(f) > 0 /\ Len(h) < MaxHistory
  <2>1. Len(h) \in Nat /\ Len(f) \in Nat /\ Len(f) > 0
    BY <1>1, EmptySeq, LenProperties
  <2>2. Len(h) + Len(f) <= MaxHistory /\ MaxHistory \in Nat
    BY <1>0, ConstantsAssumption DEF Room
  <2> QED BY <2>1, <2>2
<1>3. past' = h \o <<d>> /\ document' = f[1] /\ future' = Tail(f)
  BY <1>0, <1>1, <1>2, PushedOnce DEF Redo, Replaces, Becomes
<1>4. (past \o <<document>> \o future)' = l
  BY <1>0, <1>1, <1>3, LineForward
<1>5. (Len(past) + 1)' = Len(h) + 1 + 1
  BY <1>1, <1>2, <1>3, OneMore
<1>6. (past \o <<document>> \o future) = l /\ (Len(past) + 1) = Len(h) + 1
  BY <1>0
<1>7. Len(h) + 1 < Len(l)
  <2>1. Len(l) = Len(h) + 1 + Len(f)
    BY <1>0, <1>1, LineFacts
  <2> QED BY <1>2, <2>1
<1> QED BY <1>4, <1>5, <1>6, <1>7 DEF History!Redone

LEMMA RestartImplements ==
  ASSUME document' \in Good, past' = <<>>, future' = <<>>
  PROVE  History!Restarted
<1>1. <<>> \in Seq(Good) /\ <<document'>> \in Seq(Good) /\ Len(<<>>) = 0
  BY EmptySeq
<1>2. <<>> \o <<document'>> \o <<>> = <<document'>>
  BY <1>1, ConcatEmptySeq
<1>3. Len(<<document'>>) = 1
  OBVIOUS
<1> QED BY <1>1, <1>2, <1>3 DEF History!Restarted

\* The line keeps to the limit: an edit and a restart forget what was undone, an undo
\* and a redo move one document across.
LEMMA PushedFits ==
  ASSUME NEW h \in Seq(Good), NEW d \in Good, NEW n \in Nat \ {0}
  PROVE  Len(Pushed(h, d, n)) + Len(<<>>) <= MaxHistory
<1>0. PICK p : p = Pushed(h, d, n)
  OBVIOUS
<1>1. p \in Seq(Good) /\ Len(p) <= MaxHistory
  BY <1>0, PushedGood
<1>2. Len(p) \in Nat /\ Len(<<>>) = 0
  BY <1>1, LenProperties
<1> QED BY <1>0, <1>1, <1>2

LEMMA UndoFits ==
  ASSUME IInv, Room, Undo
  PROVE  Room'
<1>0. PICK h, d, f, p, q : /\ h = past /\ d = document /\ f = future
                           /\ p = SubSeq(h, 1, Len(h) - 1) /\ q = <<d>> \o f
  OBVIOUS
<1>1. h \in Seq(Good) /\ d \in Good /\ f \in Seq(Good) /\ h # <<>>
  BY <1>0 DEF IInv, Undo
<1>2. Len(p) = Len(h) - 1
  BY <1>0, <1>1, LineBack
<1>3. Len(q) = 1 + Len(f)
  <2>1. <<d>> \in Seq(Good) /\ Len(<<d>>) = 1
    BY <1>1
  <2> QED BY <1>0, <1>1, <2>1, ConcatProperties
<1>4. Len(h) \in Nat /\ Len(f) \in Nat /\ Len(h) + Len(f) <= MaxHistory
  BY <1>0, <1>1, LenProperties DEF Room
<1>5. past' = p /\ future' = q
  BY <1>0 DEF Undo
<1>6. Len(p) + Len(q) <= MaxHistory
  BY <1>2, <1>3, <1>4
<1> QED BY <1>5, <1>6 DEF Room

LEMMA RedoFits ==
  ASSUME IInv, Room, Redo
  PROVE  Room'
<1>0. PICK h, d, f, p, q : /\ h = past /\ d = document /\ f = future
                           /\ p = h \o <<d>> /\ q = Tail(f)
  OBVIOUS
<1>1. h \in Seq(Good) /\ d \in Good /\ f \in Seq(Good) /\ f # <<>>
  BY <1>0 DEF IInv, Redo
<1>2. /\ Len(h) \in Nat /\ Len(f) \in Nat /\ Len(f) > 0
      /\ MaxHistory \in Nat /\ Len(h) + Len(f) <= MaxHistory
  BY <1>0, <1>1, EmptySeq, LenProperties, ConstantsAssumption DEF Room
<1>3. Len(p) = Len(h) + 1 /\ Len(q) = Len(f) - 1
  BY <1>0, <1>1, OneMore, HeadTailProperties
<1>4. past' = p /\ future' = q
  <2>1. Len(h) < MaxHistory
    BY <1>2
  <2> QED BY <1>0, <1>1, <2>1, PushedOnce DEF Redo
<1>5. Len(p) + Len(q) <= MaxHistory
  BY <1>2, <1>3
<1> QED BY <1>4, <1>5 DEF Room

\* What each action is to the line.
Keeps == UNCHANGED <<past, future, document>>
Edit == /\ document' \in Good
        /\ \E n \in Nat \ {0} : past' = Pushed(past, document, n) /\ future' = <<>>
Restart == document' \in Good /\ past' = <<>> /\ future' = <<>>
Amend == document' \in Good /\ UNCHANGED <<past, future>>

LEMMA ActionsOnLine ==
  ASSUME IInv, Next
  PROVE  Edit \/ Drop \/ Amend \/ Undo \/ Redo \/ Restart \/ Keeps
<1>0. document' \in Good
  BY NextIInv DEF IInv
<1>1. ASSUME NEW next, Edits(next) PROVE Edit
  BY <1>0, <1>1 DEF Edits, Edit
<1>2. ASSUME NEW next, Restarts(next) PROVE Restart
  BY <1>0, <1>2 DEF Restarts, Restart
<1>3. CASE \/ AddNode
           \/ \E id \in Ids(document), v \in Values : EditNode(id, v)
           \/ \E ids \in SUBSET Ids(document) : DeleteNodes(ids) \/ DuplicateNodes(ids)
           \/ \E channel \in Channels, source, target \in Ids(document) :
                ConnectPorts(channel, source, target)
           \/ \E e \in document.edges : DisconnectEdge(e)
  BY <1>1, <1>3 DEF AddNode, EditNode, DeleteNodes, DuplicateNodes, ConnectPorts, DisconnectEdge
<1>4. CASE \E offset \in Offsets : Move(offset)
  BY <1>0, <1>4 DEF Move, Amend
<1>5. CASE LoadSavedWorkflow \/ ClearWorkflow
  BY <1>2, <1>5 DEF LoadSavedWorkflow, ClearWorkflow
<1>6. CASE Reload
  BY <1>0, <1>6 DEF Reload, Restart
<1>7. CASE Reconcile
  <2>1. OutOfStep(document) \subseteq document.nodes /\ IsFiniteSet(document.nodes)
    BY DEF OutOfStep, IInv, Good
  <2>2. IsFiniteSet(OutOfStep(document)) /\ OutOfStep(document) # {}
    BY <1>7, <2>1, FS_Subset DEF Reconcile, Settled
  <2>3. Cardinality(OutOfStep(document)) \in Nat \ {0}
    BY <2>2, FS_CardinalityType, FS_EmptySet
  <2> QED BY <1>0, <1>7, <2>3 DEF Reconcile, Edit
<1>8. CASE (\E n \in document.nodes : BeginDrag(n)) \/ SaveWorkflow \/ Autosave
  BY <1>8 DEF BeginDrag, SaveWorkflow, Autosave, Keeps
<1> QED BY <1>3, <1>4, <1>5, <1>6, <1>7, <1>8 DEF Next

LEMMA NextRoom ==
  ASSUME IInv, Room, [Next]_vars
  PROVE  Room'
<1>1. CASE Edit
  BY <1>1, PushedFits DEF IInv, Edit, Room
<1>2. CASE Drop
  <2>1. CASE drag.before = document
    BY <1>2, <2>1 DEF Drop, Room
  <2>2. CASE drag.before # document
    <3>1. drag.before \in Good
      BY <1>2 DEF IInv, Drop, Drags
    <3> QED BY <1>2, <2>2, <3>1, PushedFits DEF IInv, Drop, Room
  <2> QED BY <2>1, <2>2
<1>3. CASE Restart
  <2>1. Len(<<>>) = 0
    OBVIOUS
  <2> QED BY <1>3, <2>1, ConstantsAssumption DEF Restart, Room
<1>4. CASE Amend \/ Keeps \/ UNCHANGED vars
  BY <1>4 DEF Amend, Keeps, vars, Room
<1> QED BY <1>1, <1>2, <1>3, <1>4, ActionsOnLine, UndoFits, RedoFits

LEMMA InitRoom == Init => Room
<1> SUFFICES ASSUME Init PROVE Room
  OBVIOUS
<1>1. Len(<<>>) = 0
  OBVIOUS
<1> QED BY <1>1, ConstantsAssumption DEF Init, Room

LEMMA SpecRoom == Spec => [](IInv /\ Room)
<1>1. Init => IInv /\ Room
  BY InitIInv, InitRoom
<1>2. IInv /\ Room /\ [Next]_vars => (IInv /\ Room)'
  BY NextIInv, NextRoom
<1> QED BY <1>1, <1>2, PTL DEF Spec

LEMMA InitImplements == Init => History!HistoryInit
<1> SUFFICES ASSUME Init PROVE History!HistoryInit
  OBVIOUS
<1>1. <<>> \in Seq(Good) /\ <<Empty>> \in Seq(Good) /\ Len(<<>>) = 0
  BY EmptySeq, EmptyGood
<1>2. <<>> \o <<Empty>> \o <<>> = <<Empty>>
  BY <1>1, ConcatEmptySeq
<1>3. Len(<<Empty>>) = 1
  OBVIOUS
<1> QED BY <1>1, <1>2, <1>3 DEF Init, History!HistoryInit

LEMMA NextImplements ==
  ASSUME IInv, Room, [Next]_vars
  PROVE  [History!HistoryNext]_(History!historyVars)
<1>1. CASE Edit
  <2>1. \E again \in 0..MaxHistory : History!Edited(again)
    BY <1>1, EditImplements DEF Edit
  <2> QED BY <2>1 DEF History!HistoryNext
<1>2. CASE Drop
  BY <1>2, DropImplements DEF History!HistoryNext, History!historyVars
<1>3. CASE Amend
  <2>1. History!Amended
    BY <1>3, MoveImplements DEF Amend
  <2> QED BY <2>1 DEF History!HistoryNext
<1>4. CASE Undo
  BY <1>4, UndoImplements DEF History!HistoryNext
<1>5. CASE Redo
  BY <1>5, RedoImplements DEF History!HistoryNext
<1>6. CASE Restart
  <2>1. History!Restarted
    BY <1>6, RestartImplements DEF Restart
  <2> QED BY <2>1 DEF History!HistoryNext
<1>7. CASE Keeps \/ UNCHANGED vars
  BY <1>7 DEF Keeps, vars, History!historyVars
<1> QED BY <1>1, <1>2, <1>3, <1>4, <1>5, <1>6, <1>7, ActionsOnLine

\* Undo and redo only move along what was recorded, an edit forgets only what was
\* undone and what is beyond the limit: every behaviour of the store is one of the line.
THEOREM HistoryAlwaysHolds == Spec => HistoryHolds
<1>1. Init => History!HistoryInit
  BY InitImplements
<1>2. IInv /\ Room /\ [Next]_vars => [History!HistoryNext]_(History!historyVars)
  BY NextImplements
<1>3. IInv /\ Room /\ [Next]_vars => [Undo => History!Undone]_vars
  BY UndoImplements
<1>4. IInv /\ Room /\ [Next]_vars => [Redo => History!Redone]_vars
  BY RedoImplements
<1> QED BY <1>1, <1>2, <1>3, <1>4, SpecRoom, PTL DEF Spec, History!HistorySpec, HistoryHolds
=============================================================================
