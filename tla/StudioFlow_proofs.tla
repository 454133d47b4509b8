-------------------------- MODULE StudioFlow_proofs --------------------------
(***************************************************************************)
(* Theorems about StudioFlow, for every graph, every number of runs and    *)
(* every interleaving of their calls.                                      *)
(***************************************************************************)
EXTENDS StudioFlow, FunctionTheorems, FiniteSetTheorems, TLAPS

-----------------------------------------------------------------------------
(* What the operators on the record of a run return.                       *)
LEMMA PublishedFacts ==
    ASSUME NEW R \in Run, NEW n \in All, NEW s \in States
    PROVE  LET P == Published(R, n, s)
           IN  /\ P \in Run /\ P.disposed = R.disposed /\ P.pending = R.pending
               /\ P.done = R.done /\ P.fired = R.fired
               /\ P.loopAt = R.loopAt
BY DEF Published, Run

(* settleNode counts one call less, and gives the run its outcome exactly *)
(* when none is left.                                                     *)
LEMMA SettledFacts ==
    ASSUME NEW R \in Run, NEW status \in Outcomes
    PROVE  LET S == Settled(R, status)
           IN  /\ S \in Run /\ S.disposed = R.disposed /\ S.fired = R.fired
               /\ S.snaps = R.snaps
               /\ S.pending = IF R.pending > 0 THEN R.pending - 1 ELSE 0
               /\ R.done # "none" \/ R.disposed => S.done = R.done
               /\ R.done = "none" /\ ~R.disposed => (S.done # "none" <=> S.pending = 0)
<1> DEFINE er == R.errors \/ status = "error"
           ab == R.aborts \/ status = "aborted"
           pe == IF R.pending > 0 THEN R.pending - 1 ELSE 0
           E  == [R EXCEPT !.errors = er, !.aborts = ab, !.pending = pe]
<1>0. er \in BOOLEAN /\ ab \in BOOLEAN /\ pe \in Nat
  BY DEF Run
<1>3. Settled(R, status) = IF E.done = "none" /\ ~E.disposed /\ E.pending = 0
                           THEN [E EXCEPT !.done = RunStatus(E)] ELSE E
  BY DEF Settled
<1>6. pe = IF R.pending > 0 THEN R.pending - 1 ELSE 0
  OBVIOUS
<1> HIDE DEF er, ab, pe
<1>1. /\ E \in Run /\ E.disposed = R.disposed /\ E.fired = R.fired /\ E.snaps = R.snaps
      /\ E.done = R.done
      /\ E.pending = IF R.pending > 0 THEN R.pending - 1 ELSE 0
  BY <1>0, <1>6 DEF Run
<1>2. RunStatus(E) \in Outcomes /\ RunStatus(E) # "none"
  BY DEF RunStatus, Outcomes
<1> HIDE DEF E
<1>4. CASE E.done = "none" /\ ~E.disposed /\ E.pending = 0
  <2>1. Settled(R, status) = [E EXCEPT !.done = RunStatus(E)]
    BY <1>3, <1>4
  <2> QED
    BY <1>1, <1>2, <1>4, <2>1 DEF Run
<1>5. CASE ~(E.done = "none" /\ ~E.disposed /\ E.pending = 0)
  BY <1>1, <1>3, <1>5
<1> QED
  BY <1>4, <1>5

(* runNode counts a call for each edge it takes, and names it anew.       *)
LEMMA SpawnedFacts ==
    ASSUME NEW R \in Run, NEW out \in SUBSET Edges
    PROVE  LET S == Spawned(R, out)
           IN  /\ S \in Run /\ S.disposed = R.disposed /\ S.done = R.done /\ S.snaps = R.snaps
               /\ S.pending = R.pending + Cardinality(out)
               /\ \A e \in Edges : S.fired[e] = IF e \in out /\ ~R.disposed
                                                THEN R.fired[e] + 1 ELSE R.fired[e]
<1>1. IsFiniteSet(out) /\ Cardinality(out) \in Nat
  BY GraphAssumption, FS_Subset, FS_CardinalityType
<1> DEFINE fd == [e \in Edges |-> IF e \in out /\ ~R.disposed
                                  THEN R.fired[e] + 1 ELSE R.fired[e]]
           pe == R.pending + Cardinality(out)
<1>2. fd \in [Edges -> Nat] /\ pe \in Nat
  BY <1>1 DEF Run
<1>3. Spawned(R, out) = [R EXCEPT !.pending = pe, !.fired = fd]
  BY DEF Spawned
<1>4. \A e \in Edges : fd[e] = IF e \in out /\ ~R.disposed THEN R.fired[e] + 1 ELSE R.fired[e]
  OBVIOUS
<1>5. pe = R.pending + Cardinality(out)
  OBVIOUS
<1> HIDE DEF fd, pe
<1> QED
  BY <1>2, <1>3, <1>4, <1>5 DEF Run

(* The runtime state of a loop touches nothing else.                      *)
LEMMA RememberedFacts ==
    ASSUME NEW R \in Run, NEW t \in Token
    PROVE  LET M == Remembered(R, t)
           IN  /\ M \in Run /\ M.disposed = R.disposed /\ M.pending = R.pending
               /\ M.done = R.done /\ M.fired = R.fired /\ M.snaps = R.snaps
BY DEF Remembered, Run, Token

(* The cleanup disposes a run, and leaves it with an outcome.             *)
LEMMA CleanedFacts ==
    ASSUME NEW R \in Run
    PROVE  LET C == Cleaned(R)
           IN  /\ C \in Run /\ C.disposed = TRUE /\ C.fired = R.fired
               /\ R.disposed \/ R.done # "none" => C.done = R.done
               /\ ~R.disposed /\ R.done = "none" => C.done \in {"aborted", "error"}
<1> DEFINE k == Cardinality(Executing(R))
<1>1. k \in Nat
  BY GraphAssumption, FS_Subset, FS_CardinalityType DEF Executing
<1> DEFINE sn == [n \in All |-> IF n \in Executing(R) THEN "aborted" ELSE R.snaps[n]]
           result == IF R.errors /\ k > 0 /\ R.pending <= k THEN "error" ELSE "aborted"
           ab == R.aborts \/ k > 0
           pe == IF R.pending > k THEN R.pending - k ELSE 0
           dn == IF R.done = "none" THEN result ELSE R.done
<1>2. sn \in [All -> States]
  BY DEF Run, States, Outcomes
<1>3. ab \in BOOLEAN /\ pe \in Nat /\ dn \in {"none"} \cup Outcomes /\ result \in {"error", "aborted"}
  BY <1>1 DEF Run, Outcomes
<1>4. Cleaned(R) = IF R.disposed THEN R
                   ELSE [R EXCEPT !.disposed = TRUE, !.aborts = ab, !.pending = pe,
                                  !.snaps = sn, !.done = dn]
  BY DEF Cleaned
<1>5. R.done # "none" => dn = R.done
  OBVIOUS
<1>6. R.done = "none" => dn \in {"aborted", "error"}
  BY <1>3
<1> HIDE DEF k, sn, result, ab, pe, dn
<1> QED
  BY <1>2, <1>3, <1>4, <1>5, <1>6 DEF Run

-----------------------------------------------------------------------------
(* What the page shows keeps its type.                                     *)
Showing == [states : [Nodes -> States], snaps : [All -> States]]

LEMMA ShownFacts ==
    ASSUME NEW R, NEW n \in Nodes, NEW p \in All, NEW s \in States, shown \in Showing
    PROVE  /\ SnapShown(R, p, s) \in Showing
           /\ NodeShown(R, n, s) \in Showing
<1>1. \A m \in All : SnapShown(R, m, s) \in Showing
  BY DEF SnapShown, Showing
<1>2. SnapShown(R, n, s) \in Showing
  BY <1>1 DEF All
<1>3. NodeShown(R, n, s) \in Showing
  BY <1>2 DEF NodeShown, Showing
<1> QED
  BY <1>1, <1>3

-----------------------------------------------------------------------------
(* A step of one call: its run becomes R, the call gives way to the calls  *)
(* N, and nothing else changes.  If R settles what N does not continue,    *)
(* the invariant holds again.                                              *)
Replaces(t, R, N) ==
    /\ runs' = [runs EXCEPT ![t.run] = R] /\ tokens' = (tokens \ {t}) \cup N
    /\ HookUnchanged /\ shown' \in Showing

Continues(t, R, N) ==
    /\ R \in Run /\ R.disposed = runs[t.run].disposed
    /\ \A e \in Edges : R.fired[e] >= runs[t.run].fired[e]
    /\ N \subseteq Token /\ IsFiniteSet(N) /\ N \cap (tokens \ {t}) = {}
    /\ \A u \in N : /\ u.run = t.run
                    /\ u.edge \in Edges => u.visit <= R.fired[u.edge]
                    /\ \A v \in (tokens \ {t}) \cup N : SameCall(u, v) => u = v

Settles(t, R, N) ==
    IF R.disposed THEN R.done = runs[t.run].done
    ELSE /\ R.pending = (runs[t.run].pending - 1) + Cardinality(N)
         /\ R.done # "none" <=> R.pending = 0

LEMMA StepKeeps ==
    ASSUME FlowInv, NEW t \in tokens, NEW R, NEW N,
           Replaces(t, R, N), Continues(t, R, N), Settles(t, R, N)
    PROVE  FlowInv'
<1>1. /\ t \in Token /\ t.run \in 1..MaxRuns /\ t.run <= started /\ started \in 0..MaxRuns
      /\ MaxRuns \in Nat /\ t.run \in 1..started
  BY GraphAssumption DEF FlowInv, TypeOK, CallsNamed, Token
<1>2. /\ runs' \in [1..MaxRuns -> Run] /\ runs'[t.run] = R
      /\ \A r \in 1..MaxRuns : r # t.run => runs'[r] = runs[r]
  BY <1>1 DEF FlowInv, TypeOK, Replaces, Continues
<1>3. TypeOK'
  BY <1>2 DEF FlowInv, TypeOK, Replaces, Continues, HookUnchanged, Showing
<1>4. IsFiniteSet(tokens')
  BY FS_RemoveElement, FS_Union DEF FlowInv, Replaces, Continues
<1>5. CallsNamed'
  <2> SUFFICES ASSUME NEW u \in tokens'
               PROVE  /\ u.run <= started'
                      /\ u.edge \in Edges => u.visit <= runs'[u.run].fired[u.edge]
                      /\ \A v \in tokens' : SameCall(u, v) => u = v
    BY DEF CallsNamed
  <2>1. started' = started
    BY DEF Replaces, HookUnchanged
  <2>2. CASE u \in N
    <3>1. u.run = t.run /\ (u.edge \in Edges => u.visit <= R.fired[u.edge])
      BY <2>2 DEF Continues
    <3>2. \A v \in tokens' : SameCall(u, v) => u = v
      BY <2>2 DEF Replaces, Continues
    <3>3. runs'[u.run] = R
      BY <1>2, <3>1
    <3>4. u.run <= started'
      BY <1>1, <2>1, <3>1
    <3> QED
      BY <3>1, <3>2, <3>3, <3>4
  <2>3. CASE u \notin N
    <3>1. u \in tokens /\ u \in Token /\ u # t
      BY <2>3 DEF Replaces, FlowInv, TypeOK
    <3>2. u.run <= started' /\ u.run \in 1..MaxRuns
      BY <2>1, <3>1 DEF FlowInv, CallsNamed, Token
    <3>3. u.edge \in Edges => u.visit <= runs'[u.run].fired[u.edge]
      <4> SUFFICES ASSUME u.edge \in Edges PROVE u.visit <= runs'[u.run].fired[u.edge]
        OBVIOUS
      <4>1. u.visit <= runs[u.run].fired[u.edge] /\ u.visit \in Nat
        BY <3>1 DEF FlowInv, CallsNamed, Token
      <4>2. /\ runs[u.run].fired[u.edge] \in Nat /\ runs'[u.run].fired[u.edge] \in Nat
        BY <1>2, <3>2 DEF FlowInv, TypeOK, Run
      <4>3. runs'[u.run].fired[u.edge] >= runs[u.run].fired[u.edge]
        BY <1>2, <3>2, <4>2 DEF Continues
      <4> QED
        BY <4>1, <4>2, <4>3
    <3>4. \A v \in tokens' : SameCall(u, v) => u = v
      <4> SUFFICES ASSUME NEW v \in tokens', SameCall(u, v) PROVE u = v
        OBVIOUS
      <4>1. CASE v \in N
        <5>1. SameCall(v, u)
          BY DEF SameCall
        <5> QED
          BY <3>1, <4>1, <5>1 DEF Continues
      <4>2. CASE v \notin N
        BY <3>1, <4>2 DEF Replaces, FlowInv, CallsNamed
      <4> QED
        BY <4>1, <4>2
    <3> QED
      BY <3>2, <3>3, <3>4
  <2> QED
    BY <2>2, <2>3
<1>6. Settlement'
  <2> SUFFICES ASSUME NEW r \in 1..started
               PROVE  IF runs'[r].disposed THEN runs'[r].done # "none"
                      ELSE /\ r = current /\ runs'[r].pending = Cardinality(TokensOf(r)')
                           /\ runs'[r].done # "none" <=> runs'[r].pending = 0
    BY DEF Settlement, Replaces, HookUnchanged
  <2>1. r \in 1..MaxRuns
    BY <1>1
  <2>2. CASE r # t.run
    <3>1. TokensOf(r)' = TokensOf(r)
      BY <2>2 DEF TokensOf, Replaces, Continues
    <3>2. runs'[r] = runs[r]
      BY <1>2, <2>1, <2>2
    <3> QED
      BY <3>1, <3>2 DEF FlowInv, Settlement
  <2>3. CASE r = t.run
    <3>1. TokensOf(r)' = (TokensOf(r) \ {t}) \cup N
      BY <2>3 DEF TokensOf, Replaces, Continues
    <3>2. IsFiniteSet(TokensOf(r)) /\ t \in TokensOf(r)
      BY <2>3, FS_Subset DEF TokensOf, FlowInv
    <3>3. /\ IsFiniteSet(TokensOf(r) \ {t})
          /\ Cardinality(TokensOf(r) \ {t}) = Cardinality(TokensOf(r)) - 1
      BY <3>2, FS_RemoveElement
    <3>4. (TokensOf(r) \ {t}) \cap N = {}
      BY DEF TokensOf, Continues
    <3>5. Cardinality(TokensOf(r)') = (Cardinality(TokensOf(r)) - 1) + Cardinality(N)
      <4>1. Cardinality((TokensOf(r) \ {t}) \cap N) = 0
        BY <3>4, FS_EmptySet
      <4>2. IsFiniteSet(N) /\ Cardinality(N) \in Nat /\ Cardinality(TokensOf(r)) \in Nat
        BY <3>2, FS_CardinalityType DEF Continues
      <4>3. Cardinality((TokensOf(r) \ {t}) \cup N)
              = Cardinality(TokensOf(r) \ {t}) + Cardinality(N)
                - Cardinality((TokensOf(r) \ {t}) \cap N)
        BY <3>3, <4>2, FS_Union
      <4>4. Cardinality((TokensOf(r) \ {t}) \cup N)
              = (Cardinality(TokensOf(r)) - 1) + Cardinality(N)
        BY <3>3, <4>1, <4>2, <4>3
      <4> QED
        BY <3>1, <4>4
    <3>6. runs'[r] = R
      BY <1>2, <2>3
    <3>7. IF runs[r].disposed THEN runs[r].done # "none"
          ELSE r = current /\ runs[r].pending = Cardinality(TokensOf(r))
      BY DEF FlowInv, Settlement
    <3> QED
      BY <2>3, <3>5, <3>6, <3>7 DEF Settles, Continues
  <2> QED
    BY <2>2, <2>3
<1>7. Unstarted'
  BY <1>1, <1>2 DEF FlowInv, Unstarted, Replaces, HookUnchanged
<1> QED
  BY <1>3, <1>4, <1>5, <1>6, <1>7 DEF FlowInv

-----------------------------------------------------------------------------
(* A call under way belongs to a started run, and is at a node.           *)
LEMMA CallFacts ==
    ASSUME FlowInv, NEW t \in tokens
    PROVE  /\ t \in Token /\ At(t) \in Nodes /\ At(t) \in All
           /\ t.run \in 1..started /\ t.run \in 1..MaxRuns /\ runs[t.run] \in Run
           /\ runs = [runs EXCEPT ![t.run] = runs[t.run]]
           /\ shown \in Showing
<1>1. t \in Token /\ t.run \in 1..MaxRuns /\ t.run <= started /\ started \in 0..MaxRuns
  BY DEF FlowInv, TypeOK, CallsNamed, Token
<1>2. At(t) \in Nodes /\ At(t) \in All
  BY <1>1, GraphAssumption DEF Token, At, Entries, Entry, All
<1> QED
  BY <1>1, <1>2, GraphAssumption DEF FlowInv, TypeOK, Showing

(* What Settlement says of the run of a call.                              *)
LEMMA CountFacts ==
    ASSUME FlowInv, NEW t \in tokens
    PROVE  /\ runs[t.run].disposed => runs[t.run].done # "none"
           /\ ~runs[t.run].disposed => /\ t.run = current
                                       /\ runs[t.run].pending > 0 /\ runs[t.run].done = "none"
<1>1. t.run \in 1..started /\ runs[t.run].pending \in Nat /\ runs[t.run].done \in {"none"} \cup Outcomes
  BY CallFacts DEF Run
<1>2. IsFiniteSet(TokensOf(t.run)) /\ t \in TokensOf(t.run)
  BY FS_Subset DEF TokensOf, FlowInv
<1>3. Cardinality(TokensOf(t.run)) # 0
  BY <1>2, FS_EmptySet
<1> QED
  BY <1>1, <1>3 DEF FlowInv, Settlement

(* A call goes on: its run keeps what settling looks at.                   *)
LEMMA GoesOn ==
    ASSUME FlowInv, NEW t \in tokens, NEW u \in Token, SameCall(t, u), NEW R \in Run,
           R.disposed = runs[t.run].disposed, R.pending = runs[t.run].pending,
           R.done = runs[t.run].done, R.fired = runs[t.run].fired,
           Replaces(t, R, {u})
    PROVE  FlowInv'
<1>1. t \in Token /\ t.run \in 1..started /\ runs[t.run] \in Run
  BY CallFacts
<1>2. u \notin tokens \ {t}
  BY DEF FlowInv, CallsNamed
<1>3. \A e \in Edges : R.fired[e] >= runs[t.run].fired[e]
  BY <1>1 DEF Run
<1>4. u.edge \in Edges => u.visit <= R.fired[u.edge]
  BY DEF FlowInv, CallsNamed, SameCall
<1>5. \A v \in (tokens \ {t}) \cup {u} : SameCall(u, v) => u = v
  BY DEF FlowInv, CallsNamed, SameCall
<1>6. Continues(t, R, {u})
  BY <1>2, <1>3, <1>4, <1>5, FS_Singleton DEF Continues, SameCall
<1>7. Cardinality({u}) = 1
  BY FS_Singleton
<1>8. Settles(t, R, {u})
  BY <1>1, <1>7, CountFacts DEF Settles, Run
<1> QED
  BY <1>6, <1>8, StepKeeps

(* A call of a cancelled run leaves without a word.                        *)
LEMMA LeavesSilently ==
    ASSUME FlowInv, NEW t \in tokens, runs[t.run].disposed,
           Leaves(t), HookUnchanged, UNCHANGED <<runs, shown>>
    PROVE  FlowInv'
<1>1. Replaces(t, runs[t.run], {})
  BY CallFacts DEF Replaces, Leaves
<1>2. Continues(t, runs[t.run], {})
  BY CallFacts, FS_EmptySet DEF Continues, Run
<1>3. Settles(t, runs[t.run], {})
  BY DEF Settles
<1> QED
  BY <1>1, <1>2, <1>3, StepKeeps

(* A call reports and settles.                                             *)
LEMMA ReportsKeeps ==
    ASSUME FlowInv, NEW t \in tokens, NEW status \in Outcomes, Reports(t, status), HookUnchanged
    PROVE  FlowInv'
<1> DEFINE P == Published(runs[t.run], At(t), status)
           R == Settled(P, status)
<1>0. status \in States
  BY DEF States
<1>1. /\ P \in Run /\ P.disposed = runs[t.run].disposed /\ P.pending = runs[t.run].pending
      /\ P.done = runs[t.run].done /\ P.fired = runs[t.run].fired
  BY <1>0, CallFacts, PublishedFacts
<1>2. shown' \in Showing
  BY <1>0, CallFacts, ShownFacts DEF Reports
<1>3. runs' = [runs EXCEPT ![t.run] = R] /\ tokens' = tokens \ {t}
  BY DEF Reports, Becomes, Leaves
<1> HIDE DEF P
<1>4. /\ R \in Run /\ R.disposed = P.disposed /\ R.fired = P.fired
      /\ R.pending = IF P.pending > 0 THEN P.pending - 1 ELSE 0
      /\ P.done # "none" \/ P.disposed => R.done = P.done
      /\ P.done = "none" /\ ~P.disposed => (R.done # "none" <=> R.pending = 0)
  BY <1>1, SettledFacts
<1> HIDE DEF R
<1>5. Replaces(t, R, {})
  BY <1>2, <1>3 DEF Replaces
<1>6. Continues(t, R, {})
  BY <1>1, <1>4, CallFacts, FS_EmptySet DEF Continues, Run
<1>7. Settles(t, R, {})
  BY <1>1, <1>4, CountFacts, FS_EmptySet DEF Settles, Run
<1> QED
  BY <1>5, <1>6, <1>7, StepKeeps

-----------------------------------------------------------------------------
(* A node succeeds: the calls it starts have names no call had before.     *)
LEMMA SucceedsKeeps ==
    ASSUME FlowInv, NEW t \in tokens, NEW ports, Succeeds(t, ports)
    PROVE  FlowInv'
<1> DEFINE out == Outgoing(At(t), ports)
           M == Remembered(runs[t.run], t)
           P == Published(M, At(t), "success")
           W == Spawned(P, out)
           R == Settled(W, "success")
           N == SpawnedTokens(t.run, out)
           old == runs[t.run]
<1>1. /\ t \in Token /\ t.run \in 1..MaxRuns /\ At(t) \in Nodes /\ At(t) \in All
      /\ old \in Run /\ shown \in Showing
  BY CallFacts
<1>2. "success" \in States /\ "success" \in Outcomes
  BY DEF States, Outcomes
<1>3. out \in SUBSET Edges /\ IsFiniteSet(out) /\ Cardinality(out) \in Nat
  BY GraphAssumption, FS_Subset, FS_CardinalityType DEF Outgoing
<1>4. /\ runs' = [runs EXCEPT ![t.run] = R] /\ tokens' = (tokens \ {t}) \cup N
      /\ HookUnchanged /\ shown' \in Showing
  BY <1>1, <1>2, ShownFacts DEF Succeeds, Becomes
<1>5. /\ M \in Run /\ M.disposed = old.disposed /\ M.pending = old.pending
      /\ M.done = old.done /\ M.fired = old.fired
  BY <1>1, RememberedFacts
<1> HIDE DEF M
<1>6. /\ P \in Run /\ P.disposed = old.disposed /\ P.pending = old.pending
      /\ P.done = old.done /\ P.fired = old.fired
  BY <1>1, <1>2, <1>5, PublishedFacts
<1> HIDE DEF P
<1>7. /\ W \in Run /\ W.disposed = old.disposed /\ W.done = old.done
      /\ W.pending = old.pending + Cardinality(out)
      /\ \A e \in Edges : W.fired[e] = IF e \in out /\ ~old.disposed
                                       THEN old.fired[e] + 1 ELSE old.fired[e]
  BY <1>3, <1>6, SpawnedFacts
<1> HIDE DEF W
<1>8. /\ R \in Run /\ R.disposed = old.disposed /\ R.fired = W.fired
      /\ R.pending = IF W.pending > 0 THEN W.pending - 1 ELSE 0
      /\ old.done # "none" \/ old.disposed => R.done = old.done
      /\ old.done = "none" /\ ~old.disposed => (R.done # "none" <=> R.pending = 0)
  BY <1>2, <1>7, SettledFacts
<1> HIDE DEF R
<1>9. N = IF old.disposed THEN {} ELSE {NewToken(t.run, e, old.fired[e] + 1) : e \in out}
  BY DEF SpawnedTokens
<1> HIDE DEF N, out
<1>10. Replaces(t, R, N)
  BY <1>4 DEF Replaces
<1>11. \A e \in Edges : old.fired[e] \in Nat
  BY <1>1 DEF Run
<1>12. \A e \in Edges : R.fired[e] >= old.fired[e]
  BY <1>7, <1>8, <1>11
<1>13. CASE old.disposed
  <2>1. N = {}
    BY <1>9, <1>13
  <2>2. Continues(t, R, N)
    BY <1>8, <1>12, <2>1, FS_EmptySet DEF Continues
  <2>3. Settles(t, R, N)
    BY <1>8, <1>13 DEF Settles
  <2> QED
    BY <1>10, <2>2, <2>3, StepKeeps
<1>14. CASE ~old.disposed
  <2>1. N = {NewToken(t.run, e, old.fired[e] + 1) : e \in out}
    BY <1>9, <1>14
  <2>2. \A e \in out : /\ NewToken(t.run, e, old.fired[e] + 1) \in Token
                       /\ NewToken(t.run, e, old.fired[e] + 1).run = t.run
                       /\ NewToken(t.run, e, old.fired[e] + 1).edge = e
                       /\ NewToken(t.run, e, old.fired[e] + 1).visit = old.fired[e] + 1
    BY <1>1, <1>3, <1>11 DEF NewToken, Token
  <2>3. \A u \in N : /\ u \in Token /\ u.run = t.run /\ u.edge \in out
                     /\ u.visit = old.fired[u.edge] + 1
                     /\ u = NewToken(t.run, u.edge, old.fired[u.edge] + 1)
    BY <2>1, <2>2
  <2>4. \A u \in N, v \in tokens : ~SameCall(u, v)
    <3> SUFFICES ASSUME NEW u \in N, NEW v \in tokens, SameCall(u, v) PROVE FALSE
      OBVIOUS
    <3>1. v.run = t.run /\ v.edge \in Edges /\ v.visit = old.fired[v.edge] + 1
      BY <1>3, <2>3 DEF SameCall
    <3>2. v.visit <= old.fired[v.edge]
      BY <3>1 DEF FlowInv, CallsNamed
    <3> QED
      BY <1>11, <3>1, <3>2
  <2>5. N \cap (tokens \ {t}) = {}
    BY <2>4 DEF SameCall
  <2>6. IsFiniteSet(N) /\ Cardinality(N) = Cardinality(out)
    <3> DEFINE f == [e \in out |-> NewToken(t.run, e, old.fired[e] + 1)]
    <3>1. f \in Bijection(out, N)
      <4>1. f \in [out -> N]
        BY <2>1
      <4>2. \A a, b \in out : f[a] = f[b] => a = b
        BY <2>2
      <4>3. \A u \in N : \E e \in out : f[e] = u
        BY <2>1
      <4> QED
        BY <4>1, <4>2, <4>3, Fun_IsBij
    <3> HIDE DEF f
    <3>2. ExistsBijection(out, N)
      BY <3>1 DEF ExistsBijection
    <3> QED
      BY <1>3, <3>2, FS_Bijection
  <2>7. Continues(t, R, N)
    <3>1. \A u \in N : u.edge \in Edges => u.visit <= R.fired[u.edge]
      BY <1>3, <1>7, <1>8, <1>11, <1>14, <2>3
    <3>2. \A u \in N, v \in (tokens \ {t}) \cup N : SameCall(u, v) => u = v
      BY <2>3, <2>4 DEF SameCall
    <3> QED
      BY <1>8, <1>12, <2>3, <2>5, <2>6, <3>1, <3>2 DEF Continues
  <2>8. Settles(t, R, N)
    <3>1. old.pending > 0 /\ old.done = "none" /\ old.pending \in Nat
      BY <1>1, <1>14, CountFacts DEF Run
    <3>2. R.pending = (old.pending - 1) + Cardinality(N)
      BY <1>3, <1>7, <1>8, <2>6, <3>1
    <3> QED
      BY <1>8, <1>14, <3>1, <3>2 DEF Settles
  <2> QED
    BY <1>10, <2>7, <2>8, StepKeeps
<1> QED
  BY <1>13, <1>14

-----------------------------------------------------------------------------
(* Every other step of a call.                                             *)
LEMMA MaterializesKeeps ==
    ASSUME FlowInv, NEW t \in tokens, NEW p \in Passive, NEW status \in Outcomes,
           Materializes(t, p, status)
    PROVE  FlowInv'
<1> DEFINE R == Published(runs[t.run], p, status)
           u == [t EXCEPT !.todo = {q \in t.todo \ {p} : R.snaps[q] = "idle"}]
<1>1. p \in All /\ status \in States
  BY DEF All, States
<1>2. /\ R \in Run /\ R.disposed = runs[t.run].disposed /\ R.pending = runs[t.run].pending
      /\ R.done = runs[t.run].done /\ R.fired = runs[t.run].fired
  BY <1>1, CallFacts, PublishedFacts
<1>3. runs' = [runs EXCEPT ![t.run] = R] /\ tokens' = (tokens \ {t}) \cup {u} /\ HookUnchanged
  BY DEF Materializes, Becomes, Moves
<1>4. shown' \in Showing
  BY <1>1, CallFacts, ShownFacts DEF Materializes
<1> HIDE DEF R
<1>5. u \in Token /\ SameCall(t, u)
  BY CallFacts DEF Token, SameCall
<1> QED
  BY <1>2, <1>3, <1>4, <1>5, GoesOn DEF Replaces

(* The preparation of a node returns, or finds its run cancelled.         *)
LEMMA PreparedKeeps ==
    ASSUME FlowInv, NEW t \in tokens, Prepared(t)
    PROVE  FlowInv'
<1>1. CASE runs[t.run].disposed
  BY <1>1, LeavesSilently DEF Prepared
<1>2. CASE ~runs[t.run].disposed
  <2> DEFINE R == Published(runs[t.run], At(t), "running")
             u == [t EXCEPT !.pc = "delay", !.index = runs[t.run].loopAt[At(t)]]
  <2>1. "running" \in States
    BY DEF States
  <2>2. /\ R \in Run /\ R.disposed = runs[t.run].disposed /\ R.pending = runs[t.run].pending
        /\ R.done = runs[t.run].done /\ R.fired = runs[t.run].fired
    BY <2>1, CallFacts, PublishedFacts
  <2>3. runs' = [runs EXCEPT ![t.run] = R] /\ tokens' = (tokens \ {t}) \cup {u} /\ HookUnchanged
    BY <1>2 DEF Prepared, Becomes, Moves
  <2>4. shown' \in Showing
    BY <1>2, <2>1, CallFacts, ShownFacts DEF Prepared
  <2> HIDE DEF R
  <2>5. runs[t.run].loopAt[At(t)] \in Nat
    BY CallFacts DEF Run
  <2>6. u \in Token /\ SameCall(t, u)
    BY <2>5, CallFacts DEF Token, SameCall
  <2> QED
    BY <2>2, <2>3, <2>4, <2>6, GoesOn DEF Replaces
<1> QED
  BY <1>1, <1>2

(* A call that only moves: its timer fires, or its node starts.            *)
LEMMA OnlyMovesKeeps ==
    ASSUME FlowInv, NEW t \in tokens, TimerFires(t) \/ Executes(t)
    PROVE  FlowInv'
<1>1. /\ t \in Token /\ runs[t.run] \in Run /\ shown \in Showing
      /\ runs = [runs EXCEPT ![t.run] = runs[t.run]]
  BY CallFacts
<1>2. \E u \in Token : SameCall(t, u) /\ tokens' = (tokens \ {t}) \cup {u}
  <2>1. CASE TimerFires(t)
    <3> DEFINE todo == {p \in Needs[At(t)] : runs[t.run].snaps[p] = "idle"}
               u == [t EXCEPT !.pc = "prepare", !.todo = todo]
    <3>1. todo \in SUBSET Passive
      BY CallFacts, GraphAssumption
    <3>2. tokens' = (tokens \ {t}) \cup {u}
      BY <2>1 DEF TimerFires, Moves
    <3> HIDE DEF todo
    <3>3. u \in Token /\ SameCall(t, u)
      BY <1>1, <3>1 DEF Token, SameCall
    <3> QED
      BY <3>2, <3>3
  <2>2. CASE Executes(t)
    <3> DEFINE u == [t EXCEPT !.pc = "exec"]
    <3>1. tokens' = (tokens \ {t}) \cup {u}
      BY <2>2 DEF Executes, Moves
    <3>2. u \in Token /\ SameCall(t, u)
      BY <1>1 DEF Token, SameCall
    <3> QED
      BY <3>1, <3>2
  <2> QED
    BY <2>1, <2>2
<1>3. runs' = runs /\ shown' = shown /\ HookUnchanged
  BY DEF TimerFires, Executes
<1> QED
  BY <1>1, <1>2, <1>3, GoesOn DEF Replaces

(* A node reports progress.                                               *)
LEMMA ProgressesKeeps ==
    ASSUME FlowInv, NEW t \in tokens, Progresses(t)
    PROVE  FlowInv'
<1> DEFINE R == Published(runs[t.run], At(t), "running")
<1>1. "running" \in States
  BY DEF States
<1>2. /\ R \in Run /\ R.disposed = runs[t.run].disposed /\ R.pending = runs[t.run].pending
      /\ R.done = runs[t.run].done /\ R.fired = runs[t.run].fired
  BY <1>1, CallFacts, PublishedFacts
<1>3. runs' = [runs EXCEPT ![t.run] = R] /\ tokens' = (tokens \ {t}) \cup {t} /\ HookUnchanged
  BY DEF Progresses, Becomes
<1>4. shown' \in Showing
  BY <1>1, CallFacts, ShownFacts DEF Progresses
<1> HIDE DEF R
<1> QED
  BY <1>2, <1>3, <1>4, CallFacts, GoesOn DEF Replaces, SameCall

(* Any step of a call.                                                    *)
LEMMA StepsKeep ==
    ASSUME FlowInv, NEW t \in tokens, Steps(t) \/ Progresses(t)
    PROVE  FlowInv'
<1>1. {"success", "error", "aborted"} \subseteq Outcomes
  BY DEF Outcomes
<1>2. CASE PrepareFails(t)
  BY <1>1, <1>2, LeavesSilently, ReportsKeeps DEF PrepareFails
<1>3. CASE NotFound(t)
  BY <1>1, <1>3, ReportsKeeps DEF NotFound
<1>4. CASE Fails(t)
  BY <1>1, <1>4, ReportsKeeps DEF Fails
<1>5. CASE Aborts(t)
  BY <1>1, <1>5, LeavesSilently, ReportsKeeps DEF Aborts
<1> QED
  BY <1>2, <1>3, <1>4, <1>5, MaterializesKeeps, PreparedKeeps, OnlyMovesKeeps,
     ProgressesKeeps, SucceedsKeeps DEF Steps

-----------------------------------------------------------------------------
(* What the cleanup of the current run leaves: every started run disposed, *)
(* each with an outcome.                                                   *)
LEMMA CleanupFacts ==
    ASSUME FlowInv
    PROVE  /\ RunsCleaned \in [1..MaxRuns -> Run]
           /\ \A r \in 1..started : /\ RunsCleaned[r].disposed /\ RunsCleaned[r].done # "none"
                                   /\ RunsCleaned[r].fired = runs[r].fired
           /\ \A r \in 1..MaxRuns : r > started => RunsCleaned[r] = NewRun
           /\ TokensCleaned \subseteq tokens /\ IsFiniteSet(TokensCleaned)
           /\ started \in 0..MaxRuns /\ 1..started \subseteq 1..MaxRuns
<1>1. /\ started \in 0..MaxRuns /\ current \in 0..started /\ MaxRuns \in Nat
      /\ runs \in [1..MaxRuns -> Run] /\ 1..started \subseteq 1..MaxRuns
  BY GraphAssumption DEF FlowInv, TypeOK
<1>2. TokensCleaned \subseteq tokens /\ IsFiniteSet(TokensCleaned)
  BY FS_Subset DEF TokensCleaned, FlowInv
<1>3. \A r \in 1..started : ~runs[r].disposed => r = current
  BY DEF FlowInv, Settlement
<1>4. \A r \in 1..started : runs[r].disposed => runs[r].done # "none"
  BY DEF FlowInv, Settlement
<1>5. CASE current = 0
  BY <1>1, <1>2, <1>3, <1>4, <1>5 DEF RunsCleaned, FlowInv, Unstarted
<1>6. CASE current # 0
  <2> DEFINE C == Cleaned(runs[current])
  <2>1. current \in 1..started /\ current \in 1..MaxRuns
    BY <1>1, <1>6
  <2>2. C \in Run /\ C.disposed = TRUE /\ C.fired = runs[current].fired /\ C.done # "none"
    BY <1>1, <1>4, <2>1, CleanedFacts
  <2>3. RunsCleaned = [runs EXCEPT ![current] = C]
    BY <1>6 DEF RunsCleaned
  <2> HIDE DEF C
  <2> QED
    BY <1>1, <1>2, <1>3, <1>4, <2>1, <2>2, <2>3 DEF FlowInv, Unstarted
<1> QED
  BY <1>5, <1>6

(* The effects that let go of the current run.                            *)
LEMMA CleanupKeeps ==
    ASSUME FlowInv, runs' = RunsCleaned, tokens' = TokensCleaned, shown' = Blank,
           started' = started, current' \in 0..started, ready' \in BOOLEAN, mounted' \in BOOLEAN
    PROVE  FlowInv'
<1>1. Blank \in Showing
  BY DEF Blank, Showing, States
<1>2. TypeOK'
  BY <1>1, CleanupFacts DEF FlowInv, TypeOK, Showing
<1>3. CallsNamed'
  <2> SUFFICES ASSUME NEW t \in tokens'
               PROVE  /\ t.run <= started'
                      /\ t.edge \in Edges => t.visit <= runs'[t.run].fired[t.edge]
                      /\ \A u \in tokens' : SameCall(t, u) => t = u
    BY DEF CallsNamed
  <2>1. t \in tokens
    BY CleanupFacts
  <2>2. t.run \in 1..started /\ runs'[t.run].fired = runs[t.run].fired
    BY <2>1, CleanupFacts, CallFacts
  <2> QED
    BY <2>1, <2>2, CleanupFacts DEF FlowInv, CallsNamed
<1>4. Settlement'
  BY CleanupFacts DEF Settlement
<1>5. Unstarted'
  BY CleanupFacts DEF Unstarted
<1> QED
  BY <1>2, <1>3, <1>4, <1>5, CleanupFacts DEF FlowInv

(* A new run counts its first call, and every earlier one is disposed.     *)
LEMMA ExecuteKeeps ==
    ASSUME FlowInv, NEW n \in Starts, ExecuteFlow(n)
    PROVE  FlowInv'
<1> DEFINE r == started + 1
           c == NewToken(r, Entry(n), 1)
           R == [NewRun EXCEPT !.pending = 1]
<1>1. /\ r \in 1..MaxRuns /\ started \in Nat /\ r > started /\ MaxRuns \in Nat
      /\ started' = r /\ current' = r
  BY GraphAssumption, CleanupFacts DEF ExecuteFlow
<1>2. RunsCleaned[r] = NewRun
  BY <1>1, CleanupFacts
<1>3. runs' = [RunsCleaned EXCEPT ![r] = R]
  BY <1>1, <1>2, CleanupFacts DEF ExecuteFlow
<1>4. R \in Run /\ R.pending = 1 /\ R.disposed = FALSE /\ R.done = "none"
  BY DEF NewRun, Run, States
<1>5. c \in Token /\ c.run = r /\ c.edge = Entry(n)
  BY <1>1 DEF NewToken, Token, Entries
<1>6. tokens' = TokensCleaned \cup {c}
  BY DEF ExecuteFlow
<1>7. c.edge \notin Edges
  BY <1>5, GraphAssumption DEF Entry
<1> HIDE DEF r, c, R
<1>8. /\ runs' \in [1..MaxRuns -> Run] /\ runs'[r] = R
      /\ \A q \in 1..MaxRuns : q # r => runs'[q] = RunsCleaned[q]
  BY <1>1, <1>3, <1>4, CleanupFacts
<1>9. \A t \in TokensCleaned : t \in tokens /\ t.run \in 1..started /\ t.run # r
  BY <1>1, CleanupFacts, CallFacts
<1>10. TypeOK'
  <2>1. shown' \in Showing
    BY DEF ExecuteFlow, Blank, Showing, States
  <2>2. tokens' \subseteq Token
    BY <1>5, <1>6, CleanupFacts DEF FlowInv, TypeOK
  <2> QED
    BY <1>1, <1>8, <2>1, <2>2 DEF FlowInv, TypeOK, ExecuteFlow, Showing
<1>11. IsFiniteSet(tokens')
  BY <1>6, CleanupFacts, FS_AddElement
<1>12. CallsNamed'
  <2> SUFFICES ASSUME NEW t \in tokens'
               PROVE  /\ t.run <= r
                      /\ t.edge \in Edges => t.visit <= runs'[t.run].fired[t.edge]
                      /\ \A u \in tokens' : SameCall(t, u) => t = u
    BY <1>1 DEF CallsNamed
  <2>1. CASE t = c
    <3>1. \A u \in tokens' : SameCall(t, u) => t = u
      BY <1>5, <1>6, <1>9, <2>1 DEF SameCall
    <3> QED
      BY <1>1, <1>5, <1>7, <2>1, <3>1
  <2>2. CASE t # c
    <3>1. t \in tokens /\ t.run \in 1..started /\ t.run # r /\ t.run \in 1..MaxRuns
      BY <1>6, <1>9, <2>2, CleanupFacts
    <3>2. runs'[t.run].fired = runs[t.run].fired
      BY <1>8, <3>1, CleanupFacts
    <3>3. \A u \in tokens' : SameCall(t, u) => t = u
      BY <1>5, <1>6, <1>9, <3>1 DEF SameCall, FlowInv, CallsNamed
    <3> QED
      BY <1>1, <3>1, <3>2, <3>3 DEF FlowInv, CallsNamed
  <2> QED
    BY <2>1, <2>2
<1>13. Settlement'
  <2> SUFFICES ASSUME NEW q \in 1..r
               PROVE  IF runs'[q].disposed THEN runs'[q].done # "none"
                      ELSE /\ q = r /\ runs'[q].pending = Cardinality(TokensOf(q)')
                           /\ runs'[q].done # "none" <=> runs'[q].pending = 0
    BY <1>1 DEF Settlement
  <2>1. CASE q = r
    <3>1. TokensOf(q)' = {c}
      BY <1>5, <1>6, <1>9, <2>1 DEF TokensOf
    <3>2. Cardinality(TokensOf(q)') = 1
      BY <3>1, FS_Singleton
    <3> QED
      BY <1>4, <1>8, <2>1, <3>2
  <2>2. CASE q # r
    <3>1. q \in 1..started /\ q \in 1..MaxRuns
      BY <1>1, <2>2 DEF r
    <3> QED
      BY <1>8, <2>2, <3>1, CleanupFacts
  <2> QED
    BY <2>1, <2>2
<1>14. Unstarted'
  BY <1>1, <1>8, CleanupFacts DEF Unstarted
<1> QED
  BY <1>10, <1>11, <1>12, <1>13, <1>14 DEF FlowInv

(* The hook before its first run.                                         *)
LEMMA InitHolds == Init => FlowInv
<1> SUFFICES ASSUME Init PROVE FlowInv
  OBVIOUS
<1>1. NewRun \in Run
  BY DEF NewRun, Run, States
<1>2. TypeOK
  BY <1>1, GraphAssumption DEF Init, TypeOK, Blank, States
<1> QED
  BY <1>2, FS_EmptySet DEF Init, FlowInv, CallsNamed, Settlement, Unstarted

(* Every step of the engine and of the hook.                              *)
LEMMA NextKeeps == FlowInv /\ [Next]_vars => FlowInv'
<1> SUFFICES ASSUME FlowInv, [Next]_vars PROVE FlowInv'
  OBVIOUS
<1>1. CASE \E n \in Starts : ExecuteFlow(n)
  BY <1>1, ExecuteKeeps
<1>2. CASE ResetRuntime /\ ready' \in BOOLEAN
  <2>1. started \in 0..MaxRuns /\ 0 \in 0..started /\ mounted \in BOOLEAN
    BY DEF FlowInv, TypeOK
  <2> QED
    BY <1>2, <2>1, CleanupKeeps DEF ResetRuntime
<1>3. CASE Unmounts
  BY <1>3, CleanupKeeps DEF Unmounts, FlowInv, TypeOK
<1>4. CASE WorkspaceReady \/ UNCHANGED vars
  <2>1. UNCHANGED <<runs, started, tokens, current, shown, mounted>> /\ ready' \in BOOLEAN
    BY <1>4 DEF WorkspaceReady, vars, FlowInv, TypeOK
  <2> QED
    BY <2>1 DEF FlowInv, TypeOK, CallsNamed, Settlement, TokensOf, Unstarted
<1>5. CASE \E t \in tokens : Steps(t) \/ Progresses(t)
  BY <1>5, StepsKeep
<1>6. DocumentChanges \/ WorkspaceUnready => ResetRuntime /\ ready' \in BOOLEAN
  BY DEF DocumentChanges, WorkspaceUnready, FlowInv, TypeOK
<1> QED
  BY <1>1, <1>2, <1>3, <1>4, <1>5, <1>6 DEF Next

-----------------------------------------------------------------------------
(* The inductive invariant: types, names of calls, and what the current    *)
(* run counts.                                                             *)
THEOREM FlowCorrect == Spec => []FlowInv
BY InitHolds, NextKeeps, PTL DEF Spec

(* TypeOK, for every graph: executeStudioFlow and its hook.                *)
THEOREM FlowTypeCorrect == Spec => []TypeOK
<1>1. FlowInv => TypeOK
  BY DEF FlowInv
<1> QED
  BY <1>1, FlowCorrect, PTL

(* PendingCountsCalls: no call of runNode is lost and none settles twice,  *)
(* for every graph.                                                        *)
THEOREM PendingAlwaysCounts == Spec => []PendingCountsCalls
<1>1. FlowInv => PendingCountsCalls
  BY DEF FlowInv, Settlement, PendingCountsCalls
<1> QED
  BY <1>1, FlowCorrect, PTL

(* DoneMeansQuiet: publishRunCompletion runs exactly when the last call    *)
(* has settled or the run is cancelled.                                    *)
THEOREM DoneAlwaysQuiet == Spec => []DoneMeansQuiet
<1>1. FlowInv => DoneMeansQuiet
  <2> SUFFICES ASSUME FlowInv, NEW r \in 1..started
               PROVE  runs[r].done # "none" <=> runs[r].disposed \/ TokensOf(r) = {}
    BY DEF DoneMeansQuiet
  <2>1. IsFiniteSet(TokensOf(r))
    BY FS_Subset DEF TokensOf, FlowInv
  <2>2. Cardinality(TokensOf(r)) = 0 <=> TokensOf(r) = {}
    BY <2>1, FS_EmptySet
  <2> QED
    BY <2>2 DEF FlowInv, Settlement
<1> QED
  BY <1>1, FlowCorrect, PTL

-----------------------------------------------------------------------------
(* A step of a call changes the record of its run only, and gives it an    *)
(* outcome only while it is the current run and has none.                  *)
LEMMA StepOutcome ==
    ASSUME FlowInv, NEW t \in tokens, Steps(t) \/ Progresses(t)
    PROVE  /\ current' = current
           /\ \A r \in 1..MaxRuns : r # t.run => runs'[r] = runs[r]
           /\ runs[t.run].disposed => runs'[t.run].done = runs[t.run].done
<1> DEFINE old == runs[t.run]
<1>1. /\ t.run \in 1..MaxRuns /\ old \in Run /\ At(t) \in All /\ t \in Token
      /\ runs \in [1..MaxRuns -> Run]
  BY CallFacts DEF FlowInv, TypeOK
<1>2. /\ Outcomes \subseteq States /\ "running" \in States
      /\ "success" \in Outcomes /\ "error" \in Outcomes /\ "aborted" \in Outcomes
  BY DEF States, Outcomes
<1>3. Passive \subseteq All
  BY DEF All
<1>4. \A n \in All, s \in States : /\ Published(old, n, s) \in Run
                                   /\ Published(old, n, s).done = old.done
                                   /\ Published(old, n, s).disposed = old.disposed
  BY <1>1, PublishedFacts
<1>5. \A s \in Outcomes : /\ Settled(Published(old, At(t), s), s) \in Run
                          /\ old.disposed => Settled(Published(old, At(t), s), s).done = old.done
  <2> SUFFICES ASSUME NEW s \in Outcomes
               PROVE  /\ Settled(Published(old, At(t), s), s) \in Run
                      /\ old.disposed => Settled(Published(old, At(t), s), s).done = old.done
    OBVIOUS
  <2> DEFINE P == Published(old, At(t), s)
  <2>1. P \in Run /\ P.done = old.done /\ P.disposed = old.disposed
    BY <1>1, <1>2, <1>4
  <2> HIDE DEF P
  <2>2. Settled(P, s) \in Run /\ (P.disposed => Settled(P, s).done = P.done)
    BY <2>1, SettledFacts
  <2> QED
    BY <2>1, <2>2 DEF P
<1>6. ASSUME NEW R, runs' = [runs EXCEPT ![t.run] = R], HookUnchanged,
             old.disposed => R.done = old.done
      PROVE  /\ current' = current
             /\ \A r \in 1..MaxRuns : r # t.run => runs'[r] = runs[r]
             /\ old.disposed => runs'[t.run].done = old.done
  BY <1>1, <1>6 DEF HookUnchanged
<1>7. ASSUME NEW status \in Outcomes, Reports(t, status), HookUnchanged
      PROVE  /\ current' = current
             /\ \A r \in 1..MaxRuns : r # t.run => runs'[r] = runs[r]
             /\ old.disposed => runs'[t.run].done = old.done
  BY <1>5, <1>6, <1>7 DEF Reports, Becomes
<1>8. ASSUME NEW p \in Passive, NEW status \in Outcomes, Materializes(t, p, status)
      PROVE  /\ current' = current
             /\ \A r \in 1..MaxRuns : r # t.run => runs'[r] = runs[r]
             /\ old.disposed => runs'[t.run].done = old.done
  <2>1. Published(old, p, status).done = old.done
    BY <1>2, <1>3, <1>4
  <2> QED
    BY <1>6, <1>8, <2>1 DEF Materializes, Becomes
<1>9. ASSUME NEW ports, Succeeds(t, ports)
      PROVE  /\ current' = current
             /\ \A r \in 1..MaxRuns : r # t.run => runs'[r] = runs[r]
             /\ old.disposed => runs'[t.run].done = old.done
  <2> DEFINE M == Remembered(old, t)
             P == Published(M, At(t), "success")
             W == Spawned(P, Outgoing(At(t), ports))
             R == Settled(W, "success")
  <2>1. runs' = [runs EXCEPT ![t.run] = R] /\ HookUnchanged
    BY <1>9 DEF Succeeds, Becomes
  <2>2. M \in Run /\ M.disposed = old.disposed /\ M.done = old.done
    BY <1>1, RememberedFacts
  <2> HIDE DEF M
  <2>3. P \in Run /\ P.disposed = old.disposed /\ P.done = old.done
    BY <1>1, <1>2, <2>2, PublishedFacts
  <2> HIDE DEF P
  <2>4. Outgoing(At(t), ports) \in SUBSET Edges
    BY DEF Outgoing
  <2>5. W \in Run /\ W.disposed = old.disposed /\ W.done = old.done
    BY <2>3, <2>4, SpawnedFacts
  <2> HIDE DEF W
  <2>6. old.disposed => R.done = old.done
    BY <1>2, <2>5, SettledFacts
  <2> HIDE DEF R
  <2> QED
    BY <1>6, <2>1, <2>6
<1>10. ASSUME runs' = runs, HookUnchanged
       PROVE  /\ current' = current
              /\ \A r \in 1..MaxRuns : r # t.run => runs'[r] = runs[r]
              /\ old.disposed => runs'[t.run].done = old.done
  BY <1>10 DEF HookUnchanged
<1>11. CASE Prepared(t) \/ Progresses(t)
  <2>1. HookUnchanged
    BY <1>11 DEF Prepared, Progresses
  <2>2. \/ runs' = runs
        \/ runs' = [runs EXCEPT ![t.run] = Published(old, At(t), "running")]
    BY <1>11 DEF Prepared, Progresses, Becomes
  <2>3. Published(old, At(t), "running").done = old.done
    BY <1>1, <1>2, <1>4
  <2> QED
    BY <1>6, <1>10, <2>1, <2>2, <2>3
<1>12. CASE PrepareFails(t)
  BY <1>2, <1>7, <1>10, <1>12 DEF PrepareFails
<1>13. CASE NotFound(t) \/ Fails(t)
  BY <1>2, <1>7, <1>13 DEF NotFound, Fails
<1>14. CASE Aborts(t)
  BY <1>2, <1>7, <1>10, <1>14 DEF Aborts
<1>15. CASE TimerFires(t) \/ Executes(t)
  BY <1>10, <1>15 DEF TimerFires, Executes
<1> QED
  BY <1>8, <1>9, <1>11, <1>12, <1>13, <1>14, <1>15 DEF Steps

-----------------------------------------------------------------------------
(* The refinement: the current run is the live one, and its outcome is     *)
(* what onRunComplete was called with.                                     *)
OutcomeOf(rs) == [r \in 1..MaxRuns |-> rs[r].done]

LEMMA CleanupOutcome ==
    ASSUME FlowInv, current # 0
    PROVE  /\ current \in 1..MaxRuns
           /\ runs[current].done # "none" => OutcomeOf(RunsCleaned) = OutcomeOf(runs)
           /\ runs[current].done = "none" =>
                 \E result \in {"aborted", "error"} :
                    OutcomeOf(RunsCleaned) = [OutcomeOf(runs) EXCEPT ![current] = result]
<1> DEFINE C == Cleaned(runs[current])
<1>1. /\ current \in 1..MaxRuns /\ current \in 1..started /\ runs \in [1..MaxRuns -> Run]
      /\ runs[current] \in Run
  BY CleanupFacts DEF FlowInv, TypeOK
<1>2. RunsCleaned = [runs EXCEPT ![current] = C]
  BY DEF RunsCleaned
<1>3. runs[current].done = "none" => ~runs[current].disposed
  BY <1>1 DEF FlowInv, Settlement
<1>4. /\ runs[current].done # "none" => C.done = runs[current].done
      /\ runs[current].done = "none" => C.done \in {"aborted", "error"}
  BY <1>1, <1>3, CleanedFacts
<1> HIDE DEF C
<1>5. \A r \in 1..MaxRuns : RunsCleaned[r].done = IF r = current THEN C.done ELSE runs[r].done
  BY <1>1, <1>2
<1>6. OutcomeOf(RunsCleaned) = [OutcomeOf(runs) EXCEPT ![current] = C.done]
  BY <1>5 DEF OutcomeOf
<1>7. runs[current].done # "none" => OutcomeOf(RunsCleaned) = OutcomeOf(runs)
  BY <1>1, <1>4, <1>6 DEF OutcomeOf
<1> QED
  BY <1>1, <1>4, <1>6, <1>7

LEMMA CleanupGivesWay ==
    ASSUME FlowInv, OutcomeOf(runs)' = OutcomeOf(RunsCleaned),
           current' = 0 \/ (current' > current /\ current' \in 1..MaxRuns
                           /\ OutcomeOf(runs)[current'] = "none")
    PROVE  Contract!ContractNext
<1>1. current \in Nat /\ OutcomeOf(runs) = [r \in 1..MaxRuns |-> runs[r].done]
  BY GraphAssumption DEF FlowInv, TypeOK, OutcomeOf
<1>2. \/ current # 0 /\ OutcomeOf(runs)[current] = "none"
         /\ \E result \in Contract!Outcomes \ {"success"} :
               OutcomeOf(runs)' = [OutcomeOf(runs) EXCEPT ![current] = result]
      \/ /\ current # 0 => OutcomeOf(runs)[current] # "none"
         /\ OutcomeOf(runs)' = OutcomeOf(runs)
  <2>1. CASE current = 0
    <3>1. RunsCleaned = runs
      BY <2>1 DEF RunsCleaned
    <3> QED
      BY <2>1, <3>1
  <2>2. CASE current # 0
    <3>1. OutcomeOf(runs)[current] = runs[current].done
      BY <2>2, CleanupOutcome DEF OutcomeOf
    <3>2. {"aborted", "error"} \subseteq Contract!Outcomes \ {"success"}
      BY DEF Contract!Outcomes
    <3> QED
      BY <2>2, <3>1, <3>2, CleanupOutcome
  <2> QED
    BY <2>1, <2>2
<1>3. PICK next \in 0..MaxRuns : next = current'
  BY GraphAssumption
<1>4. Contract!GivesWay(next)
  BY <1>1, <1>2, <1>3 DEF Contract!GivesWay, OutcomeOf
<1> QED
  BY <1>4 DEF Contract!ContractNext

LEMMA StepRefines ==
    ASSUME FlowInv, FlowInv', [Next]_vars
    PROVE  [Contract!ContractNext]_(Contract!contractVars)
<1> USE GraphAssumption
<1>1. /\ current \in 0..MaxRuns /\ current' \in 0..MaxRuns /\ started \in 0..MaxRuns
      /\ runs \in [1..MaxRuns -> Run] /\ runs' \in [1..MaxRuns -> Run]
  BY DEF FlowInv, TypeOK
<1>2. CASE UNCHANGED vars \/ WorkspaceReady
  BY <1>2 DEF vars, WorkspaceReady, Contract!contractVars
<1>3. CASE DocumentChanges \/ WorkspaceUnready
  <2>1. current' = 0 /\ runs' = RunsCleaned
    BY <1>3 DEF DocumentChanges, WorkspaceUnready, ResetRuntime
  <2> QED
    BY <2>1, CleanupGivesWay DEF OutcomeOf
<1>4. CASE \E n \in Starts : ExecuteFlow(n)
  <2>1. /\ current' = started + 1 /\ current' \in 1..MaxRuns /\ current' > current
        /\ runs' = [RunsCleaned EXCEPT ![started + 1].pending = 1]
    BY <1>1, <1>4 DEF ExecuteFlow, FlowInv, TypeOK
  <2>2. OutcomeOf(runs)' = OutcomeOf(RunsCleaned)
    <3>1. \A r \in 1..MaxRuns : runs'[r].done = RunsCleaned[r].done
      BY <2>1, CleanupFacts DEF Run
    <3> QED
      BY <3>1 DEF OutcomeOf
  <2>3. OutcomeOf(runs)[current'] = "none"
    BY <1>1, <2>1 DEF FlowInv, Unstarted, OutcomeOf, NewRun
  <2> QED
    BY <2>1, <2>2, <2>3, CleanupGivesWay
<1>5. CASE Unmounts
  <2>1. current' = current /\ runs' = RunsCleaned
    BY <1>5 DEF Unmounts
  <2>2. CASE current = 0 \/ (current # 0 /\ runs[current].done # "none")
    <3>1. OutcomeOf(runs)' = OutcomeOf(runs)
      BY <2>1, <2>2, CleanupOutcome DEF RunsCleaned, OutcomeOf
    <3> QED
      BY <2>1, <3>1 DEF Contract!contractVars, OutcomeOf
  <2>3. CASE current # 0 /\ runs[current].done = "none"
    <3>1. PICK result \in Contract!Outcomes :
             OutcomeOf(runs)' = [OutcomeOf(runs) EXCEPT ![current] = result]
      BY <2>1, <2>3, CleanupOutcome DEF Contract!Outcomes, OutcomeOf
    <3>2. current \in 1..MaxRuns
      BY <2>3, CleanupOutcome
    <3>3. Contract!Ends(result)
      BY <2>1, <2>3, <3>1, <3>2 DEF Contract!Ends, OutcomeOf
    <3> QED
      BY <3>3 DEF Contract!ContractNext
  <2> QED
    BY <2>2, <2>3
<1>6. CASE \E t \in tokens : Steps(t) \/ Progresses(t)
  <2> PICK t \in tokens : Steps(t) \/ Progresses(t)
    BY <1>6
  <2>1. /\ current' = current
        /\ \A r \in 1..MaxRuns : r # t.run => runs'[r] = runs[r]
        /\ runs[t.run].disposed => runs'[t.run].done = runs[t.run].done
    BY StepOutcome
  <2>2. t.run \in 1..MaxRuns
    BY CallFacts
  <2>3. CASE runs'[t.run].done = runs[t.run].done
    <3>1. \A r \in 1..MaxRuns : runs'[r].done = runs[r].done
      BY <2>1, <2>3
    <3> QED
      BY <2>1, <3>1 DEF Contract!contractVars
  <2>4. CASE runs'[t.run].done # runs[t.run].done
    <3>1. t.run = current /\ current # 0 /\ runs[current].done = "none"
      BY <2>1, <2>2, <2>4, CountFacts
    <3>2. runs'[current].done \in Contract!Outcomes
      BY <1>1, <2>2, <2>4, <3>1 DEF Run, Outcomes, Contract!Outcomes
    <3>3. OutcomeOf(runs)' = [OutcomeOf(runs) EXCEPT ![current] = runs'[current].done]
      BY <2>1, <2>2, <3>1 DEF OutcomeOf
    <3> QED
      BY <2>1, <2>2, <3>1, <3>2, <3>3 DEF Contract!ContractNext, Contract!Ends, OutcomeOf
  <2> QED
    BY <2>3, <2>4
<1> QED
  BY <1>2, <1>3, <1>4, <1>5, <1>6 DEF Next

(* StudioRun is implemented, but for its fairness: a run has one outcome,  *)
(* told once, a cancelled run never succeeds, and one run is live.         *)
THEOREM FlowImplementsRun == Spec => Contract!ContractSafety
<1>1. Init => Contract!ContractInit
  BY DEF Init, Contract!ContractInit, NewRun
<1>2. FlowInv /\ FlowInv' /\ [Next]_vars => [Contract!ContractNext]_(Contract!contractVars)
  BY StepRefines
<1> QED
  BY <1>1, <1>2, FlowCorrect, PTL DEF Spec, Contract!ContractSafety

-----------------------------------------------------------------------------
(* What the page and the snapshots of the runs say.                        *)

BusyAt(u, n) == At(u) = n /\ u.pc \in {"delay", "exec"}

(* A call replaced by N says something of its own node at most, and         *)
(* something final unless a call of N is busy there.                        *)
SaysOfNode(t, R, N) ==
    /\ \A u \in N : u.run = t.run
    /\ \A m \in Nodes \ {At(t)} : /\ R.snaps[m] = runs[t.run].snaps[m]
                                  /\ shown'.states[m] = shown.states[m]
    /\ \/ /\ \E u \in N : BusyAt(u, At(t))
          /\ runs[t.run].disposed => shown' = shown
       \/ /\ ~BusyAt(t, At(t)) /\ R.snaps[At(t)] = runs[t.run].snaps[At(t)]
          /\ shown'.states[At(t)] = shown.states[At(t)]
       \/ /\ runs[t.run].disposed \/ R.snaps[At(t)] \in Outcomes
          /\ mounted => shown'.states[At(t)] \in Outcomes \/
                        (runs[t.run].disposed /\ shown'.states[At(t)] = shown.states[At(t)])

(* The page follows the run unless it is cancelled.                         *)
ShowsRun(t, R) ==
    /\ runs[t.run].disposed => R.snaps = runs[t.run].snaps /\ shown'.snaps = shown.snaps
    /\ ~runs[t.run].disposed /\ mounted /\ shown.snaps = runs[t.run].snaps => shown'.snaps = R.snaps
    /\ ~mounted => shown' = shown

(* Failures are counted, and a success has none.                            *)
CountsFailures(t, R) ==
    IF runs[t.run].disposed THEN R.done = runs[t.run].done
    ELSE /\ runs[t.run].errors => R.errors
         /\ runs[t.run].aborts => R.aborts
         /\ R.snaps[At(t)] = "error" /\ runs[t.run].snaps[At(t)] # "error" => R.errors
         /\ R.snaps[At(t)] = "aborted" /\ runs[t.run].snaps[At(t)] # "aborted" => R.aborts
         /\ R.done = "success" => ~R.errors /\ ~R.aborts

(* What a call says of its own node keeps the rest true.                   *)
LEMMA StepShows ==
    ASSUME FlowInv, FlowInv', ShownInv, NEW t \in tokens, NEW R, NEW N, Replaces(t, R, N),
           R \in Run, R.disposed = runs[t.run].disposed,
           SaysOfNode(t, R, N), ShowsRun(t, R), CountsFailures(t, R)
    PROVE  ShownInv'
<1> DEFINE n == At(t)
           old == runs[t.run]
<1>1. /\ t.run \in 1..started /\ t.run \in 1..MaxRuns /\ n \in Nodes /\ old \in Run
      /\ started \in 0..MaxRuns /\ MaxRuns \in Nat /\ 1..started \subseteq 1..MaxRuns
  BY CallFacts, CleanupFacts, GraphAssumption
<1>2. /\ runs'[t.run] = R /\ \A r \in 1..MaxRuns : r # t.run => runs'[r] = runs[r]
      /\ R.disposed = old.disposed /\ started' = started /\ current' = current /\ mounted' = mounted
      /\ tokens' = (tokens \ {t}) \cup N
  BY <1>1 DEF FlowInv, TypeOK, Replaces, HookUnchanged
<1>3. ~old.disposed => t.run = current /\ current # 0 /\ old.done = "none"
  BY <1>1, CountFacts
<1>4. old.disposed /\ mounted => t.run # current
  BY <1>1 DEF ShownInv, PageLives
<1> PICK c : c = current /\ c = current'
  BY <1>2
<1>5. ASSUME NEW r, NEW m, Busy(r, m), r # t.run \/ m # n \/ ~BusyAt(t, n)
      PROVE  Busy(r, m)'
  BY <1>2, <1>5 DEF Busy, BusyAt, TokensOf, At
<1>6. (\E u \in N : BusyAt(u, n)) => Busy(t.run, n)'
  BY <1>2 DEF SaysOfNode, Busy, BusyAt, TokensOf, At
<1>7. ASSUME NEW r \in 1..started, NEW m \in Nodes, runs'[r].snaps[m] = "running"
      PROVE  ~runs'[r].disposed /\ Busy(r, m)'
  <2>1. CASE r # t.run
    BY <1>1, <1>2, <1>5, <1>7, <2>1 DEF ShownInv, RunningIsBusy
  <2>2. CASE r = t.run /\ m # n
    <3>1. old.snaps[m] = "running"
      BY <1>2, <1>7, <2>2 DEF SaysOfNode
    <3> QED BY <1>1, <1>2, <1>5, <2>2, <3>1 DEF ShownInv, RunningIsBusy
  <2>3. CASE r = t.run /\ m = n
    <3>1. R.snaps[n] = "running" /\ "running" \notin Outcomes
      BY <1>2, <1>7, <2>3 DEF Outcomes
    <3>2. ~old.disposed
      BY <1>1, <3>1 DEF ShownInv, RunningIsBusy, ShowsRun
    <3>3. CASE \E u \in N : BusyAt(u, n)
      BY <1>2, <1>6, <2>3, <3>2, <3>3
    <3>4. CASE ~BusyAt(t, n) /\ R.snaps[n] = old.snaps[n]
      BY <1>1, <1>2, <1>5, <2>3, <3>1, <3>2, <3>4 DEF ShownInv, RunningIsBusy
    <3> QED BY <3>1, <3>2, <3>3, <3>4 DEF SaysOfNode
  <2> QED BY <2>1, <2>2, <2>3
<1>8. ASSUME NEW m \in Nodes, shown'.states[m] = "running"
      PROVE  current # 0 /\ Busy(c, m)'
  <2>1. mounted
    <3>1. SUFFICES ASSUME ~mounted PROVE FALSE
      OBVIOUS
    <3>2. shown' = Blank
      BY <3>1 DEF ShownInv, PageLives, ShowsRun
    <3> QED BY <1>8, <3>2 DEF Blank
  <2>2. CASE shown.states[m] = "running"
    <3>1. current # 0 /\ Busy(c, m)
      BY <2>2 DEF ShownInv, RunningIsBusy
    <3>2. CASE m # n \/ old.disposed \/ ~BusyAt(t, n)
      BY <1>4, <1>5, <2>1, <3>1, <3>2
    <3>3. CASE m = n /\ ~old.disposed /\ BusyAt(t, n)
      <4>1. \E u \in N : BusyAt(u, n)
        BY <1>8, <2>1, <3>3 DEF SaysOfNode, Outcomes
      <4> QED BY <1>3, <1>6, <3>3, <4>1
    <3> QED BY <3>2, <3>3
  <2>3. CASE shown.states[m] # "running"
    <3>1. m = n /\ ~old.disposed /\ \E u \in N : BusyAt(u, n)
      BY <1>8, <2>1, <2>3 DEF SaysOfNode, Outcomes
    <3> QED BY <1>3, <1>6, <3>1
  <2> QED BY <2>2, <2>3
<1>9. RunningIsBusy'
  <2>1. ASSUME NEW r \in 1..started', NEW m \in Nodes
        PROVE  runs'[r].snaps[m] = "running" => ~runs'[r].disposed /\ Busy(r, m)'
    BY <1>2, <1>7
  <2>2. ASSUME NEW m \in Nodes
        PROVE  shown'.states[m] = "running" => current' # 0 /\ Busy(current, m)'
    <3>1. shown'.states[m] = "running" => current # 0 /\ Busy(c, m)'
      BY <1>8
    <3>2. Busy(c, m)' => Busy(current, m)'
      BY DEF Busy, TokensOf
    <3> QED BY <1>2, <3>1, <3>2
  <2> QED BY <2>1, <2>2 DEF RunningIsBusy
<1>10. PageShowsCurrentRun'
  <2> SUFFICES ASSUME mounted
               PROVE  shown'.snaps = IF current = 0 THEN Blank.snaps ELSE runs'[current].snaps
    BY <1>2 DEF PageShowsCurrentRun
  <2>1. shown.snaps = IF current = 0 THEN Blank.snaps ELSE runs[current].snaps
    BY DEF ShownInv, PageShowsCurrentRun
  <2>2. CASE old.disposed
    <3>1. shown'.snaps = shown.snaps /\ t.run # current
      BY <1>4, <2>2 DEF ShowsRun
    <3>2. current # 0 => runs'[current] = runs[current]
      BY <1>1, <1>2, <3>1 DEF FlowInv, TypeOK
    <3> QED BY <2>1, <3>1, <3>2
  <2>3. CASE ~old.disposed
    BY <1>2, <1>3, <2>1, <2>3 DEF ShowsRun
  <2> QED BY <2>2, <2>3
<1>11. ASSUME NEW r \in 1..started, ~runs'[r].disposed PROVE FlagsTold(runs'[r])
  <2>1. CASE r # t.run
    BY <1>1, <1>2, <1>11, <2>1 DEF ShownInv
  <2>2. CASE r = t.run
    <3>1. ~old.disposed /\ FlagsTold(old)
      BY <1>1, <1>2, <1>11, <2>2 DEF ShownInv
    <3>2. FlagsTold(R)
      BY <3>1 DEF FlagsTold, CountsFailures, SaysOfNode
    <3> QED BY <1>2, <2>2, <3>2
  <2> QED BY <2>1, <2>2
<1>12. SuccessIsClean'
  <2> SUFFICES ASSUME NEW r \in 1..started, runs'[r].done = "success", NEW m \in Nodes
               PROVE  runs'[r].snaps[m] \in {"idle", "success"}
    BY <1>2 DEF SuccessIsClean
  <2>1. CASE r # t.run
    BY <1>1, <1>2, <2>1 DEF ShownInv, SuccessIsClean
  <2>2. CASE r = t.run /\ old.disposed
    BY <1>1, <1>2, <2>2 DEF ShownInv, SuccessIsClean, CountsFailures, ShowsRun
  <2>3. CASE r = t.run /\ ~old.disposed
    <3>1. runs'[r].snaps[m] \in States
      BY <1>1 DEF FlowInv, TypeOK, Run, All
    <3>2. ~runs'[r].errors /\ ~runs'[r].aborts
      BY <1>2, <2>3 DEF CountsFailures
    <3>3. runs'[r].snaps[m] # "error" /\ runs'[r].snaps[m] # "aborted"
      BY <1>2, <1>11, <2>3, <3>2 DEF FlagsTold
    <3>4. runs'[r].pending = 0 /\ runs'[r].pending = Cardinality(TokensOf(r)')
      BY <1>2, <2>3 DEF FlowInv, Settlement
    <3>5. IsFiniteSet(TokensOf(r)')
      BY FS_Subset DEF FlowInv, TokensOf
    <3>6. TokensOf(r)' = {}
      BY <3>4, <3>5, FS_EmptySet
    <3>7. ~Busy(r, m)'
      BY <3>6 DEF Busy
    <3>8. runs'[r].snaps[m] # "running"
      BY <1>7, <3>7
    <3> QED BY <3>1, <3>3, <3>8 DEF States, Outcomes
  <2> QED BY <2>1, <2>2, <2>3
<1>13. PageLives'
  <2>1. ~mounted => shown' = Blank
    BY DEF ShownInv, PageLives, ShowsRun
  <2>2. mounted /\ current # 0 => ~runs'[current].disposed
    <3> SUFFICES ASSUME mounted, current # 0 PROVE ~runs'[current].disposed
      OBVIOUS
    <3>1. ~runs[current].disposed /\ current \in 1..MaxRuns
      BY <1>1 DEF ShownInv, PageLives, FlowInv, TypeOK
    <3> QED BY <1>2, <3>1
  <2> QED BY <1>2, <2>1, <2>2 DEF PageLives, Blank
<1> QED BY <1>2, <1>9, <1>10, <1>11, <1>12, <1>13 DEF ShownInv

-----------------------------------------------------------------------------
(* publishSnapshot, in the record of the run and on the page.              *)
LEMMA PublishedSnaps ==
    ASSUME NEW R \in Run, NEW n \in All, NEW s \in States
    PROVE  LET P == Published(R, n, s)
           IN  /\ P.snaps = IF R.disposed THEN R.snaps ELSE [R.snaps EXCEPT ![n] = s]
               /\ P.errors = R.errors /\ P.aborts = R.aborts
BY DEF Published, Run

LEMMA SnapShownSnaps ==
    ASSUME NEW R \in Run, NEW p \in All, NEW s \in States, shown \in Showing
    PROVE  /\ SnapShown(R, p, s) \in Showing /\ SnapShown(R, p, s).states = shown.states
           /\ SnapShown(R, p, s).snaps = IF R.disposed \/ ~mounted THEN shown.snaps
                                         ELSE [shown.snaps EXCEPT ![p] = s]
           /\ ~mounted \/ R.disposed => SnapShown(R, p, s) = shown
BY DEF SnapShown, Showing

(* onNodeStateChange tells the page of a node whatever became of its run.   *)
LEMMA NodeShownSnaps ==
    ASSUME NEW R \in Run, NEW n \in Nodes, NEW s \in States, shown \in Showing
    PROVE  /\ ~mounted => NodeShown(R, n, s) = shown
           /\ mounted => NodeShown(R, n, s).states = [shown.states EXCEPT ![n] = s]
           /\ NodeShown(R, n, s).snaps = IF R.disposed \/ ~mounted THEN shown.snaps
                                         ELSE [shown.snaps EXCEPT ![n] = s]
<1>1. n \in All
  BY DEF All
<1>2. /\ ~mounted => NodeShown(R, n, s) = shown
      /\ mounted => /\ NodeShown(R, n, s).states = [SnapShown(R, n, s).states EXCEPT ![n] = s]
                    /\ NodeShown(R, n, s).snaps = SnapShown(R, n, s).snaps
  BY <1>1, SnapShownSnaps DEF NodeShown, Showing
<1> QED BY <1>1, <1>2, SnapShownSnaps

(* settleNode remembers what failed, and only a run without is a success.   *)
LEMMA SettledFlags ==
    ASSUME NEW R \in Run, NEW status \in Outcomes
    PROVE  LET S == Settled(R, status)
           IN  /\ S.errors = (R.errors \/ status = "error")
               /\ S.aborts = (R.aborts \/ status = "aborted")
               /\ R.done = "none" /\ S.done = "success" => ~S.errors /\ ~S.aborts
<1> DEFINE er == R.errors \/ status = "error"
           ab == R.aborts \/ status = "aborted"
           pe == IF R.pending > 0 THEN R.pending - 1 ELSE 0
           E  == [R EXCEPT !.errors = er, !.aborts = ab, !.pending = pe]
<1>1. er \in BOOLEAN /\ ab \in BOOLEAN
  BY DEF Run
<1>2. Settled(R, status) = IF E.done = "none" /\ ~E.disposed /\ E.pending = 0
                           THEN [E EXCEPT !.done = RunStatus(E)] ELSE E
  BY DEF Settled
<1>3. er = (R.errors \/ status = "error") /\ ab = (R.aborts \/ status = "aborted")
  OBVIOUS
<1> HIDE DEF er, ab, pe
<1>4. E.errors = er /\ E.aborts = ab /\ E.done = R.done
  BY DEF Run
<1>5. RunStatus(E) = "success" => ~E.errors /\ ~E.aborts
  BY DEF RunStatus
<1>6. DOMAIN E = DOMAIN R /\ DOMAIN R = {"disposed", "pending", "errors", "aborts", "done",
                                        "snaps", "loopAt", "fired"}
  BY DEF Run
<1> HIDE DEF E
<1>7. CASE E.done = "none" /\ ~E.disposed /\ E.pending = 0
  <2>1. Settled(R, status) = [E EXCEPT !.done = RunStatus(E)]
    BY <1>2, <1>7
  <2>2. /\ Settled(R, status).errors = E.errors /\ Settled(R, status).aborts = E.aborts
        /\ Settled(R, status).done = RunStatus(E)
    BY <1>6, <2>1
  <2> QED BY <1>3, <1>4, <1>5, <2>2
<1>8. CASE ~(E.done = "none" /\ ~E.disposed /\ E.pending = 0)
  <2>1. Settled(R, status) = E
    BY <1>2, <1>8
  <2> QED BY <1>3, <1>4, <2>1
<1> QED BY <1>7, <1>8

-----------------------------------------------------------------------------
(* A call reports and settles.                                             *)
LEMMA ReportsShows ==
    ASSUME FlowInv, FlowInv', ShownInv, NEW t \in tokens, NEW status \in Outcomes,
           Reports(t, status), HookUnchanged
    PROVE  ShownInv'
<1> DEFINE old == runs[t.run]
           P == Published(old, At(t), status)
           R == Settled(P, status)
<1>0. status \in States
  BY DEF States
<1>1. /\ old \in Run /\ At(t) \in All /\ At(t) \in Nodes /\ shown \in Showing
      /\ ~old.disposed => old.done = "none"
  BY CallFacts, CountFacts
<1>2. /\ P \in Run /\ P.disposed = old.disposed /\ P.done = old.done
      /\ P.errors = old.errors /\ P.aborts = old.aborts
      /\ P.snaps = IF old.disposed THEN old.snaps ELSE [old.snaps EXCEPT ![At(t)] = status]
  BY <1>0, <1>1, PublishedFacts, PublishedSnaps
<1>3. runs' = [runs EXCEPT ![t.run] = R] /\ tokens' = tokens \ {t}
      /\ shown' = NodeShown(old, At(t), status)
  BY DEF Reports, Becomes, Leaves
<1> HIDE DEF P
<1>4. /\ R \in Run /\ R.disposed = old.disposed /\ R.snaps = P.snaps
      /\ old.disposed => R.done = old.done
      /\ R.errors = (old.errors \/ status = "error")
      /\ R.aborts = (old.aborts \/ status = "aborted")
      /\ old.done = "none" /\ R.done = "success" => ~R.errors /\ ~R.aborts
  BY <1>2, SettledFacts, SettledFlags
<1> HIDE DEF R
<1>5. shown' \in Showing
  BY <1>0, <1>1, <1>3, ShownFacts
<1>6. Replaces(t, R, {})
  BY <1>3, <1>5 DEF Replaces
<1>7. /\ ~mounted => shown' = shown
      /\ mounted => shown'.states = [shown.states EXCEPT ![At(t)] = status]
      /\ shown'.snaps = IF old.disposed \/ ~mounted THEN shown.snaps
                        ELSE [shown.snaps EXCEPT ![At(t)] = status]
  BY <1>0, <1>1, <1>3, NodeShownSnaps
<1>8. old.snaps \in [All -> States] /\ shown.states \in [Nodes -> States]
      /\ Nodes \subseteq All
  BY <1>1 DEF Run, Showing, All
<1>9. SaysOfNode(t, R, {})
  BY <1>1, <1>2, <1>4, <1>7, <1>8 DEF SaysOfNode
<1>10. ShowsRun(t, R)
  BY <1>2, <1>4, <1>7 DEF ShowsRun
<1>11. CountsFailures(t, R)
  BY <1>1, <1>2, <1>4, <1>8 DEF CountsFailures
<1> QED BY <1>4, <1>6, <1>9, <1>10, <1>11, StepShows

(* A call of a cancelled run leaves without a word.                        *)
LEMMA LeavesShows ==
    ASSUME FlowInv, FlowInv', ShownInv, NEW t \in tokens, runs[t.run].disposed,
           Leaves(t), HookUnchanged, UNCHANGED <<runs, shown>>
    PROVE  ShownInv'
<1>1. runs[t.run] \in Run /\ runs = [runs EXCEPT ![t.run] = runs[t.run]] /\ shown \in Showing
  BY CallFacts
<1>2. Replaces(t, runs[t.run], {})
  BY <1>1 DEF Replaces, Leaves
<1>3. /\ SaysOfNode(t, runs[t.run], {}) /\ ShowsRun(t, runs[t.run])
      /\ CountsFailures(t, runs[t.run])
  BY DEF SaysOfNode, ShowsRun, CountsFailures
<1> QED BY <1>1, <1>2, <1>3, StepShows

(* A call goes on without a word of its node.                              *)
LEMMA MovesShows ==
    ASSUME FlowInv, FlowInv', ShownInv, NEW t \in tokens, NEW u, u.run = t.run, At(u) = At(t),
           Replaces(t, runs[t.run], {u}), shown' = shown, BusyAt(t, At(t)) => BusyAt(u, At(t))
    PROVE  ShownInv'
<1>1. runs[t.run] \in Run
  BY CallFacts
<1>2. SaysOfNode(t, runs[t.run], {u}) /\ ShowsRun(t, runs[t.run])
  BY DEF SaysOfNode, ShowsRun
<1>3. CountsFailures(t, runs[t.run])
  BY CountFacts DEF CountsFailures
<1> QED BY <1>1, <1>2, <1>3, StepShows

(* A timer fires: nothing is said.                                        *)
LEMMA OnlyMovesShows ==
    ASSUME FlowInv, FlowInv', ShownInv, NEW t \in tokens, TimerFires(t) \/ Executes(t)
    PROVE  ShownInv'
<1>1. t \in Token /\ runs = [runs EXCEPT ![t.run] = runs[t.run]] /\ shown \in Showing
  BY CallFacts
<1>2. runs' = runs /\ shown' = shown /\ HookUnchanged
  BY DEF TimerFires, Executes
<1>3. \E u : /\ u.run = t.run /\ At(u) = At(t) /\ tokens' = (tokens \ {t}) \cup {u}
             /\ BusyAt(t, At(t)) => BusyAt(u, At(t))
  <2>1. CASE TimerFires(t)
    <3> DEFINE todo == {p \in Needs[At(t)] : runs[t.run].snaps[p] = "idle"}
               u == [t EXCEPT !.pc = "prepare", !.todo = todo]
    <3>1. tokens' = (tokens \ {t}) \cup {u} /\ t.pc = "queued"
      BY <2>1 DEF TimerFires, Moves
    <3> HIDE DEF todo
    <3>2. u.run = t.run /\ At(u) = At(t) /\ ~BusyAt(t, At(t))
      BY <1>1, <3>1 DEF Token, At, BusyAt
    <3> QED BY <3>1, <3>2
  <2>2. CASE Executes(t)
    <3> DEFINE u == [t EXCEPT !.pc = "exec"]
    <3>1. tokens' = (tokens \ {t}) \cup {u}
      BY <2>2 DEF Executes, Moves
    <3>2. u.run = t.run /\ At(u) = At(t) /\ BusyAt(u, At(t))
      BY <1>1 DEF Token, At, BusyAt
    <3> QED BY <3>1, <3>2
  <2> QED BY <2>1, <2>2
<1> QED BY <1>1, <1>2, <1>3, MovesShows DEF Replaces

(* A provider answers: the snapshot is not one of a node.                  *)
LEMMA MaterializesShows ==
    ASSUME FlowInv, FlowInv', ShownInv, NEW t \in tokens, NEW p \in Passive,
           NEW status \in Outcomes, Materializes(t, p, status)
    PROVE  ShownInv'
<1> DEFINE old == runs[t.run]
           R == Published(old, p, status)
           u == [t EXCEPT !.todo = {q \in t.todo \ {p} : R.snaps[q] = "idle"}]
<1>1. p \in All /\ status \in States /\ p \notin Nodes
  BY GraphAssumption DEF All, States
<1>2. /\ R \in Run /\ R.disposed = old.disposed /\ R.done = old.done
      /\ R.errors = old.errors /\ R.aborts = old.aborts
      /\ R.snaps = IF old.disposed THEN old.snaps ELSE [old.snaps EXCEPT ![p] = status]
  BY <1>1, CallFacts, PublishedFacts, PublishedSnaps
<1>3. runs' = [runs EXCEPT ![t.run] = R] /\ tokens' = (tokens \ {t}) \cup {u} /\ HookUnchanged
      /\ t.pc = "prepare" /\ shown' = SnapShown(old, p, status)
  BY DEF Materializes, Becomes, Moves
<1>4. shown' \in Showing
  BY <1>1, <1>3, CallFacts, ShownFacts
<1>5. u.run = t.run
  BY CallFacts DEF Token
<1> HIDE DEF R, u
<1>6. Replaces(t, R, {u})
  BY <1>3, <1>4 DEF Replaces
<1>7. /\ shown'.states = shown.states
      /\ shown'.snaps = IF old.disposed \/ ~mounted THEN shown.snaps
                        ELSE [shown.snaps EXCEPT ![p] = status]
      /\ ~mounted \/ old.disposed => shown' = shown
  BY <1>1, <1>3, CallFacts, SnapShownSnaps
<1>8. \A m \in Nodes : R.snaps[m] = old.snaps[m]
  BY <1>1, <1>2, CallFacts DEF Run, All
<1>9. At(t) \in Nodes /\ (~old.disposed => old.done = "none")
  BY CallFacts, CountFacts
<1>10. ~BusyAt(t, At(t))
  BY <1>3 DEF BusyAt
<1>11. SaysOfNode(t, R, {u})
  BY <1>5, <1>7, <1>8, <1>9, <1>10 DEF SaysOfNode
<1>12. ShowsRun(t, R)
  BY <1>2, <1>7 DEF ShowsRun
<1>13. CountsFailures(t, R)
  BY <1>2, <1>8, <1>9 DEF CountsFailures
<1> QED BY <1>2, <1>6, <1>11, <1>12, <1>13, StepShows

(* A node that is prepared, or reports progress, is shown as running while  *)
(* a call of its run is at it.                                             *)
LEMMA RunsShows ==
    ASSUME FlowInv, FlowInv', ShownInv, NEW t \in tokens, NEW u, u.run = t.run,
           BusyAt(u, At(t)), HookUnchanged, tokens' = (tokens \ {t}) \cup {u},
           Becomes(t.run, Published(runs[t.run], At(t), "running")),
           \/ shown' = SnapShown(runs[t.run], At(t), "running")
           \/ ~runs[t.run].disposed /\ shown' = NodeShown(runs[t.run], At(t), "running")
    PROVE  ShownInv'
<1> DEFINE old == runs[t.run]
           R == Published(old, At(t), "running")
<1>0. "running" \in States
  BY DEF States
<1>1. /\ old \in Run /\ At(t) \in All /\ At(t) \in Nodes /\ shown \in Showing
      /\ ~old.disposed => old.done = "none"
  BY CallFacts, CountFacts
<1>2. /\ R \in Run /\ R.disposed = old.disposed /\ R.done = old.done
      /\ R.errors = old.errors /\ R.aborts = old.aborts
      /\ R.snaps = IF old.disposed THEN old.snaps ELSE [old.snaps EXCEPT ![At(t)] = "running"]
  BY <1>0, <1>1, PublishedFacts, PublishedSnaps
<1>3. runs' = [runs EXCEPT ![t.run] = R]
  BY DEF Becomes
<1> HIDE DEF R
<1>4. /\ shown' \in Showing
      /\ \A m \in Nodes \ {At(t)} : shown'.states[m] = shown.states[m]
      /\ shown'.snaps = IF old.disposed \/ ~mounted THEN shown.snaps
                        ELSE [shown.snaps EXCEPT ![At(t)] = "running"]
      /\ ~mounted \/ old.disposed => shown' = shown
  <2>1. CASE shown' = SnapShown(old, At(t), "running")
    BY <1>0, <1>1, <2>1, SnapShownSnaps
  <2>2. CASE ~old.disposed /\ shown' = NodeShown(old, At(t), "running")
    <3>1. /\ shown' \in Showing
          /\ ~mounted => shown' = shown
          /\ mounted => shown'.states = [shown.states EXCEPT ![At(t)] = "running"]
          /\ shown'.snaps = IF old.disposed \/ ~mounted THEN shown.snaps
                            ELSE [shown.snaps EXCEPT ![At(t)] = "running"]
      <4>1. shown' = NodeShown(old, At(t), "running")
        BY <2>2
      <4>2. NodeShown(old, At(t), "running") \in Showing
        BY <1>0, <1>1, ShownFacts
      <4> QED BY <1>0, <1>1, <4>1, <4>2, NodeShownSnaps
    <3> QED BY <1>1, <2>2, <3>1 DEF Showing
  <2> QED BY <2>1, <2>2
<1>5. Replaces(t, R, {u})
  BY <1>3, <1>4 DEF Replaces
<1>6. old.snaps \in [All -> States] /\ Nodes \subseteq All
  BY <1>1 DEF Run, All
<1>7. SaysOfNode(t, R, {u})
  BY <1>1, <1>2, <1>4, <1>6 DEF SaysOfNode
<1>8. ShowsRun(t, R)
  BY <1>2, <1>4 DEF ShowsRun
<1>9. CountsFailures(t, R)
  BY <1>1, <1>2, <1>6 DEF CountsFailures
<1> QED BY <1>2, <1>5, <1>7, <1>8, <1>9, StepShows

(* A node is prepared, or its run was cancelled meanwhile.                *)
LEMMA PreparedShows ==
    ASSUME FlowInv, FlowInv', ShownInv, NEW t \in tokens, Prepared(t)
    PROVE  ShownInv'
<1>1. CASE runs[t.run].disposed
  BY <1>1, LeavesShows DEF Prepared
<1>2. CASE ~runs[t.run].disposed
  <2> DEFINE u == [t EXCEPT !.pc = "delay", !.index = runs[t.run].loopAt[At(t)]]
  <2>1. u.run = t.run /\ BusyAt(u, At(t))
    BY CallFacts DEF Token, BusyAt, At
  <2>2. /\ HookUnchanged /\ tokens' = (tokens \ {t}) \cup {u}
        /\ Becomes(t.run, Published(runs[t.run], At(t), "running"))
        /\ shown' = NodeShown(runs[t.run], At(t), "running")
    BY <1>2 DEF Prepared, Moves
  <2> HIDE DEF u
  <2> QED BY <1>2, <2>1, <2>2, RunsShows
<1> QED BY <1>1, <1>2

(* A node that executes reports progress.                                *)
LEMMA ProgressesShows ==
    ASSUME FlowInv, FlowInv', ShownInv, NEW t \in tokens, Progresses(t)
    PROVE  ShownInv'
<1>1. BusyAt(t, At(t)) /\ tokens' = (tokens \ {t}) \cup {t}
  BY DEF Progresses, BusyAt
<1> QED BY <1>1, RunsShows DEF Progresses

(* A node succeeds.                                                        *)
LEMMA SucceedsShows ==
    ASSUME FlowInv, FlowInv', ShownInv, NEW t \in tokens, NEW ports, Succeeds(t, ports)
    PROVE  ShownInv'
<1> DEFINE old == runs[t.run]
           out == Outgoing(At(t), ports)
           M == Remembered(old, t)
           P == Published(M, At(t), "success")
           W == Spawned(P, out)
           R == Settled(W, "success")
           N == SpawnedTokens(t.run, out)
<1>0. "success" \in States /\ "success" \in Outcomes /\ out \in SUBSET Edges
  BY DEF States, Outcomes, Outgoing
<1>1. /\ old \in Run /\ At(t) \in All /\ At(t) \in Nodes /\ shown \in Showing /\ t \in Token
      /\ ~old.disposed => old.done = "none"
  BY CallFacts, CountFacts
<1>2. /\ runs' = [runs EXCEPT ![t.run] = R] /\ tokens' = (tokens \ {t}) \cup N
      /\ HookUnchanged /\ shown' = NodeShown(old, At(t), "success")
  BY DEF Succeeds, Becomes
<1>3. /\ M \in Run /\ M.disposed = old.disposed /\ M.done = old.done /\ M.snaps = old.snaps
      /\ M.errors = old.errors /\ M.aborts = old.aborts
  BY <1>1, RememberedFacts DEF Remembered, Run
<1> HIDE DEF M
<1>4. /\ P \in Run /\ P.disposed = old.disposed /\ P.done = old.done
      /\ P.errors = old.errors /\ P.aborts = old.aborts
      /\ P.snaps = IF old.disposed THEN old.snaps ELSE [old.snaps EXCEPT ![At(t)] = "success"]
  BY <1>0, <1>1, <1>3, PublishedFacts, PublishedSnaps
<1> HIDE DEF P
<1>5. /\ W \in Run /\ W.disposed = old.disposed /\ W.done = old.done /\ W.snaps = P.snaps
      /\ W.errors = old.errors /\ W.aborts = old.aborts
  <2>1. /\ W \in Run /\ W.disposed = P.disposed /\ W.done = P.done /\ W.snaps = P.snaps
    BY <1>0, <1>4, SpawnedFacts
  <2>2. W.errors = P.errors /\ W.aborts = P.aborts
    BY <1>4 DEF Spawned, Run
  <2> QED BY <1>4, <2>1, <2>2
<1> HIDE DEF W
<1>6. /\ R \in Run /\ R.disposed = old.disposed /\ R.snaps = P.snaps
      /\ old.disposed => R.done = old.done
      /\ R.errors = old.errors /\ R.aborts = old.aborts
      /\ old.done = "none" /\ R.done = "success" => ~R.errors /\ ~R.aborts
  <2>1. /\ R \in Run /\ R.disposed = W.disposed /\ R.snaps = W.snaps
        /\ W.done # "none" \/ W.disposed => R.done = W.done
        /\ W.done = "none" /\ ~W.disposed => (R.done # "none" <=> R.pending = 0)
    BY <1>0, <1>5, SettledFacts
  <2>2. /\ R.errors = (W.errors \/ "success" = "error")
        /\ R.aborts = (W.aborts \/ "success" = "aborted")
        /\ W.done = "none" /\ R.done = "success" => ~R.errors /\ ~R.aborts
    BY <1>0, <1>5, SettledFlags
  <2>3. W.errors \in BOOLEAN /\ W.aborts \in BOOLEAN
    BY <1>5 DEF Run
  <2> QED BY <1>5, <2>1, <2>2, <2>3
<1> HIDE DEF R
<1>7. \A u \in N : u.run = t.run
  BY DEF SpawnedTokens, NewToken
<1> HIDE DEF N
<1>8. shown' \in Showing
  BY <1>0, <1>1, <1>2, ShownFacts
<1>9. Replaces(t, R, N)
  BY <1>2, <1>8 DEF Replaces
<1>10. /\ ~mounted => shown' = shown
       /\ mounted => shown'.states = [shown.states EXCEPT ![At(t)] = "success"]
       /\ shown'.snaps = IF old.disposed \/ ~mounted THEN shown.snaps
                         ELSE [shown.snaps EXCEPT ![At(t)] = "success"]
  BY <1>0, <1>1, <1>2, NodeShownSnaps
<1>11. old.snaps \in [All -> States] /\ shown.states \in [Nodes -> States]
      /\ Nodes \subseteq All
  BY <1>1 DEF Run, Showing, All
<1>12. SaysOfNode(t, R, N)
  BY <1>0, <1>1, <1>4, <1>6, <1>7, <1>10, <1>11 DEF SaysOfNode
<1>13. ShowsRun(t, R)
  BY <1>4, <1>6, <1>10 DEF ShowsRun
<1>14. CountsFailures(t, R)
  BY <1>1, <1>4, <1>6, <1>11 DEF CountsFailures
<1> QED BY <1>6, <1>9, <1>12, <1>13, <1>14, StepShows

(* Any step of a call.                                                     *)
LEMMA StepsShow ==
    ASSUME FlowInv, FlowInv', ShownInv, NEW t \in tokens, Steps(t) \/ Progresses(t)
    PROVE  ShownInv'
<1>1. {"success", "error", "aborted"} \subseteq Outcomes
  BY DEF Outcomes
<1>2. CASE PrepareFails(t)
  BY <1>1, <1>2, LeavesShows, ReportsShows DEF PrepareFails
<1>3. CASE NotFound(t)
  BY <1>1, <1>3, ReportsShows DEF NotFound
<1>4. CASE Fails(t)
  BY <1>1, <1>4, ReportsShows DEF Fails
<1>5. CASE Aborts(t)
  BY <1>1, <1>5, LeavesShows, ReportsShows DEF Aborts
<1> QED
  BY <1>2, <1>3, <1>4, <1>5, MaterializesShows, PreparedShows, OnlyMovesShows,
     ProgressesShows, SucceedsShows DEF Steps

-----------------------------------------------------------------------------
(* The cleanup of a run that ended leaves its snapshots: none is running.   *)
LEMMA CleanedShows ==
    ASSUME FlowInv, ShownInv
    PROVE  \A r \in 1..started :
             /\ \A n \in Nodes : RunsCleaned[r].snaps[n] # "running"
             /\ RunsCleaned[r].done = "success" =>
                  \A n \in Nodes : RunsCleaned[r].snaps[n] \in {"idle", "success"}
<1> SUFFICES ASSUME NEW r \in 1..started
             PROVE  /\ \A n \in Nodes : RunsCleaned[r].snaps[n] # "running"
                    /\ RunsCleaned[r].done = "success" =>
                         \A n \in Nodes : RunsCleaned[r].snaps[n] \in {"idle", "success"}
  OBVIOUS
<1>1. /\ started \in 0..MaxRuns /\ current \in 0..started /\ MaxRuns \in Nat
      /\ runs \in [1..MaxRuns -> Run] /\ 1..started \subseteq 1..MaxRuns /\ r \in 1..MaxRuns
  BY CleanupFacts, GraphAssumption DEF FlowInv, TypeOK
<1>2. CASE r # current \/ current = 0
  <2>1. RunsCleaned[r] = runs[r]
    BY <1>1, <1>2 DEF RunsCleaned
  <2>2. runs[r].disposed
    BY <1>1, <1>2 DEF FlowInv, Settlement
  <2> QED BY <2>1, <2>2 DEF ShownInv, RunningIsBusy, SuccessIsClean
<1>3. CASE r = current /\ current # 0
  <2> DEFINE R == runs[r]
             C == Cleaned(R)
  <2>1. RunsCleaned[r] = C /\ R \in Run
    BY <1>1, <1>3 DEF RunsCleaned
  <2>2. CASE R.disposed
    BY <2>1, <2>2 DEF Cleaned, ShownInv, RunningIsBusy, SuccessIsClean
  <2>3. CASE ~R.disposed
    <3>1. \A n \in Nodes : C.snaps[n] = IF R.snaps[n] = "running" THEN "aborted" ELSE R.snaps[n]
      BY <2>1, <2>3 DEF Cleaned, Run, Executing, All
    <3>2. C.done = "success" => R.done = "success"
      BY <2>1, <2>3, CleanedFacts
    <3>3. R.done = "success" => \A n \in Nodes : R.snaps[n] \in {"idle", "success"}
      BY DEF ShownInv, SuccessIsClean
    <3> HIDE DEF C
    <3> QED BY <2>1, <3>1, <3>2, <3>3
  <2> QED BY <2>2, <2>3
<1> QED BY <1>2, <1>3

(* The effects that let go of the current run, and a new run.              *)
LEMMA CleanupShows ==
    ASSUME FlowInv, FlowInv', ShownInv, NEW R, shown' = Blank,
           \/ runs' = RunsCleaned /\ started' = started
              /\ (current' = 0 \/ (current' = current /\ ~mounted'))
           \/ /\ started' = started + 1 /\ current' = started + 1 /\ R = [NewRun EXCEPT !.pending = 1]
              /\ runs' = [RunsCleaned EXCEPT ![started + 1] = R] /\ started + 1 \in 1..MaxRuns
    PROVE  ShownInv'
<1>1. /\ RunsCleaned \in [1..MaxRuns -> Run] /\ started \in Nat /\ MaxRuns \in Nat
      /\ 1..started \subseteq 1..MaxRuns
      /\ \A r \in 1..started : RunsCleaned[r].disposed
  BY CleanupFacts, GraphAssumption
<1>2. R = [NewRun EXCEPT !.pending = 1] =>
        /\ ~R.disposed /\ R.done = "none" /\ R.snaps = Blank.snaps
        /\ \A n \in Nodes : R.snaps[n] = "idle"
  BY DEF NewRun, Blank, All
<1>3. ASSUME NEW r \in 1..started'
      PROVE  \/ r \in 1..started /\ runs'[r] = RunsCleaned[r]
             \/ r = current' /\ runs'[r] = R /\ R = [NewRun EXCEPT !.pending = 1]
  BY <1>1
<1>4. RunningIsBusy'
  <2>1. \A r \in 1..started', n \in Nodes : runs'[r].snaps[n] # "running"
    BY <1>2, <1>3, CleanedShows
  <2>2. \A n \in Nodes : shown'.states[n] # "running"
    BY DEF Blank
  <2> QED BY <2>1, <2>2 DEF RunningIsBusy
<1>5. SuccessIsClean'
  BY <1>2, <1>3, CleanedShows DEF SuccessIsClean
<1>6. PageShowsCurrentRun' /\ PageLives'
  BY <1>1, <1>2 DEF PageShowsCurrentRun, PageLives, Blank
<1>7. \A r \in 1..started' : ~runs'[r].disposed => FlagsTold(runs'[r])
  BY <1>1, <1>2, <1>3 DEF FlagsTold
<1> QED BY <1>4, <1>5, <1>6, <1>7 DEF ShownInv

(* A page that has not run anything is blank.                             *)
LEMMA InitShows == Init => ShownInv
<1> SUFFICES ASSUME Init PROVE ShownInv
  OBVIOUS
<1>1. started = 0 /\ current = 0 /\ mounted = TRUE /\ shown = Blank
  BY DEF Init
<1> QED BY <1>1 DEF ShownInv, RunningIsBusy, PageShowsCurrentRun, SuccessIsClean, PageLives, Blank

(* Every step keeps what the page says true.                               *)
LEMMA NextShows == FlowInv /\ FlowInv' /\ ShownInv /\ [Next]_vars => ShownInv'
<1> SUFFICES ASSUME FlowInv, FlowInv', ShownInv, [Next]_vars PROVE ShownInv'
  OBVIOUS
<1>1. ASSUME NEW n \in Starts, ExecuteFlow(n) PROVE ShownInv'
  <2> DEFINE R == [NewRun EXCEPT !.pending = 1]
  <2>1. /\ started + 1 \in 1..MaxRuns /\ started' = started + 1 /\ current' = started + 1
        /\ shown' = Blank
    BY <1>1, CleanupFacts, GraphAssumption DEF ExecuteFlow
  <2>2. RunsCleaned[started + 1] = NewRun
    BY <2>1, CleanupFacts
  <2>3. runs' = [RunsCleaned EXCEPT ![started + 1] = R]
    BY <1>1, <2>1, <2>2, CleanupFacts DEF ExecuteFlow
  <2> HIDE DEF R
  <2>4. R = [NewRun EXCEPT !.pending = 1]
    BY DEF R
  <2> QED BY <2>1, <2>3, <2>4, CleanupShows
<1>2. CASE DocumentChanges \/ WorkspaceUnready
  <2>1. runs' = RunsCleaned /\ started' = started /\ current' = 0 /\ shown' = Blank
    BY <1>2 DEF DocumentChanges, WorkspaceUnready, ResetRuntime
  <2> QED BY <2>1, CleanupShows
<1>3. CASE Unmounts
  <2>1. runs' = RunsCleaned /\ started' = started /\ current' = current /\ shown' = Blank /\ ~mounted'
    BY <1>3 DEF Unmounts
  <2> QED BY <2>1, CleanupShows
<1>4. CASE WorkspaceReady \/ UNCHANGED vars
  BY <1>4 DEF WorkspaceReady, vars, ShownInv, RunningIsBusy, PageShowsCurrentRun, SuccessIsClean,
              PageLives, Busy, TokensOf
<1>5. ASSUME NEW t \in tokens, Steps(t) \/ Progresses(t) PROVE ShownInv'
  BY <1>5, StepsShow
<1> QED BY <1>1, <1>2, <1>3, <1>4, <1>5 DEF Next

(* Every reachable state satisfies it.                                     *)
THEOREM PageCorrect == Spec => []ShownInv
  BY FlowCorrect, InitShows, NextShows, PTL DEF Spec

(* Neither a snapshot nor the page says that a node is running unless a    *)
(* call of that run is at it.                                              *)
THEOREM RunningAlwaysBusy == Spec => []RunningIsBusy
<1>1. ShownInv => RunningIsBusy
  BY DEF ShownInv
<1> QED BY PageCorrect, <1>1, PTL

(* The snapshots on the page are those of the current run.                 *)
THEOREM PageAlwaysShowsCurrentRun == Spec => []PageShowsCurrentRun
<1>1. ShownInv => PageShowsCurrentRun
  BY DEF ShownInv
<1> QED BY PageCorrect, <1>1, PTL

(* A run that says success has no node that failed or was aborted.         *)
THEOREM SuccessAlwaysClean == Spec => []SuccessIsClean
<1>1. ShownInv => SuccessIsClean
  BY DEF ShownInv
<1> QED BY PageCorrect, <1>1, PTL

-----------------------------------------------------------------------------
(* The rounds of loops.  A call that goes on stays where it is, and takes  *)
(* up the index of its loop when it is prepared.                           *)
Counted(t) == t.pc \in {"delay", "exec"}

LEMMA MovesRounds ==
    ASSUME NEW l, NEW K, NEW R, NEW S, NEW T, NEW t \in T, NEW u, At(u) = At(t),
           S.fired = R.fired, S.loopAt = R.loopAt, R.errors => S.errors, R.aborts => S.aborts,
           At(t) = l /\ Counted(u) => u.index = R.loopAt[l] \/ (Counted(t) /\ u.index = t.index),
           Rounds(R, T, l, K)
    PROVE  Rounds(S, (T \ {t}) \cup {u}, l, K)
<1> DEFINE N == (T \ {t}) \cup {u}
<1>1. Entered(S, K) <=> Entered(R, K)
  BY DEF Entered
<1>2. IsOver(S, l) <=> IsOver(R, l)
  BY DEF IsOver, Taken
<1>3. Emptied(N, K) <=> Emptied(T, K)
  BY DEF Emptied
<1>4. GoesRound(R, T, l) => GoesRound(S, N, l)
  BY DEF GoesRound, Taken, Counted
<1>5. \A v, w \in N : At(v) \in K /\ At(w) \in K => v = w
  BY DEF Rounds
<1> HIDE DEF N
<1>6. Rounds(S, N, l, K)
  BY <1>1, <1>2, <1>3, <1>4, <1>5 DEF Rounds
<1> QED BY <1>6 DEF N

(* A call that does not succeed counts against the run.                    *)
LEMMA LeavesRounds ==
    ASSUME NEW l, NEW K, NEW R, NEW S, NEW T, NEW U \in SUBSET T,
           S.fired = R.fired, S.loopAt = R.loopAt, S.errors \/ S.aborts, Rounds(R, T, l, K)
    PROVE  Rounds(S, U, l, K)
<1>1. Entered(S, K) <=> Entered(R, K)
  BY DEF Entered
<1>2. IsOver(S, l) <=> IsOver(R, l)
  BY DEF IsOver, Taken
<1>3. Emptied(T, K) => Emptied(U, K)
  BY DEF Emptied
<1>4. GoesRound(R, T, l) => GoesRound(S, U, l)
  BY DEF GoesRound, Taken
<1>5. \A v, w \in U : At(v) \in K /\ At(w) \in K => v = w
  BY DEF Rounds
<1> QED BY <1>1, <1>2, <1>3, <1>4, <1>5 DEF Rounds

(* What a call at node n takes when it succeeds: the edges of out.         *)
TakesOut(R, S, out) == \A e \in Edges : S.fired[e] = IF e \in out THEN R.fired[e] + 1 ELSE R.fired[e]

(* Entered once after a step, entered once before; and what enters it is   *)
(* the first to do so.                                                     *)
LEMMA EntersOnce ==
    ASSUME NEW K, NEW R \in Run, NEW S \in Run, NEW out \in SUBSET Edges, TakesOut(R, S, out),
           EnteredOnce(S, K)
    PROVE  /\ EnteredOnce(R, K)
           /\ \A e \in out \cap Entering(K) : /\ ~Entered(R, K)
                                             /\ \A f \in out \cap Entering(K) : f = e
<1>1. \A e \in Edges : R.fired[e] \in Nat /\ S.fired[e] \in Nat
  BY DEF Run
<1>2. Entering(K) \subseteq Edges
  BY DEF Entering
<1>3. EnteredOnce(R, K)
  BY <1>1, <1>2 DEF EnteredOnce, TakesOut
<1>4. ASSUME NEW e \in out \cap Entering(K)
      PROVE  ~Entered(R, K) /\ \A f \in out \cap Entering(K) : f = e
  <2>1. S.fired[e] = R.fired[e] + 1 /\ S.fired[e] > 0 /\ R.fired[e] = 0
    BY <1>1, <1>2 DEF EnteredOnce, TakesOut
  <2>2. \A f \in Entering(K) : S.fired[f] > 0 => f = e
    BY <2>1 DEF EnteredOnce
  <2>3. \A f \in out \cap Entering(K) : f = e
    BY <1>1, <1>2, <2>2 DEF TakesOut
  <2>4. \A f \in Entering(K) : R.fired[f] = 0
    <3> TAKE f \in Entering(K)
    <3>1. S.fired[f] >= R.fired[f]
      BY <1>1, <1>2 DEF TakesOut
    <3> QED BY <1>1, <1>2, <2>1, <2>2, <3>1
  <2>5. ~Entered(R, K)
    BY <2>4 DEF Entered
  <2> QED BY <2>3, <2>5
<1> QED BY <1>3, <1>4

(* A call outside of the round succeeds: it may be the one that enters.    *)
LEMMA OutsideRounds ==
    ASSUME NEW l \in Loops, NEW K, l \in K, NEW R \in Run, NEW S \in Run, NEW T, NEW t \in T,
           NEW N, NEW ports, At(t) \notin K,
           TakesOut(R, S, Outgoing(At(t), ports)), EnteredOnce(S, K),
           S.loopAt[l] = R.loopAt[l], S.errors = R.errors, S.aborts = R.aborts,
           \A u \in N : u.edge \in Outgoing(At(t), ports) /\ u.pc = "queued",
           \A u, v \in N : u.edge = v.edge => u = v,
           \A e \in Outgoing(At(t), ports) : \E u \in N : u.edge = e,
           Rounds(R, T, l, K)
    PROVE  Rounds(S, (T \ {t}) \cup N, l, K)
<1> DEFINE out == Outgoing(At(t), ports)
           U == (T \ {t}) \cup N
<1>1. out \in SUBSET Edges /\ \A e \in out : e.from = At(t)
  BY DEF Outgoing
<1>2. \A e \in Edges : R.fired[e] \in Nat
  BY DEF Run
<1>3. \A port, k : Taken(S, l, port, k) <=> Taken(R, l, port, k)
  BY <1>1 DEF Taken, TakesOut, Outgoing
<1>4. GoesRound(R, T, l) => GoesRound(S, U, l)
  BY <1>3 DEF GoesRound
<1>5. IsOver(S, l) <=> IsOver(R, l)
  BY <1>3 DEF IsOver
<1>6. \A u \in N : At(u) \in K => u.edge \in out \cap Entering(K)
  BY <1>1 DEF At, Entering
<1>7. CASE out \cap Entering(K) = {}
  <2>1. Entered(S, K) <=> Entered(R, K)
    BY <1>7 DEF Entered, TakesOut, Entering
  <2>2. \A u \in N : At(u) \notin K
    BY <1>6, <1>7
  <2>3. Emptied(U, K) <=> Emptied(T, K)
    BY <2>2 DEF Emptied
  <2>4. \A u, v \in U : At(u) \in K /\ At(v) \in K => u = v
    BY <2>2 DEF Rounds
  <2> HIDE DEF U
  <2> QED BY <1>4, <1>5, <2>1, <2>3, <2>4 DEF Rounds, U
<1>8. ASSUME NEW e \in out \cap Entering(K) PROVE Rounds(S, U, l, K)
  <2>1. ~Entered(R, K) /\ \A f \in out \cap Entering(K) : f = e
    BY <1>1, EntersOnce
  <2>2. GoesRound(R, T, l) /\ Emptied(T, K)
    BY <2>1 DEF Rounds
  <2>3. Entered(S, K)
    BY <1>1, <1>2 DEF Entered, TakesOut
  <2>4. \A u, v \in U : At(u) \in K /\ At(v) \in K => u = v
    BY <1>6, <2>1, <2>2 DEF Emptied
  <2>5. ~Emptied(U, K)
    BY <1>1 DEF Emptied, At, Entering
  <2> HIDE DEF U
  <2> QED BY <1>4, <2>2, <2>3, <2>4, <2>5 DEF Rounds
<1> QED BY <1>7, <1>8

(* A call inside of the round succeeds: it goes on within, or its loop is  *)
(* over.                                                                   *)
LEMMA InsideRounds ==
    ASSUME NEW l \in Loops, NEW K \in SUBSET Nodes, Round(l, K), NEW R \in Run, NEW S \in Run,
           NEW T, NEW t \in T, t \in Token, NEW N, NEW ports \in PortChoices(t),
           At(t) \in K, t.pc = "exec", TakesOut(R, S, Outgoing(At(t), ports)),
           S.loopAt = [R.loopAt EXCEPT ![At(t)] = IF Another(t) THEN t.index + 1 ELSE 0],
           S.errors = R.errors, S.aborts = R.aborts,
           \A u \in N : u.edge \in Outgoing(At(t), ports) /\ u.pc = "queued",
           \A u, v \in N : u.edge = v.edge => u = v,
           \A e \in Outgoing(At(t), ports) : \E u \in N : u.edge = e,
           Rounds(R, T, l, K)
    PROVE  Rounds(S, (T \ {t}) \cup N, l, K)
<1> DEFINE n == At(t)
           out == Outgoing(n, ports)
           U == (T \ {t}) \cup N
<1>1. out \in SUBSET Edges /\ \A e \in out : e.from = n /\ e.port \in ports
  BY DEF Outgoing
<1>2. \A e \in Edges : R.fired[e] \in Nat /\ S.fired[e] \in Nat
  BY DEF Run
<1>3. /\ R.loopAt[l] \in Nat /\ LoopCount[l] \in Nat /\ t.index \in Nat
      /\ S.loopAt[l] = IF l # n THEN R.loopAt[l] ELSE IF Another(t) THEN t.index + 1 ELSE 0
  BY GraphAssumption DEF Run, Token
<1>4. GoesRound(R, T, l) /\ Entered(R, K)
  BY DEF Rounds, Emptied
<1>5. ports \in Alternatives(n)
  BY DEF PortChoices, Alternatives
<1>6. \A u \in T \ {t} : At(u) \notin K
  BY DEF Rounds
<1>7. Entered(S, K)
  <2>1. PICK e \in Entering(K) : R.fired[e] > 0
    BY <1>4 DEF Entered
  <2>2. e \in Edges /\ S.fired[e] >= R.fired[e]
    BY <1>2 DEF Entering, TakesOut
  <2> QED BY <1>2, <2>1, <2>2 DEF Entered
<1>8. \A u \in N : At(u) \in K => u.edge \in Inward(n, ports, K)
  BY DEF At, Inward
<1>9. \A u, v \in U : At(u) \in K /\ At(v) \in K => u = v
  BY <1>5, <1>6, <1>8 DEF Round
<1>10. \A u \in U : ~(At(u) = l /\ Counted(u))
  BY <1>6 DEF Counted, Round
<1>11. Inward(n, ports, K) # {} => ~Emptied(U, K)
  BY DEF Inward, Emptied, At
<1> HIDE DEF U
<1>12. CASE n # l
  <2>1. \A port, k : Taken(S, l, port, k) <=> Taken(R, l, port, k)
    BY <1>1, <1>12 DEF Taken, TakesOut, Outgoing
  <2>2. GoesRound(S, U, l)
    BY <1>3, <1>4, <1>10, <1>12, <2>1 DEF GoesRound, Counted
  <2>3. Closed(l, K) => ~Emptied(U, K)
    BY <1>5, <1>11, <1>12 DEF Closed
  <2> QED BY <1>7, <1>9, <2>2, <2>3 DEF Rounds, U
<1>13. CASE n = l /\ Another(t)
  <2>1. ports = {"loop"} /\ t.index < LoopCount[l] /\ t.index = R.loopAt[l]
    BY <1>4, <1>13 DEF PortChoices, Another, GoesRound
  <2>2. out = Outgoing(l, {"loop"})
    BY <1>13, <2>1
  <2>3. Taken(S, l, "loop", t.index + 1)
    BY <1>4, <2>1, <2>2 DEF GoesRound, Taken, TakesOut, Outgoing
  <2>4. Taken(S, l, "done", 0)
    BY <1>4, <2>2 DEF GoesRound, Taken, TakesOut, Outgoing
  <2>5. GoesRound(S, U, l)
    BY <1>3, <1>10, <1>13, <2>1, <2>3, <2>4 DEF GoesRound, Counted
  <2>6. Closed(l, K) => ~Emptied(U, K)
    BY <1>5, <1>11, <2>1 DEF Closed
  <2> QED BY <1>7, <1>9, <2>5, <2>6 DEF Rounds, U
<1>14. CASE n = l /\ ~Another(t)
  <2>1. ports = {"done"} /\ t.index = LoopCount[l] /\ t.index = R.loopAt[l]
    BY <1>3, <1>4, <1>14 DEF PortChoices, Another, GoesRound
  <2>2. out = Outgoing(l, {"done"})
    BY <1>14, <2>1
  <2>3. Taken(S, l, "loop", LoopCount[l])
    BY <1>4, <2>1, <2>2 DEF GoesRound, Taken, TakesOut, Outgoing
  <2>4. Taken(S, l, "done", 1)
    BY <1>4, <2>2 DEF GoesRound, Taken, TakesOut, Outgoing
  <2>5. Inward(n, ports, K) = {}
    BY <1>14, <2>1 DEF Round
  <2>6. Emptied(U, K)
    BY <1>6, <1>8, <2>5 DEF Emptied, U
  <2> QED BY <1>7, <1>9, <2>3, <2>4, <2>6 DEF Rounds, IsOver, U
<1> QED BY <1>12, <1>13, <1>14

(* What is counted while a run lives holds for good: a run that says       *)
(* success has no call left.                                               *)
LEMMA RoundsCount ==
    ASSUME NEW l \in Loops, NEW K, NEW R \in Run, NEW T, Rounds(R, T, l, K),
           R.done = "success" => T = {} /\ ~R.errors /\ ~R.aborts
    PROVE  Counts(R, l, K)
<1>1. LoopCount[l] \in Nat /\ R.loopAt[l] \in Nat
  BY GraphAssumption DEF Run
<1>2. GoesRound(R, T, l) => \E k \in 0..LoopCount[l] : Taken(R, l, "loop", k) /\ Taken(R, l, "done", 0)
  BY <1>1 DEF GoesRound
<1>3. T = {} => Emptied(T, K)
  BY DEF Emptied
<1> QED BY <1>2, <1>3 DEF Rounds, Counts

LEMMA CountsLast ==
    ASSUME NEW l, NEW K, NEW R, NEW S, S.fired = R.fired, S.done = "success" => R.done = "success",
           Counts(R, l, K)
    PROVE  Counts(S, l, K)
<1>1. Entered(S, K) <=> Entered(R, K)
  BY DEF Entered
<1>2. \A port, k : Taken(S, l, port, k) <=> Taken(R, l, port, k)
  BY DEF Taken
<1> QED BY <1>1, <1>2 DEF Counts, IsOver

-----------------------------------------------------------------------------
(* A step of one call, as above, that keeps the rounds of its run.         *)
KeepsRounds(t, R, N) ==
    LET old == runs[t.run]
    IN  /\ R.disposed = old.disposed
        /\ old.disposed => R.fired = old.fired /\ R.done = old.done
        /\ ~old.disposed /\ R.done = "success" => ~R.errors /\ ~R.aborts
        /\ ~old.disposed => \A l \in Loops, K \in SUBSET Nodes :
              Round(l, K) /\ EnteredOnce(R, K) =>
                  /\ EnteredOnce(old, K)
                  /\ Rounds(old, TokensOf(t.run), l, K) =>
                        Rounds(R, (TokensOf(t.run) \ {t}) \cup N, l, K)

LEMMA StepLoops ==
    ASSUME FlowInv, FlowInv', LoopInv, NEW t \in tokens, NEW R \in Run, NEW N,
           Replaces(t, R, N), \A u \in N : u.run = t.run, KeepsRounds(t, R, N)
    PROVE  LoopInv'
<1> SUFFICES ASSUME NEW r \in 1..started', NEW l \in Loops, NEW K \in SUBSET Nodes,
                    Round(l, K), EnteredOnce(runs'[r], K)
             PROVE  /\ Counts(runs'[r], l, K)
                    /\ ~runs'[r].disposed => Rounds(runs'[r], TokensOf(r)', l, K)
  BY DEF LoopInv
<1>1. /\ r \in 1..started /\ r \in 1..MaxRuns /\ t.run \in 1..MaxRuns
      /\ runs' = [runs EXCEPT ![t.run] = R] /\ runs \in [1..MaxRuns -> Run]
      /\ tokens' = (tokens \ {t}) \cup N
  BY CallFacts, CleanupFacts DEF Replaces, HookUnchanged, FlowInv, TypeOK
<1>2. CASE r # t.run
  <2>1. runs'[r] = runs[r] /\ TokensOf(r)' = TokensOf(r)
    BY <1>1, <1>2 DEF TokensOf
  <2> QED BY <1>1, <2>1 DEF LoopInv
<1>3. CASE r = t.run
  <2> DEFINE old == runs[r]
  <2>1. runs'[r] = R /\ TokensOf(r)' = (TokensOf(r) \ {t}) \cup N
    BY <1>1, <1>3 DEF TokensOf
  <2>2. CASE old.disposed
    <3>1. R.fired = old.fired /\ R.done = old.done /\ R.disposed
      BY <1>3, <2>2 DEF KeepsRounds
    <3>2. EnteredOnce(old, K)
      BY <2>1, <3>1 DEF EnteredOnce
    <3>3. Counts(old, l, K)
      BY <1>1, <3>2 DEF LoopInv
    <3> QED BY <2>1, <3>1, <3>3, CountsLast
  <2>3. CASE ~old.disposed
    <3>1. EnteredOnce(old, K)
      BY <1>3, <2>1, <2>3 DEF KeepsRounds
    <3>2. Rounds(old, TokensOf(r), l, K)
      BY <1>1, <2>3, <3>1 DEF LoopInv
    <3>3. Rounds(R, TokensOf(r)', l, K)
      BY <1>3, <2>1, <2>3, <3>2 DEF KeepsRounds
    <3>4. R.done = "success" => TokensOf(r)' = {} /\ ~R.errors /\ ~R.aborts
      <4> SUFFICES ASSUME R.done = "success" PROVE TokensOf(r)' = {} /\ ~R.errors /\ ~R.aborts
        OBVIOUS
      <4>1. R.pending = Cardinality(TokensOf(r)') /\ R.pending = 0
        BY <1>3, <2>1, <2>3 DEF KeepsRounds, FlowInv, Settlement
      <4>2. IsFiniteSet(TokensOf(r)')
        BY FS_Subset DEF FlowInv, TokensOf
      <4>3. TokensOf(r)' = {}
        BY <4>1, <4>2, FS_EmptySet
      <4> QED BY <1>3, <2>3, <4>3 DEF KeepsRounds
    <3>5. Counts(R, l, K)
      BY <3>3, <3>4, RoundsCount
    <3> QED BY <2>1, <3>3, <3>5
  <2> QED BY <2>2, <2>3
<1> QED BY <1>2, <1>3

(* A call that goes on, and one that ends without success.                 *)
LEMMA MovesLoops ==
    ASSUME FlowInv, FlowInv', LoopInv, NEW t \in tokens, NEW R \in Run, NEW u,
           Replaces(t, R, {u}), u.run = t.run, At(u) = At(t),
           R.disposed = runs[t.run].disposed, R.done = runs[t.run].done,
           R.fired = runs[t.run].fired, R.loopAt = runs[t.run].loopAt,
           R.errors = runs[t.run].errors, R.aborts = runs[t.run].aborts,
           Counted(u) => u.index = R.loopAt[At(t)] \/ (Counted(t) /\ u.index = t.index)
    PROVE  LoopInv'
<1> DEFINE old == runs[t.run]
<1>1. t \in TokensOf(t.run)
  BY DEF TokensOf
<1>2. ~old.disposed => old.done = "none"
  BY CountFacts
<1>3. \A K : EnteredOnce(R, K) => EnteredOnce(old, K)
  BY DEF EnteredOnce
<1>4. ASSUME NEW l, NEW K, Rounds(old, TokensOf(t.run), l, K)
      PROVE  Rounds(R, (TokensOf(t.run) \ {t}) \cup {u}, l, K)
  BY <1>1, <1>4, MovesRounds
<1>5. KeepsRounds(t, R, {u})
  BY <1>2, <1>3, <1>4 DEF KeepsRounds
<1> QED BY <1>5, StepLoops

LEMMA ReportsLoops ==
    ASSUME FlowInv, FlowInv', LoopInv, NEW t \in tokens, NEW status \in {"error", "aborted"},
           Reports(t, status), HookUnchanged
    PROVE  LoopInv'
<1> DEFINE old == runs[t.run]
           P == Published(old, At(t), status)
           R == Settled(P, status)
<1>0. status \in States /\ status \in Outcomes
  BY DEF States, Outcomes
<1>1. /\ old \in Run /\ At(t) \in All /\ At(t) \in Nodes /\ shown \in Showing
      /\ ~old.disposed => old.done = "none"
  BY CallFacts, CountFacts
<1>2. /\ runs' = [runs EXCEPT ![t.run] = R] /\ tokens' = (tokens \ {t}) \cup {}
      /\ shown' = NodeShown(old, At(t), status)
  BY DEF Reports, Becomes, Leaves
<1>3. shown' \in Showing
  BY <1>0, <1>1, <1>2, ShownFacts
<1>4. /\ P \in Run /\ P.disposed = old.disposed /\ P.done = old.done /\ P.fired = old.fired
      /\ P.loopAt = old.loopAt
  BY <1>0, <1>1, PublishedFacts
<1> HIDE DEF P
<1>5. /\ R \in Run /\ R.disposed = old.disposed /\ R.fired = old.fired
      /\ old.disposed => R.done = old.done
  BY <1>0, <1>4, SettledFacts
<1>6. /\ R.errors \/ R.aborts
      /\ ~old.disposed /\ R.done = "success" => ~R.errors /\ ~R.aborts
  <2>1. /\ R.errors = (P.errors \/ status = "error")
        /\ R.aborts = (P.aborts \/ status = "aborted")
        /\ P.done = "none" /\ R.done = "success" => ~R.errors /\ ~R.aborts
    BY <1>0, <1>4, SettledFlags
  <2>2. P.errors \in BOOLEAN /\ P.aborts \in BOOLEAN
    BY <1>4 DEF Run
  <2>3. status = "error" \/ status = "aborted"
    OBVIOUS
  <2> QED BY <1>1, <1>4, <2>1, <2>2, <2>3
<1>7. R.loopAt = old.loopAt
  BY <1>4 DEF Settled, Run
<1> HIDE DEF R
<1>8. Replaces(t, R, {})
  BY <1>2, <1>3 DEF Replaces
<1>9. \A K : EnteredOnce(R, K) => EnteredOnce(old, K)
  BY <1>5 DEF EnteredOnce
<1>10. ASSUME NEW l, NEW K, Rounds(old, TokensOf(t.run), l, K)
       PROVE  Rounds(R, (TokensOf(t.run) \ {t}) \cup {}, l, K)
  BY <1>5, <1>6, <1>7, <1>10, LeavesRounds
<1>11. KeepsRounds(t, R, {})
  BY <1>5, <1>6, <1>9, <1>10 DEF KeepsRounds
<1> QED BY <1>5, <1>8, <1>11, StepLoops

(* A call whose run is cancelled leaves without a word.                   *)
LEMMA LeavesLoops ==
    ASSUME FlowInv, FlowInv', LoopInv, NEW t \in tokens, runs[t.run].disposed,
           Leaves(t), HookUnchanged, UNCHANGED <<runs, shown>>
    PROVE  LoopInv'
<1>1. runs[t.run] \in Run /\ runs = [runs EXCEPT ![t.run] = runs[t.run]] /\ shown \in Showing
  BY CallFacts
<1>2. Replaces(t, runs[t.run], {})
  BY <1>1 DEF Replaces, Leaves
<1>3. KeepsRounds(t, runs[t.run], {})
  BY DEF KeepsRounds
<1> QED BY <1>1, <1>2, <1>3, StepLoops

(* A call that only moves.                                                 *)
LEMMA OnlyMovesLoops ==
    ASSUME FlowInv, FlowInv', LoopInv, NEW t \in tokens, TimerFires(t) \/ Executes(t)
    PROVE  LoopInv'
<1>1. t \in Token /\ runs = [runs EXCEPT ![t.run] = runs[t.run]] /\ shown \in Showing
  BY CallFacts
<1>2. runs' = runs /\ shown' = shown /\ HookUnchanged /\ runs[t.run] \in Run
  BY CallFacts DEF TimerFires, Executes
<1>3. CASE TimerFires(t)
  <2> DEFINE todo == {p \in Needs[At(t)] : runs[t.run].snaps[p] = "idle"}
             u == [t EXCEPT !.pc = "prepare", !.todo = todo]
  <2>1. tokens' = (tokens \ {t}) \cup {u}
    BY <1>3 DEF TimerFires, Moves
  <2> HIDE DEF todo
  <2>2. u.run = t.run /\ At(u) = At(t) /\ ~Counted(u)
    BY <1>1 DEF Token, At, Counted
  <2> HIDE DEF u
  <2>3. Replaces(t, runs[t.run], {u})
    BY <1>1, <1>2, <2>1 DEF Replaces
  <2> QED BY <1>2, <2>2, <2>3, MovesLoops
<1>4. CASE Executes(t)
  <2> DEFINE u == [t EXCEPT !.pc = "exec"]
  <2>1. tokens' = (tokens \ {t}) \cup {u} /\ Counted(t)
    BY <1>4 DEF Executes, Moves, Counted
  <2>2. u.run = t.run /\ At(u) = At(t) /\ u.index = t.index
    BY <1>1 DEF Token, At
  <2> HIDE DEF u
  <2>3. Replaces(t, runs[t.run], {u})
    BY <1>1, <1>2, <2>1 DEF Replaces
  <2> QED BY <1>2, <2>1, <2>2, <2>3, MovesLoops
<1> QED BY <1>3, <1>4

(* What a provider answers changes no count.                               *)
LEMMA MaterializesLoops ==
    ASSUME FlowInv, FlowInv', LoopInv, NEW t \in tokens, NEW p \in Passive,
           NEW status \in Outcomes, Materializes(t, p, status)
    PROVE  LoopInv'
<1> DEFINE R == Published(runs[t.run], p, status)
           todo == {q \in t.todo \ {p} : R.snaps[q] = "idle"}
           u == [t EXCEPT !.todo = todo]
<1>1. /\ p \in All /\ status \in States /\ t \in Token /\ runs[t.run] \in Run
      /\ shown \in Showing /\ At(t) \in Nodes
  BY CallFacts DEF All, States
<1>2. /\ R \in Run /\ R.disposed = runs[t.run].disposed /\ R.done = runs[t.run].done
      /\ R.fired = runs[t.run].fired /\ R.loopAt = runs[t.run].loopAt
      /\ R.errors = runs[t.run].errors /\ R.aborts = runs[t.run].aborts
  BY <1>1, PublishedFacts, PublishedSnaps
<1>3. runs' = [runs EXCEPT ![t.run] = R] /\ tokens' = (tokens \ {t}) \cup {u} /\ HookUnchanged
  BY DEF Materializes, Becomes, Moves
<1>4. shown' \in Showing
  BY <1>1, ShownFacts DEF Materializes
<1>5. t.pc = "prepare"
  BY DEF Materializes
<1> HIDE DEF R, todo
<1>6. u.run = t.run /\ At(u) = At(t) /\ ~Counted(u)
  BY <1>1, <1>5 DEF Token, At, Counted
<1> HIDE DEF u
<1> QED BY <1>2, <1>3, <1>4, <1>6, MovesLoops DEF Replaces

(* The node is prepared: a loop takes up its index.                        *)
LEMMA PreparedLoops ==
    ASSUME FlowInv, FlowInv', LoopInv, NEW t \in tokens, Prepared(t)
    PROVE  LoopInv'
<1>1. CASE runs[t.run].disposed
  BY <1>1, LeavesLoops DEF Prepared
<1>2. CASE ~runs[t.run].disposed
  <2> DEFINE R == Published(runs[t.run], At(t), "running")
             i == runs[t.run].loopAt[At(t)]
             u == [t EXCEPT !.pc = "delay", !.index = i]
  <2>1. /\ "running" \in States /\ t \in Token /\ runs[t.run] \in Run /\ shown \in Showing
        /\ At(t) \in Nodes /\ At(t) \in All
    BY CallFacts DEF States
  <2>2. /\ R \in Run /\ R.disposed = runs[t.run].disposed /\ R.done = runs[t.run].done
        /\ R.fired = runs[t.run].fired /\ R.loopAt = runs[t.run].loopAt
        /\ R.errors = runs[t.run].errors /\ R.aborts = runs[t.run].aborts
    BY <2>1, PublishedFacts, PublishedSnaps
  <2>3. runs' = [runs EXCEPT ![t.run] = R] /\ tokens' = (tokens \ {t}) \cup {u} /\ HookUnchanged
    BY <1>2 DEF Prepared, Becomes, Moves
  <2>4. shown' \in Showing
    BY <1>2, <2>1, ShownFacts DEF Prepared
  <2>5. u.run = t.run /\ At(u) = At(t) /\ u.index = i
    BY <2>1 DEF Token, At
  <2>6. i = R.loopAt[At(t)]
    BY <2>2
  <2> HIDE DEF R, u, i
  <2>7. Replaces(t, R, {u})
    BY <2>3, <2>4 DEF Replaces
  <2> QED BY <2>2, <2>5, <2>6, <2>7, MovesLoops
<1> QED BY <1>1, <1>2

(* A node that executes reports progress.                                  *)
LEMMA ProgressesLoops ==
    ASSUME FlowInv, FlowInv', LoopInv, NEW t \in tokens, Progresses(t)
    PROVE  LoopInv'
<1> DEFINE R == Published(runs[t.run], At(t), "running")
<1>1. /\ "running" \in States /\ t \in Token /\ runs[t.run] \in Run /\ shown \in Showing
      /\ At(t) \in Nodes /\ At(t) \in All
  BY CallFacts DEF States
<1>2. /\ R \in Run /\ R.disposed = runs[t.run].disposed /\ R.done = runs[t.run].done
      /\ R.fired = runs[t.run].fired /\ R.loopAt = runs[t.run].loopAt
      /\ R.errors = runs[t.run].errors /\ R.aborts = runs[t.run].aborts
  BY <1>1, PublishedFacts, PublishedSnaps
<1>3. runs' = [runs EXCEPT ![t.run] = R] /\ tokens' = (tokens \ {t}) \cup {t} /\ HookUnchanged
  BY DEF Progresses, Becomes
<1>4. shown' \in Showing
  BY <1>1, ShownFacts DEF Progresses
<1> HIDE DEF R
<1>5. Replaces(t, R, {t})
  BY <1>3, <1>4 DEF Replaces
<1> QED BY <1>2, <1>5, MovesLoops

(* A node succeeds, within a round or outside of it.                       *)
LEMMA SucceedsLoops ==
    ASSUME FlowInv, FlowInv', LoopInv, NEW t \in tokens, NEW ports, Succeeds(t, ports)
    PROVE  LoopInv'
<1> DEFINE old == runs[t.run]
           out == Outgoing(At(t), ports)
           M == Remembered(old, t)
           P == Published(M, At(t), "success")
           W == Spawned(P, out)
           R == Settled(W, "success")
           N == SpawnedTokens(t.run, out)
           T == TokensOf(t.run)
           next == IF Another(t) THEN t.index + 1 ELSE 0
<1>0. /\ "success" \in States /\ "success" \in Outcomes /\ out \in SUBSET Edges
      /\ ports \in PortChoices(t) /\ t.pc = "exec"
  BY DEF States, Outcomes, Outgoing, Succeeds
<1>1. /\ old \in Run /\ At(t) \in All /\ At(t) \in Nodes /\ shown \in Showing /\ t \in Token
      /\ ~old.disposed => old.done = "none"
      /\ t \in T
  BY CallFacts, CountFacts DEF TokensOf
<1>2. /\ runs' = [runs EXCEPT ![t.run] = R] /\ tokens' = (tokens \ {t}) \cup N
      /\ HookUnchanged /\ shown' = NodeShown(old, At(t), "success")
  BY DEF Succeeds, Becomes
<1>3. shown' \in Showing
  BY <1>0, <1>1, <1>2, ShownFacts
<1>4. /\ M \in Run /\ M.disposed = old.disposed /\ M.done = old.done /\ M.fired = old.fired
      /\ M.errors = old.errors /\ M.aborts = old.aborts
      /\ M.loopAt = [old.loopAt EXCEPT ![At(t)] = next]
  <2>1. M \in Run /\ M.disposed = old.disposed /\ M.done = old.done /\ M.fired = old.fired
    BY <1>1, RememberedFacts
  <2>2. M = [old EXCEPT !.loopAt[At(t)] = next]
    BY DEF Remembered
  <2> HIDE DEF next
  <2> QED BY <1>1, <2>1, <2>2 DEF Run
<1> HIDE DEF M
<1>5. /\ P \in Run /\ P.disposed = old.disposed /\ P.done = old.done /\ P.fired = old.fired
      /\ P.errors = old.errors /\ P.aborts = old.aborts /\ P.loopAt = M.loopAt
  <2>1. M \in Run /\ At(t) \in All /\ "success" \in States
    BY <1>0, <1>1, <1>4
  <2>2. /\ P \in Run /\ P.disposed = M.disposed /\ P.done = M.done /\ P.fired = M.fired
        /\ P.loopAt = M.loopAt
    BY <2>1, PublishedFacts
  <2>3. P.errors = M.errors /\ P.aborts = M.aborts
    BY <2>1, PublishedSnaps
  <2> HIDE DEF P, next
  <2> QED BY <1>4, <2>2, <2>3
<1> HIDE DEF P
<1>6. /\ W \in Run /\ W.disposed = old.disposed /\ W.done = old.done
      /\ W.errors = old.errors /\ W.aborts = old.aborts /\ W.loopAt = M.loopAt
      /\ \A e \in Edges : W.fired[e] = IF e \in out /\ ~old.disposed
                                       THEN old.fired[e] + 1 ELSE old.fired[e]
  <2>1. /\ W \in Run /\ W.disposed = P.disposed /\ W.done = P.done
        /\ \A e \in Edges : W.fired[e] = IF e \in out /\ ~P.disposed
                                         THEN P.fired[e] + 1 ELSE P.fired[e]
    BY <1>0, <1>5, SpawnedFacts
  <2>2. W.errors = P.errors /\ W.aborts = P.aborts /\ W.loopAt = P.loopAt
    BY <1>5 DEF Spawned, Run
  <2> QED BY <1>5, <2>1, <2>2
<1> HIDE DEF W
<1>7. /\ R \in Run /\ R.disposed = old.disposed /\ R.fired = W.fired
      /\ old.disposed => R.done = old.done
      /\ R.errors = old.errors /\ R.aborts = old.aborts /\ R.loopAt = M.loopAt
      /\ old.done = "none" /\ R.done = "success" => ~R.errors /\ ~R.aborts
  <2>1. /\ R \in Run /\ R.disposed = W.disposed /\ R.fired = W.fired
        /\ W.done # "none" \/ W.disposed => R.done = W.done
    BY <1>0, <1>6, SettledFacts
  <2>2. /\ R.errors = (W.errors \/ "success" = "error")
        /\ R.aborts = (W.aborts \/ "success" = "aborted")
        /\ W.done = "none" /\ R.done = "success" => ~R.errors /\ ~R.aborts
    BY <1>0, <1>6, SettledFlags
  <2>3. W.errors \in BOOLEAN /\ W.aborts \in BOOLEAN
    BY <1>6 DEF Run
  <2>4. R.loopAt = W.loopAt
    BY <1>6 DEF Settled, Run
  <2> QED BY <1>6, <2>1, <2>2, <2>3, <2>4
<1> HIDE DEF R, next
<1>8. N = IF old.disposed THEN {} ELSE {NewToken(t.run, e, old.fired[e] + 1) : e \in out}
  BY DEF SpawnedTokens
<1>9. \A u \in N : u.run = t.run
  BY <1>8 DEF NewToken
<1>10. Replaces(t, R, N)
  BY <1>2, <1>3 DEF Replaces
<1>11. CASE old.disposed
  <2>1. R.fired = old.fired
    BY <1>1, <1>6, <1>7, <1>11 DEF Run
  <2>2. KeepsRounds(t, R, N)
    BY <1>7, <1>11, <2>1 DEF KeepsRounds
  <2> QED BY <1>7, <1>9, <1>10, <2>2, StepLoops
<1>12. CASE ~old.disposed
  <2>1. N = {NewToken(t.run, e, old.fired[e] + 1) : e \in out}
    BY <1>8, <1>12
  <2>2. \A e \in out : /\ NewToken(t.run, e, old.fired[e] + 1).edge = e
                       /\ NewToken(t.run, e, old.fired[e] + 1).pc = "queued"
    BY DEF NewToken
  <2> HIDE DEF N
  <2>3. /\ \A u \in N : u.edge \in out /\ u.pc = "queued"
        /\ \A u, v \in N : u.edge = v.edge => u = v
        /\ \A e \in out : \E u \in N : u.edge = e
    BY <2>1, <2>2
  <2>4. TakesOut(old, R, out)
    BY <1>6, <1>7, <1>12 DEF TakesOut
  <2>5. ASSUME NEW l \in Loops, NEW K \in SUBSET Nodes, Round(l, K), EnteredOnce(R, K)
        PROVE  /\ EnteredOnce(old, K)
               /\ Rounds(old, T, l, K) => Rounds(R, (T \ {t}) \cup N, l, K)
    <3>1. EnteredOnce(old, K)
      BY <1>0, <1>1, <1>7, <2>4, <2>5, EntersOnce
    <3>2. R.loopAt = [old.loopAt EXCEPT ![At(t)] = next]
      BY <1>4, <1>7
    <3>3. ASSUME At(t) \notin K, Rounds(old, T, l, K) PROVE Rounds(R, (T \ {t}) \cup N, l, K)
      <4>1. l \in K /\ R.loopAt[l] = old.loopAt[l]
        BY <1>1, <2>5, <3>2, <3>3 DEF Round, Run
      <4> HIDE DEF T, out
      <4> QED BY <1>1, <1>7, <2>3, <2>4, <2>5, <3>3, <4>1, OutsideRounds DEF out
    <3>4. ASSUME At(t) \in K, Rounds(old, T, l, K) PROVE Rounds(R, (T \ {t}) \cup N, l, K)
      <4>1. R.loopAt = [old.loopAt EXCEPT ![At(t)] = IF Another(t) THEN t.index + 1 ELSE 0]
        BY <3>2 DEF next
      <4> HIDE DEF T, out
      <4> QED BY <1>0, <1>1, <1>7, <2>3, <2>4, <2>5, <3>4, <4>1, InsideRounds DEF out
    <3> QED BY <3>1, <3>3, <3>4
  <2>6. KeepsRounds(t, R, N)
    BY <1>1, <1>7, <1>12, <2>5 DEF KeepsRounds
  <2> QED BY <1>7, <1>9, <1>10, <2>6, StepLoops
<1> QED BY <1>11, <1>12

(* Any step of a call.                                                     *)
LEMMA StepsLoops ==
    ASSUME FlowInv, FlowInv', LoopInv, NEW t \in tokens, Steps(t) \/ Progresses(t)
    PROVE  LoopInv'
<1>1. CASE PrepareFails(t)
  BY <1>1, LeavesLoops, ReportsLoops DEF PrepareFails
<1>2. CASE NotFound(t)
  BY <1>2, ReportsLoops DEF NotFound
<1>3. CASE Fails(t)
  BY <1>3, ReportsLoops DEF Fails
<1>4. CASE Aborts(t)
  BY <1>4, LeavesLoops, ReportsLoops DEF Aborts
<1> QED
  BY <1>1, <1>2, <1>3, <1>4, MaterializesLoops, PreparedLoops, OnlyMovesLoops,
     ProgressesLoops, SucceedsLoops DEF Steps

(* The cleanup takes nothing back and makes no run a success.              *)
LEMMA CleanupLoops ==
    ASSUME FlowInv, LoopInv, NEW r \in 1..started, NEW l \in Loops, NEW K \in SUBSET Nodes,
           Round(l, K), EnteredOnce(RunsCleaned[r], K)
    PROVE  Counts(RunsCleaned[r], l, K) /\ RunsCleaned[r].disposed
<1>1. RunsCleaned[r].disposed /\ RunsCleaned[r].fired = runs[r].fired /\ r \in 1..MaxRuns
  BY CleanupFacts
<1>2. runs \in [1..MaxRuns -> Run]
  BY DEF FlowInv, TypeOK
<1>3. RunsCleaned[r].done = "success" => runs[r].done = "success"
  <2>1. RunsCleaned[r] = runs[r] \/ RunsCleaned[r] = Cleaned(runs[r])
    BY <1>1, <1>2 DEF RunsCleaned
  <2>2. CASE RunsCleaned[r] = Cleaned(runs[r])
    BY <1>1, <1>2, <2>2, CleanedFacts
  <2> QED BY <2>1, <2>2
<1>4. EnteredOnce(runs[r], K)
  BY <1>1 DEF EnteredOnce
<1>5. Counts(runs[r], l, K)
  BY <1>4 DEF LoopInv
<1> QED BY <1>1, <1>3, <1>5, CountsLast

(* A new run has entered no round.                                         *)
LEMMA ExecuteLoops ==
    ASSUME FlowInv, FlowInv', LoopInv, NEW n \in Starts, ExecuteFlow(n)
    PROVE  LoopInv'
<1> PICK q : q = started + 1
  OBVIOUS
<1> DEFINE R == [NewRun EXCEPT !.pending = 1]
           c == NewToken(q, Entry(n), 1)
<1>1. /\ q \in 1..MaxRuns /\ started' = q /\ started \in Nat /\ q \notin 1..started
      /\ \A r \in 1..q : r \in 1..started \/ r = q
  BY CleanupFacts, GraphAssumption DEF ExecuteFlow
<1>2. RunsCleaned[q] = NewRun
  BY <1>1, CleanupFacts
<1>3. runs' = [RunsCleaned EXCEPT ![q] = R] /\ tokens' = TokensCleaned \cup {c}
  BY <1>1, <1>2, CleanupFacts DEF ExecuteFlow
<1>4. /\ R \in Run /\ R.done = "none" /\ \A e \in Edges : R.fired[e] = 0
      /\ \A l \in Loops : R.loopAt[l] = 0
  BY GraphAssumption DEF NewRun, Run, States
<1>5. c.run = q /\ At(c) = n /\ c.pc = "queued"
  BY DEF NewToken, At, Entry
<1> HIDE DEF R, c
<1>6. TokensOf(q)' = {c}
  <2>1. \A t \in TokensCleaned : t.run \in 1..started
    BY CleanupFacts, CallFacts
  <2> QED BY <1>1, <1>3, <1>5, <2>1 DEF TokensOf
<1>7. ASSUME NEW l \in Loops, NEW K \in SUBSET Nodes, Round(l, K)
      PROVE  Rounds(R, {c}, l, K)
  <2>1. ~Entered(R, K)
    BY <1>4 DEF Entered, Entering
  <2>2. Emptied({c}, K)
    BY <1>5, <1>7 DEF Emptied, Round
  <2>3. Taken(R, l, "loop", 0) /\ Taken(R, l, "done", 0)
    BY <1>4 DEF Taken, Outgoing
  <2>4. GoesRound(R, {c}, l)
    BY <1>4, <1>5, <2>3, GraphAssumption DEF GoesRound
  <2> QED BY <2>1, <2>2, <2>4 DEF Rounds
<1> SUFFICES ASSUME NEW r \in 1..started', NEW l \in Loops, NEW K \in SUBSET Nodes,
                    Round(l, K), EnteredOnce(runs'[r], K)
             PROVE  /\ Counts(runs'[r], l, K)
                    /\ ~runs'[r].disposed => Rounds(runs'[r], TokensOf(r)', l, K)
  BY DEF LoopInv
<1>8. CASE r \in 1..started
  <2>1. runs'[r] = RunsCleaned[r]
    BY <1>1, <1>3, <1>8, CleanupFacts
  <2> QED BY <1>8, <2>1, CleanupLoops
<1>9. CASE r = q
  <2>1. runs'[r] = R
    BY <1>1, <1>3, <1>9, CleanupFacts
  <2>2. Rounds(R, {c}, l, K)
    BY <1>7
  <2>3. Counts(R, l, K)
    BY <1>4, <2>2, RoundsCount
  <2> QED BY <1>6, <1>9, <2>1, <2>2, <2>3
<1> QED BY <1>1, <1>8, <1>9

LEMMA NextLoops == FlowInv /\ FlowInv' /\ LoopInv /\ [Next]_vars => LoopInv'
<1> SUFFICES ASSUME FlowInv, FlowInv', LoopInv, [Next]_vars PROVE LoopInv'
  OBVIOUS
<1>1. CASE \E n \in Starts : ExecuteFlow(n)
  BY <1>1, ExecuteLoops
<1>2. CASE DocumentChanges \/ WorkspaceUnready \/ Unmounts
  <2>1. runs' = RunsCleaned /\ started' = started
    BY <1>2 DEF DocumentChanges, WorkspaceUnready, ResetRuntime, Unmounts
  <2> QED BY <2>1, CleanupLoops DEF LoopInv
<1>3. CASE WorkspaceReady \/ UNCHANGED vars
  BY <1>3 DEF WorkspaceReady, vars, LoopInv, TokensOf
<1>4. CASE \E t \in tokens : Steps(t) \/ Progresses(t)
  BY <1>4, StepsLoops
<1> QED BY <1>1, <1>2, <1>3, <1>4 DEF Next

(* The inductive invariant of the rounds of loops.                         *)
THEOREM LoopsCorrect == Spec => []LoopInv
<1>1. Init => LoopInv
  BY DEF Init, LoopInv
<1> QED BY <1>1, FlowCorrect, NextLoops, PTL DEF Spec

(* README, For Loop: in every graph, a round of a loop that is entered     *)
(* once is repeated no more than the given number of times and left by     *)
(* `done' once, after all of them; when nothing else leads out of it, a    *)
(* run that succeeds has left it.                                          *)
THEOREM LoopsAlwaysCount == Spec => []LoopRunsFixedCount
<1>1. LoopInv => LoopRunsFixedCount
  <2> SUFFICES ASSUME LoopInv, NEW r \in 1..started, NEW l \in Loops, NEW K \in SUBSET Nodes,
                      Round(l, K), EnteredOnce(runs[r], K),
                      NEW e \in Outgoing(l, {"loop"}), NEW d \in Outgoing(l, {"done"})
               PROVE  /\ runs[r].fired[e] <= LoopCount[l] /\ runs[r].fired[d] <= 1
                      /\ runs[r].fired[d] = 1 => runs[r].fired[e] = LoopCount[l]
                      /\ Closed(l, K) /\ Entered(runs[r], K) /\ runs[r].done = "success" =>
                             runs[r].fired[d] = 1
    BY DEF LoopRunsFixedCount
  <2>1. Counts(runs[r], l, K) /\ LoopCount[l] \in Nat
    BY GraphAssumption DEF LoopInv
  <2>2. CASE IsOver(runs[r], l)
    BY <2>1, <2>2 DEF IsOver, Taken
  <2>3. CASE ~IsOver(runs[r], l)
    <3>1. PICK k \in 0..LoopCount[l] : Taken(runs[r], l, "loop", k) /\ Taken(runs[r], l, "done", 0)
      BY <2>1, <2>3 DEF Counts
    <3>2. runs[r].fired[e] = k /\ runs[r].fired[d] = 0
      BY <3>1 DEF Taken
    <3>3. ~(Closed(l, K) /\ Entered(runs[r], K) /\ runs[r].done = "success")
      BY <2>1, <2>3 DEF Counts
    <3> QED BY <2>1, <3>1, <3>2, <3>3
  <2> QED BY <2>2, <2>3
<1> QED BY <1>1, LoopsCorrect, PTL
=============================================================================
