---------------------------- MODULE MCStudioFlow ----------------------------
(***************************************************************************)
(* Small graphs for StudioFlow.                                            *)
(***************************************************************************)
EXTENDS StudioFlow

CONSTANTS trigger, call, loop, branch, odd, other, last, params, page

Edge(a, port, b) == [from |-> a, port |-> port, to |-> b]

(* The trigger forks into a loop and a call, which may lead to a node of   *)
(* an unknown type.  The body of the loop is a branch: back to the loop,   *)
(* or by one more node.  Call and branch need the same parameters.         *)
ForkEdges == {Edge(trigger, "out", call), Edge(trigger, "out", loop),
              Edge(loop, "loop", branch), Edge(branch, "true", loop),
              Edge(branch, "false", other), Edge(other, "out", loop),
              Edge(loop, "done", last), Edge(call, "true", odd)}
ForkNeeds == [n \in Nodes |-> IF n \in {call, branch} THEN {params} ELSE {}]
TwoRounds == [n \in Loops |-> 2]

(* Two calls at once that need the same parameters.                        *)
PairEdges == {Edge(trigger, "out", call), Edge(trigger, "out", other)}
PairNeeds == [n \in Nodes |-> IF n \in {call, other} THEN {params} ELSE {}]
=============================================================================
